------------------------ MODULE RRsetRequestsProofs ------------------------
(***************************************************************************)
(* Proofs about RRsetRequests, for every number of workers and requests and *)
(* every set of types, records and payloads.  The inductive invariant says  *)
(* what the open transaction of a request has done and locked (JobOK), how  *)
(* that relates to the committed rows (OnRows) and to the transactions of   *)
(* others (Apart), and what nslord serves while requests are under way      *)
(* (DnsInv).  AloneInv follows a request without rivals through its payload.*)
(* The last section is about SyncToPdns, the composition with sync-to-pdns:  *)
(* its steps preserve the same invariant.                                    *)
(***************************************************************************)
EXTENDS SyncToPdns, TLAPS

Sent == UNION {[D -> SUBSET Record] : D \in SUBSET Item}
JobType ==
  [stage : Stage, kind : Kind, data : Payloads \cup {None}, num : 0 .. MaxRequests,
   inst : SUBSET Row, seen : SUBSET RRow, todo : SUBSET Item, cur : Item,
   picked : SUBSET RRow, fresh : SUBSET Record,
   insRows : SUBSET Row, delRows : SUBSET Row, insRRs : SUBSET RRow, delRRs : SUBSET RRow,
   locked : SUBSET Row, adds : SUBSET Item, mods : SUBSET Item, dels : SUBSET Item,
   lost : SUBSET Item, sent : Sent, alone : BOOLEAN]
Types ==
  /\ rows \subseteq Row /\ rrs \subseteq RRow
  /\ dns \in [Item -> SUBSET Record]
  /\ served \in 0 .. MaxRequests
  /\ torn \subseteq Item /\ stale \subseteq Item
  /\ job \in [Worker -> JobType]

-----------------------------------------------------------------------------
(* The inductive invariant                                                  *)

Statements == {"remove", "create", "drop", "compare", "save"}
Instances == {"remove", "drop", "compare", "save"}   \* those about a row held
Published == {"send", "commit"}

\* The row that the statement of a request is about, and the items that the
\* request has still to deal with: each is dealt with once.
Held(j) == CHOOSE r \in j.inst : r[1] = j.cur
Ahead(j) == j.todo \cup (IF j.stage \in Statements THEN {j.cur} ELSE {})

\* save_records deletes RRs before the row is locked.
Between(j) == j.stage \in {"compare", "save"}

\* What a request has not dealt with yet, it has not touched.
Ordered(j) ==
  /\ j.stage \in Statements => j.cur \notin j.todo /\ j.cur \in DOMAIN j.data
  /\ j.todo \subseteq DOMAIN j.data
  /\ \A r, s \in j.inst : r[1] = s[1] => r = s
  /\ j.stage \in Instances => \E r \in j.inst : r[1] = j.cur
  /\ j.stage \in {"drop", "compare"} => j.data[j.cur] # Keep
  /\ j.stage \in {"remove", "drop"} => \A x \in j.picked : x[1] = Held(j)
  /\ \A i \in Ahead(j) :
       /\ i \notin j.adds \cup j.dels \cup j.lost /\ \A r \in j.locked : r[1] # i
       /\ i \in j.mods => Between(j) /\ i = j.cur
  /\ j.stage \in {"begin"} \cup Published => j.todo = {}
  /\ j.stage \in {"idle", "begin"} =>
       /\ j.todo = {} /\ j.locked = {} /\ j.insRRs = {} /\ j.delRRs = {}
       /\ j.adds \cup j.mods \cup j.dels \cup j.lost = {}

\* Rows are written under their lock, and all of it is in the tracker's sets.
Locked(j) ==
  /\ j.insRows \cup j.delRows \subseteq j.locked /\ j.insRows \cap j.delRows = {}
  /\ \A r, s \in j.locked : r[1] = s[1] => r = s
  /\ \A r \in j.locked : r[1] \notin j.lost
  /\ \A x \in j.insRRs : x[1] \in j.locked \ j.delRows
  /\ \A x \in j.delRRs : x[1] \in j.locked \/ (Between(j) /\ x[1] = Held(j))
Tracked(j) ==
  /\ \A r \in j.insRows : r[1] \in j.adds
  /\ \A r \in j.delRows : r[1] \in j.dels
  /\ \A x \in j.delRRs : x[1][1] \in j.mods \cup j.dels
  /\ \A x \in j.insRRs : x[1][1] \in j.adds \cup j.mods
  /\ \A i \in j.adds \cup j.mods \cup j.dels :
       i \in j.lost \/ (Between(j) /\ i = j.cur) \/ \E r \in j.locked : r[1] = i
  /\ \A i \in j.dels \ j.lost : \E r \in j.delRows : r[1] = i
  /\ j.stage \in Published =>
       /\ j.mods \cup j.dels \subseteq DOMAIN j.sent
       /\ DOMAIN j.sent \subseteq j.adds \cup j.mods \cup j.dels
JobOK(j) == Ordered(j) /\ Locked(j) /\ Tracked(j)

\* An item as the transaction of a request sees it.
ViewOf(rowSet, rrSet, i) == Contents({x \in rrSet : x[1] \in RowsFor(rowSet, i)})
View(j, i) ==
  ViewOf((rows \ j.delRows) \cup j.insRows, (rrs \ j.delRRs) \cup j.insRRs, i)

\* A request and the committed rows: it keeps what it has locked or deletes, and
\* what it has published is what it will commit.
OnRows(j) ==
  /\ j.locked \subseteq rows \cup j.insRows
  /\ j.delRows \subseteq rows /\ j.delRRs \subseteq rrs
  /\ \A r \in j.insRows, s \in rows : r[1] # s[1]
  /\ j.stage \in Published => \A i \in Item \ j.lost :
       IF i \in DOMAIN j.sent THEN j.sent[i] = View(j, i)
       ELSE i \in j.adds => View(j, i) = {}

\* Two open transactions.
Apart(j, k) ==
  /\ j.locked \cap k.locked = {} /\ j.delRRs \cap k.delRRs = {}
  /\ \A r \in j.insRows : \A s \in k.insRows \cup k.delRows : r[1] # s[1]
  /\ \A r \in k.insRows : \A s \in j.insRows \cup j.delRows : r[1] # s[1]

\* The unique key of RRset and the foreign key of RR.
Keys ==
  /\ \A r, s \in rows : r[1] = s[1] => r = s
  /\ \A x \in rrs : x[1] \in rows

Publishes(w, i) == job[w].stage = "commit" /\ i \in DOMAIN job[w].sent

\* nslord has what the database stores, or what one request is about to commit.
DnsInv ==
  /\ \A w \in Worker, i \in Item : Publishes(w, i) /\ i \in job[w].lost => i \in stale
  /\ \A i \in Item \ (torn \cup stale) :
       /\ (\A w \in Worker : ~Publishes(w, i)) => dns[i] = Stored(i)
       /\ \A w \in Worker : Publishes(w, i) => dns[i] = job[w].sent[i]

Jobs ==
  /\ \A w \in Worker : JobOK(job[w]) /\ OnRows(job[w])
  /\ \A v, w \in Worker : v # w => Apart(job[v], job[w])
IInv == Types /\ Keys /\ Jobs /\ DnsInv

-----------------------------------------------------------------------------
(* Rows, records and views                                                  *)

LEMMA IdleOK ==
  /\ Idle \in JobType /\ JobOK(Idle) /\ OnRows(Idle)
  /\ \A j : Apart(Idle, j) /\ Apart(j, Idle)
<1>1. None \in Sent /\ (CHOOSE i \in Item : TRUE) \in Item
  <2>1. None \in [{} -> SUBSET Record]
    BY DEF None
  <2>2. None \in Sent
    BY <2>1 DEF Sent
  <2> QED BY <2>2, ItemAssumption
<1>2. Idle \in JobType
  BY <1>1, ItemAssumption DEF Idle, JobType, Stage, Kind
<1>3. JobOK(Idle)
  BY DEF Idle, JobOK, Ordered, Locked, Tracked, Statements, Instances, Published, Ahead, Between
<1>4. OnRows(Idle) /\ \A j : Apart(Idle, j) /\ Apart(j, Idle)
  BY DEF Idle, OnRows, Apart, Published
<1> QED BY <1>2, <1>3, <1>4

\* Requests that have locked rows have locked rows of different items: a row lock
\* is the lock of its item.
LEMMA ItemsApart ==
  ASSUME Keys, NEW j, NEW k, Locked(j), Locked(k), OnRows(j), OnRows(k), Apart(j, k),
         NEW r \in j.locked, NEW s \in k.locked
  PROVE  r[1] # s[1]
<1>1. CASE r \in rows /\ s \in rows
  BY <1>1 DEF Keys, Apart
<1>2. CASE r \in j.insRows /\ s \in k.insRows
  BY <1>2 DEF Apart
<1>3. CASE r \in j.insRows /\ s \in rows
  BY <1>3 DEF OnRows
<1>4. CASE r \in rows /\ s \in k.insRows
  BY <1>4 DEF OnRows
<1> QED BY <1>1, <1>2, <1>3, <1>4 DEF OnRows

\* The content of an item, one by one.
LEMMA ViewElement ==
  ASSUME NEW rowSet, NEW rrSet, NEW i, NEW c
  PROVE  c \in ViewOf(rowSet, rrSet, i) <=>
           \E x \in rrSet : x[1] \in rowSet /\ x[1][1] = i /\ x[2] = c
  BY DEF ViewOf, Contents, RowsFor

LEMMA Views ==
  /\ \A i : Stored(i) = ViewOf(rows, rrs, i)
  /\ \A w : CurRow(w) = Held(job[w])
  /\ \A w, i : Mine(w, i) = View(job[w], i)
<1>1. \A i : Stored(i) = ViewOf(rows, rrs, i)
  BY DEF Stored, ViewOf
<1>2. \A w : CurRow(w) = Held(job[w])
  BY DEF CurRow, Held
<1>3. \A w, i : Mine(w, i) = View(job[w], i)
  BY DEF Mine, View, ViewOf, MyRRs, MyRows
<1> QED BY <1>1, <1>2, <1>3

\* Two pairs of sets that agree about the rows of an item show it alike.
LEMMA SameView ==
  ASSUME NEW R, NEW S, NEW X, NEW Y, NEW i,
         \A r : r[1] = i => (r \in R <=> r \in S),
         \A x : x[1][1] = i => (x \in X <=> x \in Y)
  PROVE  ViewOf(R, X, i) = ViewOf(S, Y, i)
<1>1. \A c : c \in ViewOf(R, X, i) <=> c \in ViewOf(S, Y, i)
  BY ViewElement
<1>2. ViewOf(R, X, i) \subseteq ViewOf(S, Y, i) /\ ViewOf(S, Y, i) \subseteq ViewOf(R, X, i)
  BY <1>1
<1> QED BY <1>2

-----------------------------------------------------------------------------
(* The forms of steps                                                       *)

\* A request goes on and neither publishes nor commits.
LEMMA Moves ==
  ASSUME IInv, NEW w \in Worker, NEW J \in JobType, job' = [job EXCEPT ![w] = J],
         UNCHANGED <<dbVars, dns, torn, stale>>, served' \in 0 .. MaxRequests,
         J.stage # "commit", job[w].stage # "commit",
         JobOK(J), OnRows(J), \A v \in Worker \ {w} : Apart(J, job[v]) /\ Apart(job[v], J)
  PROVE  IInv'
<1> DEFINE Same == UNCHANGED <<rows, rrs, dns, torn, stale>>
<1>1. Same
  BY DEF dbVars
<1>2. /\ job' \in [Worker -> JobType] /\ job'[w] = J
      /\ \A v \in Worker \ {w} : job'[v] = job[v]
  BY DEF IInv, Types
<1>3. Types' /\ Keys'
  BY <1>1, <1>2 DEF IInv, Types, Keys
<1>4. \A v \in Worker : JobOK(job'[v]) /\ OnRows(job'[v])
  BY <1>2 DEF IInv, Jobs
<1>5. \A v, u \in Worker : v # u => Apart(job'[v], job'[u])
  BY <1>2 DEF IInv, Jobs
<1>6. Jobs'
  <2>1. ASSUME NEW v \in Worker PROVE JobOK(job[v])'
    BY <1>4 DEF JobOK, Ordered, Locked, Tracked, Ahead, Between, Held
  <2>2. ASSUME NEW v \in Worker PROVE OnRows(job[v])'
    <3>1. OnRows(job'[v])
      BY <1>4
    <3> QED BY <1>1, <3>1 DEF OnRows, View
  <2>3. ASSUME NEW v \in Worker, NEW u \in Worker, v # u PROVE Apart(job[v], job[u])'
    BY <1>5, <2>3 DEF Apart
  <2> QED BY <2>1, <2>2, <2>3 DEF Jobs
<1>7. \A v \in Worker, i \in Item :
        (Publishes(v, i)' <=> Publishes(v, i)) /\ (Publishes(v, i) => job'[v] = job[v])
  BY <1>2 DEF Publishes
<1>8. \A i : Stored(i)' = Stored(i)
  BY <1>1 DEF Stored
<1>9. DnsInv'
  BY <1>1, <1>7, <1>8 DEF IInv, DnsInv
<1> QED BY <1>3, <1>6, <1>9 DEF IInv

\* A transaction is rolled back.
LEMMA AbortStep ==
  ASSUME IInv, NEW w \in Worker, Abort(w), UNCHANGED <<torn, stale>>,
         job[w].stage # "commit"
  PROVE  IInv'
<1>1. served \in 0 .. MaxRequests
  BY DEF IInv, Types
<1>2. Idle.stage # "commit" /\ job' = [job EXCEPT ![w] = Idle]
      /\ UNCHANGED <<dbVars, dns, torn, stale>> /\ served' = served
  BY DEF Abort, Idle
<1> QED BY <1>1, <1>2, IdleOK, Moves

\* A step that writes nothing.
LEMMA QuietStep ==
  ASSUME IInv, NEW w \in Worker, NEW J \in JobType, job' = [job EXCEPT ![w] = J],
         UNCHANGED <<dbVars, dns, served, torn, stale>>,
         JobOK(J), J.stage \notin Published, job[w].stage # "commit",
         J.locked = job[w].locked, J.insRows = job[w].insRows, J.delRows = job[w].delRows,
         J.insRRs = job[w].insRRs, J.delRRs = job[w].delRRs
  PROVE  IInv'
<1>1. OnRows(J)
  BY DEF IInv, Jobs, OnRows
<1>2. \A v \in Worker \ {w} : Apart(J, job[v]) /\ Apart(job[v], J)
  BY DEF IInv, Jobs, Apart
<1>3. J.stage # "commit" /\ served' \in 0 .. MaxRequests
  BY DEF Published, IInv, Types
<1> QED BY <1>1, <1>2, <1>3, Moves

-----------------------------------------------------------------------------
(* Init and the acceptance of a request                                     *)

LEMMA InvInit == Init => IInv
<1> SUFFICES ASSUME Init PROVE IInv
  OBVIOUS
<1>1. PICK db \in [Item -> SUBSET Record] :
        /\ rows = {<<i, 0>> : i \in {k \in Item : db[k] # {}}}
        /\ rrs = {x \in RRow : x[1] \in rows /\ x[2] \in db[x[1][1]] /\ x[3] = 0}
        /\ dns = db
  BY DEF Init
<1>2. 0 \in 0 .. MaxRequests
  BY ItemAssumption
<1>3. rows \subseteq Row
  BY <1>1, <1>2 DEF Row
<1>4. Types
  BY <1>1, <1>2, <1>3, IdleOK DEF Init, Types
<1>5. Keys
  BY <1>1 DEF Keys
<1>6. Jobs
  BY IdleOK DEF Init, Jobs
<1>7. ASSUME NEW i \in Item PROVE dns[i] = Stored(i)
  <2>1. ASSUME NEW c \in Stored(i) PROVE c \in db[i]
    <3>1. PICK x \in rrs : x[1] \in rows /\ x[1][1] = i /\ x[2] = c
      BY ViewElement, Views
    <3> QED BY <1>1, <3>1
  <2>2. ASSUME NEW c \in db[i] PROVE c \in Stored(i)
    <3> DEFINE x == <<<<i, 0>>, c, 0>>
    <3>1. <<i, 0>> \in rows
      BY <1>1, <2>2
    <3>2. x \in RRow
      BY <1>2, <1>3, <2>2, <3>1 DEF RRow
    <3>3. x[1] \in rows /\ x[2] \in db[x[1][1]] /\ x[3] = 0
      BY <2>2, <3>1
    <3>4. x \in rrs /\ x[1] \in rows /\ x[1][1] = i /\ x[2] = c
      BY <1>1, <3>1, <3>2, <3>3
    <3> QED BY <3>4, ViewElement, Views
  <2>3. Stored(i) \subseteq db[i] /\ db[i] \subseteq Stored(i)
    BY <2>1, <2>2
  <2> QED BY <1>1, <2>3
<1>8. \A w \in Worker : \A i : ~Publishes(w, i)
  BY DEF Init, Publishes, Idle
<1>9. DnsInv
  BY <1>7, <1>8 DEF DnsInv
<1> QED BY <1>4, <1>5, <1>6, <1>9 DEF IInv

\* Whether a request is still alone is a remark about it and changes nothing.
LEMMA AloneOnly ==
  ASSUME NEW j \in JobType, NEW k, k = [j EXCEPT !.alone = FALSE]
  PROVE  /\ k \in JobType /\ (JobOK(j) => JobOK(k)) /\ (OnRows(j) => OnRows(k))
         /\ \A l : (Apart(j, l) => Apart(k, l)) /\ (Apart(l, j) => Apart(l, k))
         /\ k.stage = j.stage /\ k.sent = j.sent /\ k.lost = j.lost
<1>1. /\ k \in JobType
      /\ k.stage = j.stage /\ k.kind = j.kind /\ k.data = j.data /\ k.num = j.num
      /\ k.inst = j.inst /\ k.seen = j.seen /\ k.todo = j.todo /\ k.cur = j.cur
      /\ k.picked = j.picked /\ k.fresh = j.fresh /\ k.insRows = j.insRows
      /\ k.delRows = j.delRows /\ k.insRRs = j.insRRs /\ k.delRRs = j.delRRs
      /\ k.locked = j.locked /\ k.adds = j.adds /\ k.mods = j.mods /\ k.dels = j.dels
      /\ k.lost = j.lost /\ k.sent = j.sent
  BY DEF JobType
<1>2. JobOK(j) => JobOK(k)
  BY <1>1 DEF JobOK, Ordered, Locked, Tracked, Ahead, Between, Held
<1>3. OnRows(j) => OnRows(k)
  BY <1>1 DEF OnRows, View
<1>4. \A l : (Apart(j, l) => Apart(k, l)) /\ (Apart(l, j) => Apart(l, k))
  BY <1>1 DEF Apart
<1> QED BY <1>1, <1>2, <1>3, <1>4

LEMMA Counting ==
  ASSUME NEW n \in 0 .. MaxRequests, n < MaxRequests
  PROVE  n + 1 \in 0 .. MaxRequests
  BY ItemAssumption

LEMMA AcceptStep ==
  ASSUME IInv, NEW w \in Worker, NEW kind \in Kind, NEW data \in Payloads,
         Accept(w, kind, data)
  PROVE  IInv'
<1> DEFINE I == IF kind = "detail" THEN {r \in rows : r[1] \in DOMAIN data} ELSE {}
           a == \A u \in Worker \ {w} : job[u].stage = "idle"
           J == [Idle EXCEPT !.stage = "begin", !.kind = kind, !.data = data,
                             !.num = served + 1, !.inst = I, !.alone = a]
<1>1. /\ UNCHANGED <<rows, rrs, dns, torn, stale>>
      /\ served' = served + 1 /\ served < MaxRequests
      /\ job' = [v \in Worker |-> IF v = w THEN J ELSE [job[v] EXCEPT !.alone = FALSE]]
  BY DEF Accept, MayAccept, dbVars
<1>2. served' \in 0 .. MaxRequests /\ served + 1 \in 0 .. MaxRequests
  <2>1. served \in 0 .. MaxRequests /\ served < MaxRequests /\ served' = served + 1
    BY <1>1 DEF IInv, Types
  <2> QED BY <2>1, Counting
<1>3. I \subseteq Row /\ \A r, s \in I : r[1] = s[1] => r = s
  BY DEF IInv, Types, Keys
<1>4. a \in BOOLEAN
  OBVIOUS
<1> HIDE DEF I, a
<1>5. J \in JobType
  BY <1>2, <1>3, <1>4, IdleOK DEF JobType, Stage
<1>6. /\ J.stage = "begin" /\ J.data = data /\ J.inst = I /\ J.todo = {} /\ J.locked = {}
      /\ J.insRows = {} /\ J.delRows = {} /\ J.insRRs = {} /\ J.delRRs = {}
      /\ J.adds = {} /\ J.mods = {} /\ J.dels = {} /\ J.lost = {}
  BY DEF Idle
<1> HIDE DEF J
<1>7. JobOK(J)
  BY <1>3, <1>6 DEF JobOK, Ordered, Locked, Tracked, Statements, Instances, Published,
                    Ahead, Between
<1>8. OnRows(J) /\ \A j : Apart(J, j) /\ Apart(j, J)
  BY <1>6 DEF OnRows, Apart, Published
<1>9. /\ job'[w] = J
      /\ \A v \in Worker \ {w} : job'[v] = [job[v] EXCEPT !.alone = FALSE]
      /\ \A v \in Worker : job[v] \in JobType
  BY <1>1 DEF IInv, Types
<1>10. ASSUME NEW v \in Worker
       PROVE  job'[v] \in JobType /\ JobOK(job'[v]) /\ OnRows(job'[v])
  <2>1. CASE v = w
    BY <1>5, <1>7, <1>8, <1>9, <2>1
  <2>2. CASE v # w
    <3>1. job[v] \in JobType /\ job'[v] = [job[v] EXCEPT !.alone = FALSE]
      BY <1>9, <2>2
    <3>2. JobOK(job[v]) /\ OnRows(job[v])
      BY DEF IInv, Jobs
    <3> QED BY <3>1, <3>2, AloneOnly
  <2> QED BY <2>1, <2>2
<1>11. \A v, u \in Worker : v # u => Apart(job'[v], job'[u])
  <2> SUFFICES ASSUME NEW v \in Worker, NEW u \in Worker, v # u PROVE Apart(job'[v], job'[u])
    OBVIOUS
  <2>1. CASE v = w \/ u = w
    BY <1>8, <1>9, <2>1
  <2>2. CASE v # w /\ u # w
    <3>1. /\ job[v] \in JobType /\ job'[v] = [job[v] EXCEPT !.alone = FALSE]
          /\ job[u] \in JobType /\ job'[u] = [job[u] EXCEPT !.alone = FALSE]
      BY <1>9, <2>2
    <3>2. Apart(job[v], job[u])
      BY DEF IInv, Jobs
    <3>3. Apart(job'[v], job[u])
      BY <3>1, <3>2, AloneOnly
    <3> QED BY <3>1, <3>3, AloneOnly
  <2> QED BY <2>1, <2>2
<1>12. Types' /\ Keys'
  BY <1>1, <1>2, <1>10 DEF IInv, Types, Keys
<1>13. Jobs'
  <2>1. ASSUME NEW v \in Worker PROVE JobOK(job[v])'
    BY <1>10 DEF JobOK, Ordered, Locked, Tracked, Ahead, Between, Held
  <2>2. ASSUME NEW v \in Worker PROVE OnRows(job[v])'
    <3>1. OnRows(job'[v])
      BY <1>10
    <3> QED BY <1>1, <3>1 DEF OnRows, View
  <2>3. ASSUME NEW v \in Worker, NEW u \in Worker, v # u PROVE Apart(job[v], job[u])'
    BY <1>11, <2>3 DEF Apart
  <2> QED BY <2>1, <2>2, <2>3 DEF Jobs
<1>14. job[w].stage = "idle"
  BY DEF Accept, MayAccept
<1>15. \A v \in Worker, i \in Item :
         /\ Publishes(v, i)' <=> Publishes(v, i)
         /\ Publishes(v, i) => job'[v].sent = job[v].sent /\ job'[v].lost = job[v].lost
  <2> SUFFICES ASSUME NEW v \in Worker, NEW i \in Item
               PROVE  /\ Publishes(v, i)' <=> Publishes(v, i)
                      /\ Publishes(v, i) => /\ job'[v].sent = job[v].sent
                                            /\ job'[v].lost = job[v].lost
    OBVIOUS
  <2>1. CASE v = w
    BY <1>6, <1>9, <1>14, <2>1 DEF Publishes
  <2>2. CASE v # w
    <3>1. /\ job'[v].stage = job[v].stage /\ job'[v].sent = job[v].sent
          /\ job'[v].lost = job[v].lost
      BY <1>9, <2>2, AloneOnly
    <3> QED BY <3>1 DEF Publishes
  <2> QED BY <2>1, <2>2
<1>16. \A i : Stored(i)' = Stored(i)
  BY <1>1 DEF Stored
<1>17. DnsInv'
  BY <1>1, <1>15, <1>16 DEF IInv, DnsInv
<1> QED BY <1>12, <1>13, <1>17 DEF IInv

-----------------------------------------------------------------------------
(* Steps that write nothing                                                 *)

\* A request holds one instance of an item.
LEMMA HeldIs ==
  ASSUME NEW j, NEW r \in j.inst, r[1] = j.cur, \A s, t \in j.inst : s[1] = t[1] => s = t
  PROVE  Held(j) = r
  BY DEF Held

LEMMA JobFacts ==
  ASSUME IInv, NEW w \in Worker
  PROVE  /\ job[w] \in JobType /\ JobOK(job[w]) /\ OnRows(job[w])
         /\ MyRows(w) \subseteq Row /\ MyRRs(w) \subseteq RRow
         /\ \A J : job' = [job EXCEPT ![w] = J] => job'[w] = J
<1>1. job[w] \in JobType /\ rows \subseteq Row /\ rrs \subseteq RRow /\ job \in [Worker -> JobType]
  BY DEF IInv, Types
<1>2. MyRows(w) \subseteq Row /\ MyRRs(w) \subseteq RRow
  BY <1>1 DEF MyRows, MyRRs, JobType
<1>3. JobOK(job[w]) /\ OnRows(job[w])
  BY DEF IInv, Jobs
<1> QED BY <1>1, <1>2, <1>3

LEMMA BeginStep ==
  ASSUME IInv, NEW w \in Worker, Begin(w)
  PROVE  IInv'
<1> DEFINE j == job[w]
           bulk == j.kind \in {"bulk", "dyndns"}
           I == IF bulk THEN {r \in rows : r[1] \in DOMAIN j.data} ELSE j.inst
           T == {i \in DOMAIN j.data : j.data[i] # {} \/ \E r \in I : r[1] = i}
           J == [j EXCEPT !.stage = "next", !.inst = I, !.seen = Prefetched(w), !.todo = T]
<1>1. j \in JobType /\ JobOK(j) /\ rows \subseteq Row /\ rrs \subseteq RRow
  BY JobFacts DEF IInv, Types
<1>2. /\ j.stage = "begin" /\ job' = [job EXCEPT ![w] = J]
      /\ UNCHANGED <<dbVars, dns, served, torn, stale>>
  BY DEF Begin
<1>3. I \subseteq Row /\ (\A r, s \in I : r[1] = s[1] => r = s)
  BY <1>1 DEF IInv, Keys, JobType, JobOK, Ordered
<1>4. DOMAIN j.data \subseteq Item
  BY <1>1, PayloadAssumption DEF JobType, None
<1>5. T \subseteq DOMAIN j.data /\ T \subseteq Item /\ Prefetched(w) \subseteq RRow
  BY <1>1, <1>4 DEF Prefetched
<1> HIDE DEF I, T
<1>6. J \in JobType
  BY <1>1, <1>3, <1>5 DEF JobType, Stage
<1>7. /\ J.stage = "next" /\ J.data = j.data /\ J.inst = I /\ J.todo = T
      /\ J.locked = j.locked /\ J.insRows = j.insRows /\ J.delRows = j.delRows
      /\ J.insRRs = j.insRRs /\ J.delRRs = j.delRRs
      /\ J.adds = j.adds /\ J.mods = j.mods /\ J.dels = j.dels /\ J.lost = j.lost
  BY <1>1 DEF JobType
<1> HIDE DEF J, j
<1>8. /\ j.locked = {} /\ j.insRRs = {} /\ j.delRRs = {} /\ j.insRows = {} /\ j.delRows = {}
      /\ j.adds = {} /\ j.mods = {} /\ j.dels = {} /\ j.lost = {}
  BY <1>1, <1>2 DEF JobOK, Ordered, Locked, j
<1>9. JobOK(J)
  BY <1>3, <1>5, <1>7, <1>8
     DEF JobOK, Ordered, Locked, Tracked, Statements, Instances, Published, Ahead, Between
<1>10. J.stage \notin Published /\ job[w].stage # "commit"
  BY <1>2, <1>7 DEF Published, j
<1> QED BY <1>2, <1>6, <1>7, <1>9, <1>10, QuietStep DEF j

\* The next item of a walk through those that remain.
LEMMA WalkStep ==
  ASSUME IInv, NEW w \in Worker, NEW J \in JobType, job' = [job EXCEPT ![w] = J],
         UNCHANGED <<dbVars, dns, served, torn, stale>>,
         job[w].stage = "next", J.stage \in {"remove", "create", "drop", "save"},
         J.cur \in job[w].todo, J.todo = job[w].todo \ {J.cur},
         J.stage \in Instances => \E r \in J.inst : r[1] = J.cur,
         J.stage \in {"remove", "drop"} => \A x \in J.picked : x[1] = Held(J),
         J.stage = "drop" => J.data[J.cur] # Keep,
         J.inst = job[w].inst, J.data = job[w].data,
         J.locked = job[w].locked, J.insRows = job[w].insRows, J.delRows = job[w].delRows,
         J.insRRs = job[w].insRRs, J.delRRs = job[w].delRRs, J.adds = job[w].adds,
         J.mods = job[w].mods, J.dels = job[w].dels, J.lost = job[w].lost
  PROVE  IInv'
<1>1. JobOK(job[w])
  BY JobFacts
<1>2. Ahead(J) = Ahead(job[w])
  BY DEF Ahead, Statements
<1>3. ~Between(job[w])
  BY DEF Between
<1>4. Ordered(J)
  BY <1>1, <1>2, <1>3 DEF JobOK, Ordered, Statements, Instances, Published
<1>5. Locked(J)
  BY <1>1, <1>3 DEF JobOK, Locked
<1>6. Tracked(J)
  BY <1>1, <1>3 DEF JobOK, Tracked, Published
<1>7. J.stage \notin Published /\ job[w].stage # "commit"
  BY DEF Published
<1> QED BY <1>4, <1>5, <1>6, <1>7, QuietStep DEF JobOK

LEMMA StartDeleteStep ==
  ASSUME IInv, NEW w \in Worker, StartDelete(w)
  PROVE  IInv'
<1>1. PICK r \in job[w].inst :
        /\ r[1] \in Deletions(w)
        /\ job' = [job EXCEPT ![w] = [job[w] EXCEPT !.stage = "remove", !.cur = r[1],
                              !.todo = @ \ {r[1]}, !.picked = RRsOf(MyRRs(w), r)]]
  BY DEF StartDelete
<1> DEFINE P == RRsOf(MyRRs(w), r)
           J == [job[w] EXCEPT !.stage = "remove", !.cur = r[1], !.todo = @ \ {r[1]}, !.picked = P]
<1>2. job[w] \in JobType /\ JobOK(job[w]) /\ MyRRs(w) \subseteq RRow
  BY JobFacts
<1>3. P \subseteq RRow /\ \A x \in P : x[1] = r
  BY <1>2 DEF RRsOf
<1>4. r[1] \in job[w].todo
  BY <1>1 DEF Deletions
<1> HIDE DEF P
<1>5. J \in JobType
  BY <1>2, <1>3, <1>4 DEF JobType, Stage
<1>6. /\ J.stage = "remove" /\ J.cur = r[1] /\ J.todo = job[w].todo \ {r[1]} /\ J.picked = P
      /\ J.inst = job[w].inst /\ J.data = job[w].data
      /\ J.locked = job[w].locked /\ J.insRows = job[w].insRows /\ J.delRows = job[w].delRows
      /\ J.insRRs = job[w].insRRs /\ J.delRRs = job[w].delRRs /\ J.adds = job[w].adds
      /\ J.mods = job[w].mods /\ J.dels = job[w].dels /\ J.lost = job[w].lost
  BY <1>2 DEF JobType
<1>7. job' = [job EXCEPT ![w] = J] /\ job[w].stage = "next"
      /\ UNCHANGED <<dbVars, dns, served, torn, stale>>
  BY <1>1 DEF StartDelete, P
<1> HIDE DEF J
<1>8. Held(J) = r
  BY <1>2, <1>6, HeldIs DEF JobOK, Ordered
<1> QED BY <1>3, <1>4, <1>5, <1>6, <1>7, <1>8, WalkStep

LEMMA StartCreateStep ==
  ASSUME IInv, NEW w \in Worker, StartCreate(w)
  PROVE  IInv'
<1>1. PICK i \in Creations(w) :
        job' = [job EXCEPT ![w] = [job[w] EXCEPT !.stage = "create", !.cur = i,
                                                 !.todo = @ \ {i}]]
  BY DEF StartCreate
<1> DEFINE J == [job[w] EXCEPT !.stage = "create", !.cur = i, !.todo = @ \ {i}]
<1>2. job[w] \in JobType /\ JobOK(job[w])
  BY JobFacts
<1>3. i \in job[w].todo
  BY <1>1 DEF Creations
<1>4. J \in JobType
  BY <1>2, <1>3 DEF JobType, Stage
<1>5. /\ J.stage = "create" /\ J.cur = i /\ J.todo = job[w].todo \ {i}
      /\ J.inst = job[w].inst /\ J.data = job[w].data
      /\ J.locked = job[w].locked /\ J.insRows = job[w].insRows /\ J.delRows = job[w].delRows
      /\ J.insRRs = job[w].insRRs /\ J.delRRs = job[w].delRRs /\ J.adds = job[w].adds
      /\ J.mods = job[w].mods /\ J.dels = job[w].dels /\ J.lost = job[w].lost
  BY <1>2 DEF JobType
<1>6. job' = [job EXCEPT ![w] = J] /\ job[w].stage = "next"
      /\ UNCHANGED <<dbVars, dns, served, torn, stale>>
  BY <1>1 DEF StartCreate
<1> HIDE DEF J
<1> QED BY <1>3, <1>4, <1>5, <1>6, WalkStep DEF Instances

LEMMA StartUpdateStep ==
  ASSUME IInv, NEW w \in Worker, StartUpdate(w)
  PROVE  IInv'
<1>1. PICK r \in job[w].inst :
        /\ r[1] \in Updates(w)
        /\ job' = [job EXCEPT ![w] = [job[w] EXCEPT
                     !.cur = r[1], !.todo = @ \ {r[1]}, !.fresh = {},
                     !.stage = IF job[w].data[r[1]] = Keep THEN "save" ELSE "drop",
                     !.picked = IF job[w].data[r[1]] = Keep THEN {}
                                ELSE {x \in RRsOf(MyRRs(w), r) : x[2] \notin job[w].data[r[1]]}]]
  BY DEF StartUpdate
<1> DEFINE new == job[w].data[r[1]]
           P == IF new = Keep THEN {} ELSE {x \in RRsOf(MyRRs(w), r) : x[2] \notin new}
           s == IF new = Keep THEN "save" ELSE "drop"
           J == [job[w] EXCEPT !.cur = r[1], !.todo = @ \ {r[1]}, !.fresh = {}, !.stage = s,
                               !.picked = P]
<1>2. job[w] \in JobType /\ JobOK(job[w]) /\ MyRRs(w) \subseteq RRow
  BY JobFacts
<1>3. P \subseteq RRow /\ \A x \in P : x[1] = r
  BY <1>2 DEF RRsOf
<1>4. r[1] \in job[w].todo
  BY <1>1 DEF Updates
<1>5. s \in {"save", "drop"} /\ (s = "drop" => new # Keep)
  OBVIOUS
<1>6. job' = [job EXCEPT ![w] = J] /\ job[w].stage = "next"
      /\ UNCHANGED <<dbVars, dns, served, torn, stale>>
  <2>1. job' = [job EXCEPT ![w] = J]
    BY <1>1
  <2> HIDE DEF P, s
  <2> QED BY <2>1 DEF StartUpdate
<1> HIDE DEF P, s
<1>7. J \in JobType
  BY <1>2, <1>3, <1>4, <1>5 DEF JobType, Stage
<1>8. /\ J.stage = s /\ J.cur = r[1] /\ J.todo = job[w].todo \ {r[1]} /\ J.picked = P
      /\ J.inst = job[w].inst /\ J.data = job[w].data
      /\ J.locked = job[w].locked /\ J.insRows = job[w].insRows /\ J.delRows = job[w].delRows
      /\ J.insRRs = job[w].insRRs /\ J.delRRs = job[w].delRRs /\ J.adds = job[w].adds
      /\ J.mods = job[w].mods /\ J.dels = job[w].dels /\ J.lost = job[w].lost
  BY <1>2 DEF JobType
<1> HIDE DEF J
<1>9. Held(J) = r
  BY <1>2, <1>8, HeldIs DEF JobOK, Ordered
<1> QED BY <1>3, <1>4, <1>5, <1>6, <1>7, <1>8, <1>9, WalkStep

\* A payload says of an item: these records, or leave them.
LEMMA PayloadValue ==
  ASSUME NEW j \in JobType, NEW i \in DOMAIN j.data
  PROVE  i \in Item /\ (j.data[i] # Keep => j.data[i] \subseteq Record)
<1>1. DOMAIN None = {}
  BY DEF None
<1>2. j.data \in Payloads
  BY <1>1 DEF JobType
<1>3. PICK D \in SUBSET Item : j.data \in [D -> Values]
  BY <1>2, PayloadAssumption
<1> QED BY <1>3 DEF Values

LEMMA CompareStep ==
  ASSUME IInv, NEW w \in Worker, Compare(w)
  PROVE  IInv'
<1> DEFINE F == New(w) \ Contents(RRsOf(IF job[w].kind = "dyndns" THEN job[w].seen ELSE MyRRs(w),
                                        CurRow(w)))
           J == [job[w] EXCEPT !.stage = "save", !.fresh = F]
<1>1. /\ job[w].stage = "compare" /\ job' = [job EXCEPT ![w] = J]
      /\ UNCHANGED <<dbVars, dns, served, torn, stale>>
  BY DEF Compare
<1>2. job[w] \in JobType /\ JobOK(job[w])
  BY JobFacts
<1>3. job[w].cur \in DOMAIN job[w].data /\ New(w) # Keep
  BY <1>1, <1>2 DEF JobOK, Ordered, Statements, New
<1>4. F \subseteq Record
  BY <1>2, <1>3, PayloadValue DEF New
<1> HIDE DEF F
<1>5. J \in JobType
  BY <1>2, <1>4 DEF JobType, Stage
<1>6. /\ J.stage = "save" /\ J.cur = job[w].cur /\ J.todo = job[w].todo
      /\ J.inst = job[w].inst /\ J.data = job[w].data
      /\ J.locked = job[w].locked /\ J.insRows = job[w].insRows /\ J.delRows = job[w].delRows
      /\ J.insRRs = job[w].insRRs /\ J.delRRs = job[w].delRRs /\ J.adds = job[w].adds
      /\ J.mods = job[w].mods /\ J.dels = job[w].dels /\ J.lost = job[w].lost
  BY <1>2 DEF JobType
<1> HIDE DEF J
<1>7. Ahead(J) = Ahead(job[w]) /\ Held(J) = Held(job[w]) /\ Between(J) /\ Between(job[w])
  BY <1>1, <1>6 DEF Ahead, Statements, Held, Between
<1>8. JobOK(J)
  BY <1>1, <1>2, <1>6, <1>7 DEF JobOK, Ordered, Locked, Tracked, Statements, Instances, Published
<1>9. J.stage \notin Published /\ job[w].stage # "commit"
  BY <1>1, <1>6 DEF Published
<1> QED BY <1>1, <1>5, <1>6, <1>8, <1>9, QuietStep

-----------------------------------------------------------------------------
(* Statements that write                                                    *)

\* What a statement about an item finds: nothing of this item is locked by the
\* request yet, so the row it holds is stored, or gone.
LEMMA Unwritten ==
  ASSUME IInv, NEW w \in Worker, job[w].stage \in Statements
  PROVE  /\ job[w].cur \in Item /\ job[w].cur \notin job[w].todo
         /\ job[w].cur \notin job[w].adds \cup job[w].dels \cup job[w].lost
         /\ \A r \in job[w].locked \cup job[w].insRows \cup job[w].delRows : r[1] # job[w].cur
         /\ \A r : r[1] = job[w].cur => (r \in MyRows(w) <=> r \in rows)
<1>1. job[w] \in JobType /\ JobOK(job[w])
  BY JobFacts
<1>2. job[w].cur \in Ahead(job[w])
  BY DEF Ahead
<1>3. \A r \in job[w].locked \cup job[w].insRows \cup job[w].delRows : r[1] # job[w].cur
  BY <1>1, <1>2 DEF JobOK, Ordered, Locked
<1>4. \A r : r[1] = job[w].cur => (r \in MyRows(w) <=> r \in rows)
  BY <1>3 DEF MyRows
<1>5. job[w].cur \in Item
  BY <1>1 DEF JobType
<1> QED BY <1>1, <1>2, <1>3, <1>4, <1>5 DEF JobOK, Ordered

LEMMA HeldFacts ==
  ASSUME IInv, NEW w \in Worker, job[w].stage \in Instances
  PROVE  Held(job[w]) \in Row /\ Held(job[w])[1] = job[w].cur /\ CurRow(w) = Held(job[w])
         /\ Held(job[w]) \in job[w].inst
<1>1. job[w] \in JobType /\ JobOK(job[w])
  BY JobFacts
<1>2. PICK r \in job[w].inst : r[1] = job[w].cur
  BY <1>1 DEF JobOK, Ordered
<1>3. Held(job[w]) = r
  BY <1>1, <1>2, HeldIs DEF JobOK, Ordered
<1> QED BY <1>1, <1>2, <1>3, Views DEF JobType

LEMMA DropStep ==
  ASSUME IInv, NEW w \in Worker, Drop(w)
  PROVE  IInv'
<1> DEFINE D == job[w].delRRs \cup (job[w].picked \cap rrs)
           M == IF job[w].picked = {} THEN job[w].mods ELSE job[w].mods \cup {job[w].cur}
           J == [job[w] EXCEPT !.stage = "compare", !.delRRs = D, !.mods = M]
<1>1. /\ job[w].stage = "drop" /\ Free(w) /\ job' = [job EXCEPT ![w] = J]
      /\ UNCHANGED <<dbVars, dns, served, torn, stale>>
  BY DEF Drop
<1>2. job[w] \in JobType /\ JobOK(job[w]) /\ OnRows(job[w])
  BY JobFacts
<1>3. D \subseteq RRow /\ M \subseteq Item
  BY <1>2 DEF JobType
<1>4. /\ job[w].picked \subseteq D \cup (job[w].picked \ rrs)
      /\ D \subseteq job[w].delRRs \cup job[w].picked
  OBVIOUS
<1>5. /\ job[w].mods \subseteq M /\ M \subseteq job[w].mods \cup {job[w].cur}
      /\ job[w].picked # {} => job[w].cur \in M
  OBVIOUS
<1>6. \A v \in Worker \ {w} : D \cap job[v].delRRs = {}
  <2>1. \A v \in Worker \ {w} : job[w].picked \cap job[v].delRRs = {}
    BY <1>1 DEF Free, Waits
  <2>2. \A v \in Worker \ {w} : job[w].delRRs \cap job[v].delRRs = {}
    BY DEF IInv, Jobs, Apart
  <2> QED BY <2>1, <2>2
<1>7. D \subseteq rrs
  BY <1>2 DEF OnRows
<1> HIDE DEF D, M
<1>8. J \in JobType
  BY <1>2, <1>3 DEF JobType, Stage
<1>9. /\ J.stage = "compare" /\ J.cur = job[w].cur /\ J.todo = job[w].todo
      /\ J.inst = job[w].inst /\ J.data = job[w].data
      /\ J.locked = job[w].locked /\ J.insRows = job[w].insRows /\ J.delRows = job[w].delRows
      /\ J.insRRs = job[w].insRRs /\ J.delRRs = D /\ J.adds = job[w].adds
      /\ J.mods = M /\ J.dels = job[w].dels /\ J.lost = job[w].lost
  BY <1>2 DEF JobType
<1> HIDE DEF J
<1>10. Ahead(J) = Ahead(job[w]) /\ Held(J) = Held(job[w]) /\ Between(J) /\ ~Between(job[w])
  BY <1>1, <1>9 DEF Ahead, Statements, Held, Between
<1>11. Held(job[w])[1] = job[w].cur /\ \A x \in job[w].picked : x[1] = Held(job[w])
  BY <1>1, <1>2, HeldFacts DEF Instances, JobOK, Ordered
<1>12. Ordered(J)
  BY <1>1, <1>2, <1>5, <1>9, <1>10 DEF JobOK, Ordered, Statements, Instances, Published
<1>13. Locked(J)
  BY <1>2, <1>4, <1>9, <1>10, <1>11 DEF JobOK, Locked
<1>14. Tracked(J)
  <2>1. \A x \in D : x[1][1] \in M \cup job[w].dels
    BY <1>2, <1>4, <1>5, <1>11 DEF JobOK, Tracked
  <2>2. \A x \in job[w].insRRs : x[1][1] \in job[w].adds \cup M
    BY <1>2, <1>5 DEF JobOK, Tracked
  <2> QED BY <1>2, <1>5, <1>9, <1>10, <2>1, <2>2 DEF JobOK, Tracked, Published
<1>15. OnRows(J)
  BY <1>2, <1>7, <1>9 DEF OnRows, Published
<1>16. \A v \in Worker \ {w} : Apart(J, job[v]) /\ Apart(job[v], J)
  BY <1>6, <1>9 DEF IInv, Jobs, Apart
<1>17. J.stage # "commit" /\ job[w].stage # "commit" /\ served' \in 0 .. MaxRequests
  BY <1>1, <1>9 DEF IInv, Types
<1> QED BY <1>1, <1>8, <1>12, <1>13, <1>14, <1>15, <1>16, <1>17, Moves DEF JobOK

LEMMA RemoveStep ==
  ASSUME IInv, NEW w \in Worker, Remove(w)
  PROVE  IInv'
<1> DEFINE j == job[w]
           i == j.cur
           r == Held(j)
           found == {r} \cap MyRows(w)
           D == j.delRRs \cup (j.picked \cap rrs)
           L == IF found = {} THEN j.lost \cup {i} ELSE j.lost
           J == [j EXCEPT !.stage = "next", !.delRRs = D, !.delRows = @ \cup found,
                          !.locked = @ \cup found, !.lost = L,
                          !.mods = @ \ {i}, !.dels = @ \cup {i}]
<1>1. CurRow(w) = r
  BY Views
<1>2. /\ j.stage = "remove" /\ Free(w) /\ job' = [job EXCEPT ![w] = J]
      /\ UNCHANGED <<dbVars, dns, served, torn, stale>>
  BY <1>1 DEF Remove
<1>3. j \in JobType /\ JobOK(j) /\ OnRows(j)
  BY JobFacts
<1>4. /\ i \in Item /\ i \notin j.todo /\ i \notin j.adds \cup j.dels \cup j.lost
      /\ \A s \in j.locked \cup j.insRows \cup j.delRows : s[1] # i
  BY <1>2, Unwritten DEF Statements
<1>5. r \in Row /\ r[1] = i /\ \A x \in j.picked : x[1] = r
  BY <1>2, <1>3, HeldFacts DEF Instances, JobOK, Ordered
<1>6. (found = {r} /\ r \in rows) \/ (found = {} /\ r \notin rows)
  BY <1>2, <1>5, Unwritten DEF Statements
<1>7. \A v \in Worker \ {w} : r \notin job[v].locked /\ j.picked \cap job[v].delRRs = {}
  BY <1>1, <1>2 DEF Free, Waits
<1>8. /\ D \subseteq rrs /\ D \subseteq RRow
      /\ \A x \in D : x \in j.delRRs \/ (x[1] = r /\ r \in found)
  BY <1>3, <1>5, <1>6 DEF OnRows, IInv, Keys, JobType
<1>9. \A v \in Worker \ {w} : D \cap job[v].delRRs = {}
  BY <1>7 DEF IInv, Jobs, Apart
<1>10. found \subseteq Row /\ L \subseteq Item /\ j.lost \subseteq L /\ (i \in L <=> found = {})
       /\ L \subseteq j.lost \cup {i}
  BY <1>3, <1>4, <1>5 DEF JobType
<1> HIDE DEF D, L, found
<1>11. J \in JobType
  BY <1>3, <1>4, <1>8, <1>10 DEF JobType, Stage
<1>12. /\ J.stage = "next" /\ J.cur = i /\ J.todo = j.todo /\ J.inst = j.inst /\ J.data = j.data
       /\ J.locked = j.locked \cup found /\ J.insRows = j.insRows
       /\ J.delRows = j.delRows \cup found /\ J.insRRs = j.insRRs /\ J.delRRs = D
       /\ J.adds = j.adds /\ J.mods = j.mods \ {i} /\ J.dels = j.dels \cup {i} /\ J.lost = L
  BY <1>3 DEF JobType
<1> HIDE DEF J
<1>13. Ahead(J) = j.todo /\ j.todo \subseteq Ahead(j) /\ ~Between(J) /\ ~Between(j)
  BY <1>2, <1>12 DEF Ahead, Statements, Between
<1> HIDE DEF j, r, i
<1>14. Ordered(J)
  BY <1>3, <1>4, <1>5, <1>6, <1>10, <1>12, <1>13
     DEF JobOK, Ordered, Statements, Instances, Published
<1>15. Locked(J)
  <2>1. /\ j.insRows \subseteq J.locked /\ J.delRows \subseteq J.locked
        /\ J.insRows \cap J.delRows = {}
    BY <1>3, <1>4, <1>5, <1>6, <1>12 DEF JobOK, Locked
  <2>2. \A s, t \in J.locked : s[1] = t[1] => s = t
    BY <1>3, <1>4, <1>5, <1>6, <1>12 DEF JobOK, Locked
  <2>3. \A s \in J.locked : s[1] \notin J.lost
    BY <1>3, <1>4, <1>5, <1>6, <1>10, <1>12 DEF JobOK, Locked
  <2>4. \A x \in J.insRRs : x[1] \in J.locked \ J.delRows
    BY <1>3, <1>4, <1>5, <1>6, <1>12 DEF JobOK, Locked
  <2>5. \A x \in J.delRRs : x[1] \in J.locked
    BY <1>3, <1>8, <1>12, <1>13 DEF JobOK, Locked
  <2> QED BY <1>12, <2>1, <2>2, <2>3, <2>4, <2>5 DEF Locked
<1>16. Tracked(J)
  <2>1. \A s \in J.delRows : s[1] \in J.dels
    BY <1>3, <1>5, <1>6, <1>12 DEF JobOK, Tracked
  <2>2. \A x \in J.delRRs : x[1][1] \in J.mods \cup J.dels
    BY <1>3, <1>5, <1>8, <1>12 DEF JobOK, Tracked
  <2>3. \A x \in J.insRRs : x[1][1] \in J.adds \cup J.mods
    BY <1>3, <1>4, <1>12 DEF JobOK, Tracked, Locked
  <2>4. \A k \in J.adds \cup J.mods \cup J.dels : k \in J.lost \/ \E s \in J.locked : s[1] = k
    BY <1>3, <1>5, <1>6, <1>10, <1>12, <1>13 DEF JobOK, Tracked
  <2>5. \A k \in J.dels \ J.lost : \E s \in J.delRows : s[1] = k
    BY <1>3, <1>5, <1>6, <1>10, <1>12 DEF JobOK, Tracked
  <2> QED BY <1>3, <1>12, <2>1, <2>2, <2>3, <2>4, <2>5 DEF JobOK, Tracked, Published
<1>17. OnRows(J)
  BY <1>3, <1>6, <1>8, <1>12 DEF OnRows, Published
<1>18. \A v \in Worker \ {w} : Apart(J, job[v]) /\ Apart(job[v], J)
  <2> SUFFICES ASSUME NEW v \in Worker \ {w} PROVE Apart(J, job[v]) /\ Apart(job[v], J)
    OBVIOUS
  <2>1. Apart(j, job[v]) /\ OnRows(job[v])
    BY DEF IInv, Jobs, j
  <2>2. \A s \in job[v].insRows : found # {} => s[1] # r[1]
    BY <1>6, <2>1 DEF OnRows
  <2> QED BY <1>6, <1>7, <1>9, <1>12, <2>1, <2>2 DEF Apart
<1>19. J.stage # "commit" /\ job[w].stage # "commit" /\ served' \in 0 .. MaxRequests
  BY <1>2, <1>12 DEF IInv, Types, j
<1> QED BY <1>2, <1>11, <1>14, <1>15, <1>16, <1>17, <1>18, <1>19, Moves DEF JobOK, j

\* An INSERT of a row of an item: nobody has one, and nobody is about to.
LEMMA InsertFree ==
  ASSUME IInv, NEW w \in Worker, job[w].stage \in Statements, ~Forbids(w, job[w].cur),
         NEW row, row[1] = job[w].cur,
         NEW v \in Worker \ {w}, ~InsertWaits(job[w].cur, v)
  PROVE  /\ row \notin rows /\ row \notin job[v].locked /\ \A s \in rows : s[1] # row[1]
         /\ \A s \in job[v].insRows \cup job[v].delRows : s[1] # row[1]
<1>1. \A s \in rows : s[1] # row[1]
  BY Unwritten DEF Forbids
<1>2. \A s \in job[v].insRows \cup job[v].delRows : s[1] # row[1]
  BY DEF InsertWaits
<1>3. OnRows(job[v])
  BY DEF IInv, Jobs
<1> QED BY <1>1, <1>2, <1>3 DEF OnRows

\* A statement inserts a row, or changes one that is stored, under its lock, and
\* RRs of it; the item is recorded.
Writes(j, k, row) ==
  /\ k.stage = "next" /\ k.todo = j.todo /\ k.data = j.data /\ k.inst = j.inst
  /\ k.delRows = j.delRows /\ k.delRRs = j.delRRs /\ k.dels = j.dels /\ k.lost = j.lost
  /\ k.locked = j.locked \cup {row}
  /\ k.insRows = j.insRows \cup (IF row \in rows THEN {} ELSE {row})
  /\ j.insRRs \subseteq k.insRRs /\ \A x \in k.insRRs : x \in j.insRRs \/ x[1] = row
  /\ j.adds \subseteq k.adds /\ k.adds \subseteq j.adds \cup {row[1]}
  /\ j.mods \subseteq k.mods /\ k.mods \subseteq j.mods \cup {row[1]}
  /\ row \notin rows => row[1] \in k.adds
  /\ j.insRRs # k.insRRs => row[1] \in k.adds \cup k.mods

LEMMA WriteStep ==
  ASSUME IInv, NEW w \in Worker, job[w].stage \in {"create", "save"},
         NEW row \in Row, row[1] = job[w].cur, job[w].stage = "save" => row = Held(job[w]),
         NEW J \in JobType, job' = [job EXCEPT ![w] = J],
         UNCHANGED <<dbVars, dns, served, torn, stale>>,
         Writes(job[w], J, row),
         row \notin rows => ~Forbids(w, row[1]),
         \A v \in Worker \ {w} : row \notin rows => ~InsertWaits(row[1], v),
         \A v \in Worker \ {w} : row \in rows => row \notin job[v].locked
  PROVE  IInv'
<1> USE DEF Writes
<1> DEFINE j == job[w]
           i == row[1]
<1>1. j \in JobType /\ JobOK(j) /\ OnRows(j)
  BY JobFacts
<1>2. /\ i \in Item /\ i \notin j.todo /\ i \notin j.adds \cup j.dels \cup j.lost
      /\ \A s \in j.locked \cup j.insRows \cup j.delRows : s[1] # i
  BY Unwritten DEF Statements
<1>3. \A v \in Worker \ {w} : row \notin job[v].locked
  BY InsertFree DEF Statements
<1>4. row \notin rows => \A s \in rows : s[1] # i
  BY Unwritten DEF Forbids, Statements
<1>5. Ahead(J) = j.todo /\ j.todo \subseteq Ahead(j) /\ ~Between(J)
  BY DEF Ahead, Statements, Between
<1>6. Ordered(J)
  <2>1. \A k \in J.todo : k \notin J.adds \cup J.dels \cup J.lost /\ \A r \in J.locked : r[1] # k
    BY <1>1, <1>2, <1>5 DEF JobOK, Ordered
  <2>2. \A k \in J.todo : k \notin J.mods
    BY <1>1, <1>2, <1>5 DEF JobOK, Ordered
  <2> QED BY <1>1, <1>5, <2>1, <2>2 DEF JobOK, Ordered, Statements, Instances, Published
<1>7. Locked(J)
  <2>1. J.insRows \cup J.delRows \subseteq J.locked /\ J.insRows \cap J.delRows = {}
    BY <1>1, <1>2 DEF JobOK, Locked
  <2>2. \A s, t \in J.locked : s[1] = t[1] => s = t
    BY <1>1, <1>2 DEF JobOK, Locked
  <2>3. \A s \in J.locked : s[1] \notin J.lost
    BY <1>1, <1>2 DEF JobOK, Locked
  <2>4. \A x \in J.insRRs : x[1] \in J.locked \ J.delRows
    BY <1>1, <1>2 DEF JobOK, Locked
  <2>5. \A x \in J.delRRs : x[1] \in J.locked
    BY <1>1 DEF JobOK, Locked, Between
  <2> QED BY <2>1, <2>2, <2>3, <2>4, <2>5 DEF Locked
<1>8. Tracked(J)
  <2>1. \A s \in J.insRows : s[1] \in J.adds
    BY <1>1 DEF JobOK, Tracked
  <2>2. \A x \in J.delRRs : x[1][1] \in J.mods \cup J.dels
    BY <1>1 DEF JobOK, Tracked
  <2>3. \A x \in J.insRRs : x[1][1] \in J.adds \cup J.mods
    <3>1. \A x \in j.insRRs : x[1][1] \in J.adds \cup J.mods
      BY <1>1 DEF JobOK, Tracked
    <3> QED BY <3>1
  <2>4. \A k \in J.adds \cup J.mods \cup J.dels : k \in J.lost \/ \E s \in J.locked : s[1] = k
    <3> SUFFICES ASSUME NEW k \in J.adds \cup J.mods \cup J.dels, k # i
                 PROVE  k \in J.lost \/ \E s \in J.locked : s[1] = k
      OBVIOUS
    <3>1. k \in j.adds \cup j.mods \cup j.dels
      OBVIOUS
    <3> QED BY <1>1, <3>1 DEF JobOK, Tracked
  <2> QED BY <1>1, <2>1, <2>2, <2>3, <2>4 DEF JobOK, Tracked, Published
<1>9. OnRows(J)
  BY <1>1, <1>4 DEF OnRows, Published
<1>10. \A v \in Worker \ {w} : Apart(J, job[v]) /\ Apart(job[v], J)
  <2> SUFFICES ASSUME NEW v \in Worker \ {w} PROVE Apart(J, job[v]) /\ Apart(job[v], J)
    OBVIOUS
  <2>1. Apart(j, job[v]) /\ row \notin job[v].locked
    BY <1>3 DEF IInv, Jobs
  <2>2. row \notin rows => \A s \in job[v].insRows \cup job[v].delRows : s[1] # i
    BY InsertFree DEF Statements
  <2> QED BY <2>1, <2>2 DEF Apart
<1>11. J.stage # "commit" /\ job[w].stage # "commit" /\ served' \in 0 .. MaxRequests
  BY DEF IInv, Types
<1> QED BY <1>6, <1>7, <1>8, <1>9, <1>10, <1>11, Moves DEF JobOK

LEMMA CreateStep ==
  ASSUME IInv, NEW w \in Worker, Create(w)
  PROVE  IInv'
<1> DEFINE j == job[w]
           i == j.cur
           row == <<i, j.num>>
           X == {<<row, c, j.num>> : c \in New(w)}
           J == [j EXCEPT !.stage = "next", !.insRows = @ \cup {row}, !.locked = @ \cup {row},
                          !.insRRs = @ \cup X, !.adds = @ \cup {i}, !.mods = @ \cup {i}]
<1>1. /\ j.stage = "create" /\ Free(w) /\ New(w) # Keep /\ ~Forbids(w, i)
      /\ job' = [job EXCEPT ![w] = J]
      /\ UNCHANGED <<dbVars, dns, served, torn, stale>>
  BY DEF Create
<1>2. j \in JobType /\ JobOK(j) /\ i \in Item /\ j.num \in 0 .. MaxRequests
  BY JobFacts DEF JobType
<1>3. i \in DOMAIN j.data /\ New(w) = j.data[i]
  BY <1>1, <1>2 DEF JobOK, Ordered, Statements, New
<1>4. New(w) \subseteq Record
  BY <1>1, <1>2, <1>3, PayloadValue
<1>5. row \in Row /\ row[1] = i
  BY <1>2 DEF Row
<1>6. X \subseteq RRow /\ \A x \in X : x[1] = row
  BY <1>2, <1>4, <1>5 DEF RRow
<1>7. row \notin rows
  BY <1>1, <1>5, Unwritten DEF Forbids, Statements
<1>8. \A v \in Worker \ {w} : ~InsertWaits(i, v)
  BY <1>1 DEF Free, Waits
<1> HIDE DEF X, row
<1>9. J \in JobType
  BY <1>2, <1>5, <1>6 DEF JobType, Stage
<1>10. /\ J.stage = "next" /\ J.todo = j.todo /\ J.data = j.data /\ J.inst = j.inst
       /\ J.delRows = j.delRows /\ J.delRRs = j.delRRs /\ J.dels = j.dels /\ J.lost = j.lost
       /\ J.locked = j.locked \cup {row} /\ J.insRows = j.insRows \cup {row}
       /\ J.insRRs = j.insRRs \cup X /\ J.adds = j.adds \cup {i} /\ J.mods = j.mods \cup {i}
  BY <1>2 DEF JobType
<1> HIDE DEF J
<1>11. Writes(j, J, row)
  <2>1. J.insRows = j.insRows \cup (IF row \in rows THEN {} ELSE {row})
    BY <1>7, <1>10
  <2>2. \A x \in J.insRRs : x \in j.insRRs \/ x[1] = row
    BY <1>6, <1>10
  <2> QED BY <1>5, <1>10, <2>1, <2>2 DEF Writes
<1> QED BY <1>1, <1>5, <1>7, <1>8, <1>9, <1>11, WriteStep

\* RRset.save() with something to write, and the silent UPDATE of touched.
LEMMA SaveStep ==
  ASSUME IInv, NEW w \in Worker, Save(w)
  PROVE  IInv'
<1> DEFINE j == job[w]
           i == j.cur
           row == CurRow(w)
           found == row \in MyRows(w)
           X == {<<row, c, j.num>> : c \in j.fresh}
<1>1. /\ j.stage = "save" /\ Free(w) /\ UNCHANGED <<dbVars, dns, served, torn, stale>>
  BY Zenon DEF Save
<1>2. j \in JobType /\ JobOK(j) /\ OnRows(j) /\ i \in Item /\ j.num \in 0 .. MaxRequests
      /\ j.fresh \subseteq Record
  BY JobFacts DEF JobType
<1>3. row \in Row /\ row[1] = i /\ row = Held(j)
  BY <1>1, HeldFacts DEF Instances
<1>4. found <=> row \in rows
  BY <1>1, <1>3, Unwritten DEF Statements
<1>5. X \subseteq RRow /\ \A x \in X : x[1] = row
  BY <1>2, <1>3 DEF RRow
<1>6. \A v \in Worker \ {w} : (~found => ~InsertWaits(i, v)) /\ row \notin job[v].locked
  BY <1>1, <1>3, <1>4 DEF Free, Waits
<1>7. CASE \E changesTTL \in BOOLEAN :
             /\ X # {} \/ changesTTL
             /\ found \/ (~Forbids(w, i) /\ i \notin j.mods)
             /\ job' = [job EXCEPT ![w] = [j EXCEPT !.stage = "next",
                          !.insRRs = @ \cup X, !.locked = @ \cup {row},
                          !.insRows = IF found THEN @ ELSE @ \cup {row},
                          !.adds = IF found THEN @ ELSE @ \cup {i},
                          !.mods = IF found \/ (X # {} /\ changesTTL)
                                        THEN @ \cup {i} ELSE @]]
  <2>1. PICK ttl \in BOOLEAN :
             /\ X # {} \/ ttl
             /\ found \/ (~Forbids(w, i) /\ i \notin j.mods)
             /\ job' = [job EXCEPT ![w] = [j EXCEPT !.stage = "next",
                          !.insRRs = @ \cup X, !.locked = @ \cup {row},
                          !.insRows = IF found THEN @ ELSE @ \cup {row},
                          !.adds = IF found THEN @ ELSE @ \cup {i},
                          !.mods = IF found \/ (X # {} /\ ttl)
                                        THEN @ \cup {i} ELSE @]]
    BY <1>7, Zenon
  <2> DEFINE R == IF found THEN j.insRows ELSE j.insRows \cup {row}
             A == IF found THEN j.adds ELSE j.adds \cup {i}
             M == IF found \/ (X # {} /\ ttl) THEN j.mods \cup {i} ELSE j.mods
             J == [j EXCEPT !.stage = "next", !.insRRs = @ \cup X, !.locked = @ \cup {row},
                            !.insRows = R, !.adds = A, !.mods = M]
  <2>2. job' = [job EXCEPT ![w] = J]
    BY <2>1
  <2>3. /\ R = j.insRows \cup (IF row \in rows THEN {} ELSE {row})
        /\ A \subseteq j.adds \cup {i} /\ j.adds \subseteq A /\ (row \notin rows => i \in A)
        /\ M \subseteq j.mods \cup {i} /\ j.mods \subseteq M /\ (row \in rows => i \in M)
    BY <1>4
  <2>4. R \subseteq Row /\ A \subseteq Item /\ M \subseteq Item
    BY <1>2, <1>3 DEF JobType
  <2> HIDE DEF R, A, M, X, row, found
  <2>5. J \in JobType
    BY <1>2, <1>3, <1>5, <2>4 DEF JobType, Stage
  <2>6. /\ J.stage = "next" /\ J.todo = j.todo /\ J.data = j.data /\ J.inst = j.inst
        /\ J.delRows = j.delRows /\ J.delRRs = j.delRRs /\ J.dels = j.dels /\ J.lost = j.lost
        /\ J.locked = j.locked \cup {row} /\ J.insRows = R
        /\ J.insRRs = j.insRRs \cup X /\ J.adds = A /\ J.mods = M
    BY <1>2 DEF JobType
  <2> HIDE DEF J
  <2>7. row = Held(j) /\ (found <=> row \in rows)
    BY <1>3, <1>4 DEF row, found
  <2>8. \A x \in J.insRRs : x \in j.insRRs \/ x[1] = row
    BY <1>5, <2>6
  <2>9. row \notin rows => ~Forbids(w, i)
    BY <2>1, <2>7
  <2>10. Writes(j, J, row)
    BY <1>3, <2>3, <2>6, <2>7, <2>8 DEF Writes
  <2>11. /\ row \notin rows => ~Forbids(w, row[1])
         /\ \A v \in Worker \ {w} : row \notin rows => ~InsertWaits(row[1], v)
         /\ \A v \in Worker \ {w} : row \in rows => row \notin job[v].locked
    BY <1>3, <1>6, <2>7, <2>9
  <2> QED BY <1>1, <1>3, <2>2, <2>5, <2>7, <2>10, <2>11, WriteStep
<1>8. CASE job' = [job EXCEPT ![w] = [j EXCEPT !.stage = "next",
                     !.locked = IF found THEN @ \cup {row} ELSE @,
                     !.lost = IF found THEN @ ELSE @ \cup {i}]]
  <2>1. CASE found
    <3> DEFINE J == [j EXCEPT !.stage = "next", !.locked = @ \cup {row}]
    <3>1. job' = [job EXCEPT ![w] = J]
      BY <1>8, <2>1
    <3>2. row \in rows
      BY <1>4, <2>1
    <3>3. \A v \in Worker \ {w} : row \notin job[v].locked
      BY <1>6
    <3> HIDE DEF X, row, found
    <3>4. J \in JobType
      BY <1>2, <1>3 DEF JobType, Stage
    <3>5. /\ J.stage = "next" /\ J.todo = j.todo /\ J.data = j.data /\ J.inst = j.inst
          /\ J.delRows = j.delRows /\ J.delRRs = j.delRRs /\ J.dels = j.dels /\ J.lost = j.lost
          /\ J.locked = j.locked \cup {row} /\ J.insRows = j.insRows
          /\ J.insRRs = j.insRRs /\ J.adds = j.adds /\ J.mods = j.mods
      BY <1>2 DEF JobType
    <3> HIDE DEF J
    <3>6. Writes(j, J, row)
      BY <3>2, <3>5 DEF Writes
    <3> QED BY <1>1, <1>3, <3>1, <3>2, <3>3, <3>4, <3>6, WriteStep
  <2>2. CASE ~found
    <3> DEFINE J == [j EXCEPT !.stage = "next", !.lost = @ \cup {i}]
    <3>1. job' = [job EXCEPT ![w] = J]
      BY <1>8, <2>2
    <3>2. /\ i \notin j.todo /\ \A s \in j.locked \cup j.insRows \cup j.delRows : s[1] # i
      BY <1>1, Unwritten DEF Statements
    <3>3. \A x \in j.delRRs : x[1] # row
      BY <1>2, <1>4, <2>2 DEF OnRows, IInv, Keys
    <3> HIDE DEF X, row, found
    <3>4. J \in JobType
      BY <1>2, <1>3 DEF JobType, Stage
    <3>5. /\ J.stage = "next" /\ J.todo = j.todo /\ J.data = j.data /\ J.inst = j.inst
          /\ J.delRows = j.delRows /\ J.delRRs = j.delRRs /\ J.dels = j.dels
          /\ J.lost = j.lost \cup {i} /\ J.locked = j.locked /\ J.insRows = j.insRows
          /\ J.insRRs = j.insRRs /\ J.adds = j.adds /\ J.mods = j.mods
      BY <1>2 DEF JobType
    <3> HIDE DEF J
    <3>6. Ahead(J) = j.todo /\ j.todo \subseteq Ahead(j) /\ ~Between(J)
      BY <3>5 DEF Ahead, Statements, Between
    <3>7. Ordered(J)
      BY <1>2, <3>2, <3>5, <3>6 DEF JobOK, Ordered, Statements, Instances, Published
    <3>8. Locked(J)
      BY <1>2, <1>3, <3>2, <3>3, <3>5, <3>6 DEF JobOK, Locked
    <3>9. Tracked(J)
      BY <1>2, <3>5, <3>6 DEF JobOK, Tracked, Published
    <3> QED BY <1>1, <3>1, <3>4, <3>5, <3>7, <3>8, <3>9, QuietStep DEF JobOK, Published
  <2> QED BY <2>1, <2>2
<1> QED BY <1>7, <1>8, Zenon DEF Save

-----------------------------------------------------------------------------
(* Steps that end a request without COMMIT                                  *)

\* Only statements of an open transaction wait.
LEMMA VictimWaits == \A w \in Worker : DeadlockVictim(w) => job[w].stage # "idle"
BY DEF DeadlockVictim, Free, Waits

LEMMA FailureSteps ==
  ASSUME IInv, NEW w \in Worker,
         BodyRaises(w) \/ ComputeFails(w) \/ SendRefused(w) \/ DeadlockVictim(w)
  PROVE  IInv'
<1>1. Abort(w) /\ UNCHANGED <<torn, stale>>
  BY DEF BodyRaises, ComputeFails, SendRefused, DeadlockVictim
<1>2. DeadlockVictim(w) => job[w].stage # "commit"
  BY DEF DeadlockVictim, Deadlocked, Waits
<1>3. job[w].stage # "commit"
  BY <1>2 DEF BodyRaises, ComputeFails, SendRefused
<1> QED BY <1>1, <1>3, AbortStep

\* What was published and not committed is torn.
LEMMA CommitFailsStep ==
  ASSUME IInv, NEW w \in Worker, CommitFails(w)
  PROVE  IInv'
<1>1. /\ job[w].stage = "commit" /\ torn' = torn \cup DOMAIN job[w].sent
      /\ job' = [job EXCEPT ![w] = Idle] /\ UNCHANGED <<rows, rrs, dns, served, stale>>
  BY DEF CommitFails, Abort, dbVars
<1>2. /\ job' \in [Worker -> JobType] /\ job'[w] = Idle
      /\ \A v \in Worker \ {w} : job'[v] = job[v]
  BY <1>1, IdleOK DEF IInv, Types
<1>3. DOMAIN job[w].sent \subseteq Item
  BY JobFacts DEF JobType, Sent
<1>4. Types' /\ Keys'
  BY <1>1, <1>2, <1>3 DEF IInv, Types, Keys
<1>5. Jobs'
  <2>1. ASSUME NEW v \in Worker PROVE JobOK(job[v])'
    <3>1. JobOK(job'[v])
      BY <1>2, IdleOK DEF IInv, Jobs
    <3> QED BY <3>1 DEF JobOK, Ordered, Locked, Tracked, Ahead, Between, Held
  <2>2. ASSUME NEW v \in Worker PROVE OnRows(job[v])'
    <3>1. OnRows(job'[v])
      BY <1>2, IdleOK DEF IInv, Jobs
    <3> QED BY <1>1, <3>1 DEF OnRows, View
  <2>3. ASSUME NEW v \in Worker, NEW u \in Worker, v # u PROVE Apart(job[v], job[u])'
    <3>1. Apart(job'[v], job'[u])
      BY <1>2, <2>3, IdleOK DEF IInv, Jobs
    <3> QED BY <3>1 DEF Apart
  <2> QED BY <2>1, <2>2, <2>3 DEF Jobs
<1>6. /\ \A v \in Worker \ {w}, i \in Item : Publishes(v, i)' <=> Publishes(v, i)
      /\ \A i \in Item : ~Publishes(w, i)' /\ (i \notin torn' => ~Publishes(w, i))
  BY <1>1, <1>2 DEF Publishes, Idle
<1>7. \A i : Stored(i)' = Stored(i)
  BY <1>1 DEF Stored
<1>8. DnsInv'
  <2>1. \A v \in Worker, i \in Item : (Publishes(v, i) /\ i \in job[v].lost => i \in stale)'
    BY <1>1, <1>2, <1>6 DEF IInv, DnsInv
  <2>2. ASSUME NEW i \in Item \ (torn' \cup stale')
        PROVE  /\ (\A v \in Worker : ~Publishes(v, i)') => dns'[i] = Stored(i)'
               /\ \A v \in Worker : Publishes(v, i)' => dns'[i] = job'[v].sent[i]
    <3>1. i \in Item \ (torn \cup stale) /\ ~Publishes(w, i) /\ ~Publishes(w, i)'
      BY <1>1, <1>6
    <3>2. \A v \in Worker : (Publishes(v, i)' <=> Publishes(v, i))
      BY <1>6, <3>1
    <3> QED BY <1>1, <1>2, <1>7, <3>1, <3>2 DEF IInv, DnsInv
  <2> QED BY <2>1, <2>2 DEF DnsInv
<1> QED BY <1>4, <1>5, <1>8 DEF IInv

-----------------------------------------------------------------------------
(* What is sent                                                             *)

\* The items of rows deleted are empty, and Mine is what the transaction sees.
LEMMA ComputeStep ==
  ASSUME IInv, NEW w \in Worker, Compute(w)
  PROVE  IInv'
<1> DEFINE j == job[w]
           S == [i \in ToSend(w) \cup j.dels |-> IF i \in j.dels THEN {} ELSE Mine(w, i)]
           J == [j EXCEPT !.stage = "send", !.sent = S]
<1>1. /\ j.stage = "next" /\ j.todo = {} /\ job' = [job EXCEPT ![w] = J]
      /\ UNCHANGED <<dbVars, dns, served, torn, stale>>
  BY DEF Compute
<1>2. j \in JobType /\ JobOK(j) /\ OnRows(j) /\ MyRRs(w) \subseteq RRow
  BY JobFacts
<1>3. /\ DOMAIN S = ToSend(w) \cup j.dels
      /\ \A i \in DOMAIN S : S[i] = IF i \in j.dels THEN {} ELSE Mine(w, i)
  OBVIOUS
<1>4. ToSend(w) \cup j.dels \subseteq Item
  BY <1>2 DEF ToSend, JobType
<1>5. \A i : Mine(w, i) \subseteq Record
  BY <1>2 DEF Mine, Contents, RRow
<1>6. S \in Sent
  <2>1. S \in [ToSend(w) \cup j.dels -> SUBSET Record]
    BY <1>5
  <2> QED BY <1>4, <2>1 DEF Sent
<1> HIDE DEF S
<1>7. J \in JobType
  BY <1>2, <1>6 DEF JobType, Stage
<1>8. /\ J.stage = "send" /\ J.cur = j.cur /\ J.todo = {} /\ J.inst = j.inst /\ J.data = j.data
      /\ J.locked = j.locked /\ J.insRows = j.insRows /\ J.delRows = j.delRows
      /\ J.insRRs = j.insRRs /\ J.delRRs = j.delRRs /\ J.adds = j.adds
      /\ J.mods = j.mods /\ J.dels = j.dels /\ J.lost = j.lost /\ J.sent = S
  BY <1>1, <1>2 DEF JobType
<1> HIDE DEF J
<1>9. Ahead(J) = {} /\ ~Between(J) /\ ~Between(j)
  BY <1>1, <1>8 DEF Ahead, Statements, Between
<1>10. Ordered(J) /\ Locked(J)
  BY <1>2, <1>8, <1>9 DEF JobOK, Ordered, Locked, Statements, Instances, Published
<1>11. Tracked(J)
  <2>1. j.mods \cup j.dels \subseteq DOMAIN S /\ DOMAIN S \subseteq j.adds \cup j.mods \cup j.dels
    BY <1>3 DEF ToSend
  <2> QED BY <1>2, <1>8, <1>9, <2>1 DEF JobOK, Tracked
<1>12. \A i : View(J, i) = Mine(w, i)
  BY <1>8, Views DEF View
<1>13. \A i \in j.dels \ j.lost : Mine(w, i) = {}
  <2> SUFFICES ASSUME NEW i \in j.dels \ j.lost, NEW c \in Mine(w, i) PROVE FALSE
    OBVIOUS
  <2>1. PICK r \in j.delRows : r[1] = i
    BY <1>2 DEF JobOK, Tracked
  <2>2. PICK x \in MyRRs(w) : x[1] \in MyRows(w) /\ x[1][1] = i
    BY DEF Mine, Contents, RowsFor
  <2>3. CASE x[1] \in j.insRows
    BY <1>2, <2>1, <2>2, <2>3 DEF JobOK, Locked
  <2>4. CASE x[1] \in rows \ j.delRows
    BY <1>2, <2>1, <2>2, <2>4 DEF OnRows, IInv, Keys
  <2> QED BY <2>2, <2>3, <2>4 DEF MyRows
<1>14. ASSUME NEW i \in Item \ j.lost
       PROVE  IF i \in DOMAIN S THEN S[i] = Mine(w, i) ELSE i \in j.adds => Mine(w, i) = {}
  <2>1. CASE i \in DOMAIN S
    BY <1>3, <1>13, <2>1
  <2>2. CASE i \notin DOMAIN S
    BY <1>3, <2>2 DEF ToSend
  <2> QED BY <2>1, <2>2
<1>15. OnRows(J)
  BY <1>2, <1>8, <1>12, <1>14 DEF OnRows
<1>16. \A v \in Worker \ {w} : Apart(J, job[v]) /\ Apart(job[v], J)
  BY <1>8 DEF IInv, Jobs, Apart
<1>17. J.stage # "commit" /\ job[w].stage # "commit" /\ served' \in 0 .. MaxRequests
  BY <1>1, <1>8 DEF IInv, Types
<1> QED BY <1>1, <1>7, <1>10, <1>11, <1>15, <1>16, <1>17, Moves DEF JobOK

\* What a request has written and not lost is locked by it.
LEMMA SentLocked ==
  ASSUME NEW j, JobOK(j), j.stage \in Published,
         NEW i \in (DOMAIN j.sent \cup j.adds) \ j.lost
  PROVE  \E r \in j.locked : r[1] = i
<1>1. i \in j.adds \cup j.mods \cup j.dels /\ ~Between(j)
  BY DEF JobOK, Tracked, Published, Between
<1> QED BY <1>1 DEF JobOK, Tracked

LEMMA Publisher ==
  ASSUME IInv, NEW v \in Worker, NEW w \in Worker, v # w,
         job[v].stage \in Published, job[w].stage \in Published,
         NEW i \in DOMAIN job[v].sent \cap DOMAIN job[w].sent
  PROVE  i \in job[v].lost \cup job[w].lost
<1> SUFFICES ASSUME i \notin job[v].lost, i \notin job[w].lost PROVE FALSE
  OBVIOUS
<1>1. /\ JobOK(job[v]) /\ JobOK(job[w]) /\ OnRows(job[v]) /\ OnRows(job[w])
      /\ Apart(job[v], job[w]) /\ Keys
  BY DEF IInv, Jobs
<1>2. PICK r \in job[v].locked : r[1] = i
  BY <1>1, SentLocked
<1>3. PICK s \in job[w].locked : s[1] = i
  BY <1>1, SentLocked
<1>4. Locked(job[v]) /\ Locked(job[w])
  BY <1>1 DEF JobOK
<1>5. r[1] # s[1]
  BY <1>1, <1>4, ItemsApart
<1> QED BY <1>2, <1>3, <1>5

LEMMA SendStep ==
  ASSUME IInv, NEW w \in Worker, Send(w)
  PROVE  IInv'
<1> DEFINE j == job[w]
           J == [j EXCEPT !.stage = "commit"]
<1>1. /\ j.stage = "send" /\ job' = [job EXCEPT ![w] = J] /\ dns' = After(w)
      /\ stale' = stale \cup (j.lost \cap DOMAIN j.sent)
      /\ UNCHANGED <<rows, rrs, served, torn>>
  BY DEF Send, dbVars
<1>2. j \in JobType /\ JobOK(j) /\ OnRows(j)
  BY JobFacts
<1>3. J \in JobType
  BY <1>2 DEF JobType, Stage
<1>4. /\ J.stage = "commit" /\ J.cur = j.cur /\ J.todo = j.todo /\ J.inst = j.inst
      /\ J.data = j.data
      /\ J.locked = j.locked /\ J.insRows = j.insRows /\ J.delRows = j.delRows
      /\ J.insRRs = j.insRRs /\ J.delRRs = j.delRRs /\ J.adds = j.adds
      /\ J.mods = j.mods /\ J.dels = j.dels /\ J.lost = j.lost /\ J.sent = j.sent
  BY <1>2 DEF JobType
<1> HIDE DEF J
<1>5. /\ job' \in [Worker -> JobType] /\ job'[w] = J
      /\ \A v \in Worker \ {w} : job'[v] = job[v]
  BY <1>1, <1>3 DEF IInv, Types
<1>6. DOMAIN j.sent \subseteq Item /\ \A i \in DOMAIN j.sent : j.sent[i] \subseteq Record
  BY <1>2 DEF JobType, Sent
<1>7. /\ dns' \in [Item -> SUBSET Record]
      /\ \A i \in Item : dns'[i] = IF i \in DOMAIN j.sent THEN j.sent[i] ELSE dns[i]
  BY <1>1, <1>6 DEF After, IInv, Types
<1>8. Types' /\ Keys'
  BY <1>1, <1>5, <1>6, <1>7 DEF IInv, Types, Keys
<1>9. JobOK(J) /\ OnRows(J) /\ \A v \in Worker \ {w} : Apart(J, job[v]) /\ Apart(job[v], J)
  <2>1. Ordered(J)
    BY <1>1, <1>2, <1>4 DEF JobOK, Ordered, Ahead, Between, Statements, Instances, Published
  <2>2. Locked(J) /\ Tracked(J)
    BY <1>1, <1>2, <1>4 DEF JobOK, Locked, Tracked, Between, Published
  <2>3. OnRows(J)
    BY <1>1, <1>2, <1>4 DEF OnRows, View, Published
  <2>4. \A v \in Worker \ {w} : Apart(J, job[v]) /\ Apart(job[v], J)
    BY <1>4 DEF IInv, Jobs, Apart
  <2> QED BY <2>1, <2>2, <2>3, <2>4 DEF JobOK
<1>10. Jobs'
  <2>1. ASSUME NEW v \in Worker PROVE JobOK(job[v])'
    <3>1. JobOK(job'[v])
      BY <1>5, <1>9 DEF IInv, Jobs
    <3> QED BY <3>1 DEF JobOK, Ordered, Locked, Tracked, Ahead, Between, Held
  <2>2. ASSUME NEW v \in Worker PROVE OnRows(job[v])'
    <3>1. OnRows(job'[v])
      BY <1>5, <1>9 DEF IInv, Jobs
    <3> QED BY <1>1, <3>1 DEF OnRows, View
  <2>3. ASSUME NEW v \in Worker, NEW u \in Worker, v # u PROVE Apart(job[v], job[u])'
    <3>1. Apart(job'[v], job'[u])
      BY <1>5, <1>9, <2>3 DEF IInv, Jobs
    <3> QED BY <3>1 DEF Apart
  <2> QED BY <2>1, <2>2, <2>3 DEF Jobs
<1>11. /\ \A v \in Worker \ {w}, i \in Item : Publishes(v, i)' <=> Publishes(v, i)
       /\ \A i \in Item : ~Publishes(w, i) /\ (Publishes(w, i)' <=> i \in DOMAIN j.sent)
  BY <1>1, <1>4, <1>5 DEF Publishes
<1>12. \A i : Stored(i)' = Stored(i)
  BY <1>1 DEF Stored
<1>13. ASSUME NEW v \in Worker, NEW i \in Item, Publishes(v, i)', i \in job'[v].lost
       PROVE  i \in stale'
  <2>1. CASE v = w
    BY <1>1, <1>4, <1>5, <1>11, <1>13, <2>1
  <2>2. CASE v # w
    BY <1>1, <1>5, <1>11, <1>13, <2>2 DEF IInv, DnsInv
  <2> QED BY <2>1, <2>2
<1>14. ASSUME NEW i \in Item \ (torn' \cup stale'), \A v \in Worker : ~Publishes(v, i)'
       PROVE  dns'[i] = Stored(i)'
  <2>1. i \notin DOMAIN j.sent /\ \A v \in Worker : ~Publishes(v, i)
    BY <1>11, <1>14
  <2> QED BY <1>1, <1>7, <1>12, <2>1 DEF IInv, DnsInv
<1>15. ASSUME NEW i \in Item \ (torn' \cup stale'), NEW v \in Worker, Publishes(v, i)'
       PROVE  dns'[i] = job'[v].sent[i]
  <2>1. CASE v = w
    BY <1>4, <1>5, <1>7, <1>11, <1>15, <2>1
  <2>2. CASE v # w
    <3>1. Publishes(v, i) /\ job'[v] = job[v] /\ dns[i] = job[v].sent[i] /\ i \notin job[v].lost
      BY <1>1, <1>5, <1>11, <1>15, <2>2 DEF IInv, DnsInv
    <3>2. i \notin DOMAIN j.sent
      BY <1>1, <2>2, <3>1, Publisher DEF Publishes, Published
    <3> QED BY <1>7, <3>1, <3>2
  <2> QED BY <2>1, <2>2
<1>16. DnsInv'
  BY <1>13, <1>14, <1>15 DEF DnsInv
<1> QED BY <1>8, <1>10, <1>16 DEF IInv

-----------------------------------------------------------------------------
(* COMMIT                                                                   *)

\* COMMIT changes only items that the request holds a row lock of.
LEMMA Untouched ==
  ASSUME IInv, NEW w \in Worker, job[w].stage = "commit",
         NEW i, \A r \in job[w].locked : r[1] # i
  PROVE  /\ \A r : r[1] = i => (r \in MyRows(w) <=> r \in rows)
         /\ \A x : x[1][1] = i => (x \in MyRRs(w) <=> x \in rrs)
<1>1. Locked(job[w]) /\ ~Between(job[w])
  BY JobFacts DEF JobOK, Between
<1>2. \A r \in job[w].insRows \cup job[w].delRows : r[1] # i
  BY <1>1 DEF Locked
<1>3. \A x \in job[w].insRRs \cup job[w].delRRs : x[1][1] # i
  BY <1>1 DEF Locked
<1> QED BY <1>2, <1>3 DEF MyRows, MyRRs

\* An item that a request does not send is stored as it was when it commits.
LEMMA StoredKept ==
  ASSUME IInv, NEW w \in Worker, job[w].stage = "commit",
         NEW i \in Item \ DOMAIN job[w].sent
  PROVE  ViewOf(MyRows(w), MyRRs(w), i) = ViewOf(rows, rrs, i)
<1> DEFINE j == job[w]
<1>1. JobOK(j) /\ OnRows(j)
  BY JobFacts
<1>2. /\ \A r \in j.delRows : r[1] # i
      /\ \A x \in j.delRRs : x[1][1] # i
  BY <1>1 DEF JobOK, Tracked, Published
<1>3. CASE \A r \in j.locked : r[1] # i
  BY <1>3, Untouched, SameView
<1>4. CASE i \notin j.adds
  <2>1. \A r \in j.insRows : r[1] # i
    BY <1>1, <1>4 DEF JobOK, Tracked
  <2>2. \A x \in j.insRRs : x[1][1] # i
    BY <1>1, <1>4 DEF JobOK, Tracked, Published
  <2>3. /\ \A r : r[1] = i => (r \in MyRows(w) <=> r \in rows)
        /\ \A x : x[1][1] = i => (x \in MyRRs(w) <=> x \in rrs)
    BY <1>2, <2>1, <2>2 DEF MyRows, MyRRs
  <2> QED BY <2>3, SameView
<1>5. CASE i \in j.adds \ j.lost
  <2>1. ViewOf(MyRows(w), MyRRs(w), i) = {}
    BY <1>1, <1>5 DEF OnRows, Published, View, MyRows, MyRRs
  <2>2. ASSUME NEW c \in ViewOf(rows, rrs, i) PROVE FALSE
    <3>1. PICK x \in rrs : x[1] \in rows /\ x[1][1] = i /\ x[2] = c
      BY <2>2, ViewElement
    <3>2. x \in MyRRs(w) /\ x[1] \in MyRows(w)
      BY <1>2, <3>1 DEF MyRows, MyRRs
    <3>3. c \in ViewOf(MyRows(w), MyRRs(w), i)
      BY <3>1, <3>2, ViewElement
    <3> QED BY <2>1, <3>3
  <2> QED BY <2>1, <2>2
<1>6. CASE i \in j.lost
  BY <1>1, <1>3, <1>6 DEF JobOK, Locked
<1> QED BY <1>4, <1>5, <1>6

LEMMA CommitStep ==
  ASSUME IInv, NEW w \in Worker, Commit(w)
  PROVE  IInv'
<1> DEFINE j == job[w]
<1>1. /\ j.stage = "commit" /\ ~Dangling(w) /\ rows' = MyRows(w) /\ rrs' = MyRRs(w)
      /\ job' = [job EXCEPT ![w] = Idle] /\ UNCHANGED <<dns, served, torn, stale>>
  BY DEF Commit
<1>2. /\ j \in JobType /\ JobOK(j) /\ OnRows(j)
      /\ MyRows(w) \subseteq Row /\ MyRRs(w) \subseteq RRow
  BY JobFacts
<1>3. /\ job' \in [Worker -> JobType] /\ job'[w] = Idle
      /\ \A v \in Worker \ {w} : job'[v] = job[v]
  BY <1>1, IdleOK DEF IInv, Types
<1>4. Types'
  BY <1>1, <1>2, <1>3 DEF IInv, Types
<1>5. Locked(j) /\ ~Between(j)
  BY <1>1, <1>2 DEF JobOK, Between
<1>6. Keys'
  <2>1. ASSUME NEW r \in rows', NEW s \in rows', r[1] = s[1] PROVE r = s
    <3>1. CASE r \in rows /\ s \in rows
      BY <2>1, <3>1 DEF IInv, Keys
    <3>2. CASE r \in j.insRows /\ s \in j.insRows
      BY <1>5, <2>1, <3>2 DEF Locked
    <3>3. CASE (r \in j.insRows /\ s \in rows) \/ (s \in j.insRows /\ r \in rows)
      BY <1>2, <2>1, <3>3 DEF OnRows
    <3> QED BY <1>1, <3>1, <3>2, <3>3 DEF MyRows
  <2>2. ASSUME NEW x \in rrs' PROVE x[1] \in rows'
    <3>1. x[1] \notin j.delRows
      BY <1>1, <2>2 DEF Dangling
    <3>2. CASE x \in rrs
      BY <1>1, <3>1, <3>2 DEF IInv, Keys, MyRows
    <3>3. CASE x \in j.insRRs
      BY <1>1, <1>2, <1>5, <3>1, <3>3 DEF Locked, OnRows, MyRows
    <3> QED BY <1>1, <2>2, <3>2, <3>3 DEF MyRRs
  <2> QED BY <2>1, <2>2 DEF Keys
<1>7. ASSUME NEW v \in Worker \ {w} PROVE OnRows(job[v])'
  <2> DEFINE k == job[v]
  <2>1. k' = k /\ JobOK(k) /\ Locked(k) /\ OnRows(k) /\ Apart(k, j)
    BY <1>3 DEF IInv, Jobs, JobOK
  <2>2. k.delRows \subseteq k.locked
    BY <2>1 DEF Locked
  <2>3. /\ k.locked \subseteq rows' \cup k.insRows /\ k.delRows \subseteq rows'
        /\ k.delRRs \subseteq rrs'
    BY <1>1, <1>5, <2>1, <2>2 DEF OnRows, Apart, Locked, MyRows, MyRRs
  <2>4. \A r \in k.insRows, s \in rows' : r[1] # s[1]
    BY <1>1, <2>1 DEF OnRows, Apart, MyRows
  <2>5. ASSUME k.stage \in Published, NEW i \in (DOMAIN k.sent \cup k.adds) \ k.lost
        PROVE  View(k, i)' = View(k, i)
    <3>1. PICK r \in k.locked : r[1] = i
      BY <2>1, <2>5, SentLocked
    <3>2. \A s \in j.locked : s[1] # i
      BY <1>2, <1>5, <2>1, <3>1, ItemsApart DEF IInv
    <3>3. /\ \A s : s[1] = i => (s \in rows' <=> s \in rows)
          /\ \A x : x[1][1] = i => (x \in rrs' <=> x \in rrs)
      BY <1>1, <3>2, Untouched
    <3>4. ViewOf((rows' \ k.delRows) \cup k.insRows, (rrs' \ k.delRRs) \cup k.insRRs, i)
            = ViewOf((rows \ k.delRows) \cup k.insRows, (rrs \ k.delRRs) \cup k.insRRs, i)
      BY <3>3, SameView
    <3> QED BY <2>1, <3>4 DEF View, ViewOf, Contents, RowsFor
  <2>6. k.stage \in Published => \A i \in Item \ k.lost :
          IF i \in DOMAIN k.sent THEN k.sent[i] = View(k, i)'
          ELSE i \in k.adds => View(k, i)' = {}
    BY <2>1, <2>5 DEF OnRows
  <2> QED BY <2>1, <2>3, <2>4, <2>6 DEF OnRows
<1>8. Jobs'
  <2>1. ASSUME NEW v \in Worker PROVE JobOK(job[v])'
    <3>1. JobOK(job'[v])
      BY <1>3, IdleOK DEF IInv, Jobs
    <3> QED BY <3>1 DEF JobOK, Ordered, Locked, Tracked, Ahead, Between, Held
  <2>2. OnRows(job[w])'
    BY <1>3 DEF OnRows, Idle, Published
  <2>3. ASSUME NEW v \in Worker, NEW u \in Worker, v # u PROVE Apart(job[v], job[u])'
    <3>1. Apart(job'[v], job'[u])
      BY <1>3, <2>3, IdleOK DEF IInv, Jobs
    <3> QED BY <3>1 DEF Apart
  <2> QED BY <1>7, <2>1, <2>2, <2>3 DEF Jobs
<1>9. /\ \A v \in Worker \ {w}, i \in Item : Publishes(v, i)' <=> Publishes(v, i)
      /\ \A i \in Item : ~Publishes(w, i)' /\ (Publishes(w, i) <=> i \in DOMAIN j.sent)
  BY <1>1, <1>3 DEF Publishes, Idle
<1>10. \A i : Stored(i)' = ViewOf(MyRows(w), MyRRs(w), i) /\ Stored(i) = ViewOf(rows, rrs, i)
  BY <1>1 DEF Stored, ViewOf
<1>11. ASSUME NEW i \in Item \ (torn \cup stale), \A v \in Worker : ~Publishes(v, i)'
       PROVE  dns[i] = Stored(i)'
  <2>1. CASE i \in DOMAIN j.sent
    <3>1. dns[i] = j.sent[i] /\ i \notin j.lost
      BY <1>9, <2>1 DEF IInv, DnsInv
    <3>2. j.sent[i] = View(j, i)
      BY <1>1, <1>2, <2>1, <3>1 DEF OnRows, Published
    <3> QED BY <1>10, <3>1, <3>2 DEF View, MyRows, MyRRs
  <2>2. CASE i \notin DOMAIN j.sent
    <3>1. \A v \in Worker : ~Publishes(v, i)
      BY <1>9, <1>11, <2>2
    <3> QED BY <1>1, <1>10, <2>2, <3>1, StoredKept DEF IInv, DnsInv
  <2> QED BY <2>1, <2>2
<1>12. DnsInv'
  <2>1. \A v \in Worker, i \in Item : (Publishes(v, i) /\ i \in job[v].lost => i \in stale)'
    BY <1>1, <1>3, <1>9 DEF IInv, DnsInv
  <2>2. \A i \in Item \ (torn \cup stale) : \A v \in Worker :
          Publishes(v, i)' => dns[i] = job'[v].sent[i]
    BY <1>3, <1>9 DEF IInv, DnsInv
  <2> QED BY <1>1, <1>11, <2>1, <2>2 DEF DnsInv
<1> QED BY <1>4, <1>6, <1>8, <1>12 DEF IInv

-----------------------------------------------------------------------------
(* The theorems                                                             *)

LEMMA InvStep == IInv /\ [Next]_vars => IInv'
<1> SUFFICES ASSUME IInv, [Next]_vars PROVE IInv'
  OBVIOUS
<1>1. CASE UNCHANGED vars
  <2>1. UNCHANGED <<rows, rrs, dns, job, served, torn, stale>>
    BY <1>1 DEF vars
  <2>2. (Types /\ Keys)' <=> Types /\ Keys
    BY <2>1 DEF Types, Keys
  <2>3. \A w \in Worker : JobOK(job[w])' <=> JobOK(job[w])
    BY <2>1 DEF JobOK, Ordered, Locked, Tracked, Ahead, Between, Held
  <2>4. \A w \in Worker : OnRows(job[w])' <=> OnRows(job[w])
    BY <2>1 DEF OnRows, View
  <2>5. \A v, w \in Worker : Apart(job[v], job[w])' <=> Apart(job[v], job[w])
    BY <2>1 DEF Apart
  <2>6. Jobs' <=> Jobs
    BY <2>3, <2>4, <2>5 DEF Jobs
  <2>7. DnsInv' <=> DnsInv
    BY <2>1 DEF DnsInv, Publishes, Stored
  <2> QED BY <2>2, <2>6, <2>7 DEF IInv
<1>2. ASSUME NEW w \in Worker, Step(w) PROVE IInv'
  BY <1>2, BeginStep, StartDeleteStep, StartCreateStep, StartUpdateStep, RemoveStep,
     CreateStep, DropStep, CompareStep, SaveStep, FailureSteps, ComputeStep, SendStep,
     CommitStep, CommitFailsStep DEF Step
<1>3. ASSUME NEW w \in Worker, NEW kind \in Kind, NEW data \in Payloads, Accept(w, kind, data)
      PROVE  IInv'
  BY <1>3, AcceptStep
<1> QED BY <1>1, <1>2, <1>3 DEF Next

\* The inductive invariant holds throughout.
THEOREM Invariance == Spec => []IInv
<1> QED BY InvInit, InvStep, PTL DEF Spec

LEMMA TypesOK == IInv => TypeOK
<1>1. \A data \in Payloads \cup {None} :
        DOMAIN data \subseteq Item /\ \A i \in DOMAIN data : data[i] \in Values
  BY PayloadAssumption DEF None
<1> QED BY <1>1 DEF IInv, Types, TypeOK, JobType

\* Every variable, and every field of a request, has its type.
THEOREM Typed == Spec => []TypeOK
<1>1. IInv => TypeOK
  BY TypesOK
<1> QED BY <1>1, Invariance, PTL

\* For any number of requests in any order of their statements: from reading an
\* RRset for its PATCH to COMMIT a request is alone with it, unless its row had
\* vanished under one of the two (views/records.py, pdns_change_tracker.py:226-248).
THEOREM PublishesAlone == Spec => []OnePublisher
<1>1. IInv => OnePublisher
  BY Publisher DEF OnePublisher, Published
<1> QED BY <1>1, Invariance, PTL

\* Whenever no request is under way, nslord serves what the database stores, but
\* for items of a transaction that failed at COMMIT or found no row.
THEOREM DnsFollows == Spec => []DnsAgrees
<1>1. IInv => DnsAgrees
  BY DEF IInv, DnsInv, DnsAgrees, Publishes
<1> QED BY <1>1, Invariance, PTL

-----------------------------------------------------------------------------
(* Requests without rivals: AppliedExactly.  AloneInv says what the payload *)
(* has become of so far, statement by statement, and that neither the rows  *)
(* nor nslord ever have what the exclusion constraint and pdns refuse.      *)

\* Rows of RRset that exclude each other are never stored or inserted together.
Compatible ==
  /\ \A r, s \in rows : ~Conflicting(r[1], s[1])
  /\ \A v \in Worker : \A r \in job[v].insRows : \A s \in MyRows(v) : ~Conflicting(r[1], s[1])
  /\ \A v, w \in Worker : v # w =>
       \A r \in job[v].insRows : \A s \in job[w].insRows : ~Conflicting(r[1], s[1])

\* What the payload makes of an item.
Target(j, i) ==
  IF i \in DOMAIN j.data /\ j.data[i] # Keep THEN j.data[i] ELSE Stored(i)

\* A request that has the database to itself: what it has done so far ...
Done(j) ==
  /\ \A i \in Item \ Ahead(j) : View(j, i) = Target(j, i)
  /\ \A r \in rows : r[1] \in Empties(j.data) \ Ahead(j) => r \in j.delRows
  /\ \A x \in rrs : x[1] \in j.delRows => x \in j.delRRs
  /\ \A r \in j.insRows : r[1] \in DOMAIN j.data \ Empties(j.data)

\* ... and what its current statement has found.
InHand(j) ==
  /\ j.stage = "remove" => j.cur \in Empties(j.data) /\ j.picked = RRsOf(rrs, Held(j))
  /\ j.stage \in Statements \ {"remove"} => j.cur \notin Empties(j.data)
  /\ j.stage = "create" => j.cur \notin Known /\ j.todo \cap Empties(j.data) = {}
  /\ j.stage = "drop" => j.picked = {x \in RRsOf(rrs, Held(j)) : x[2] \notin j.data[j.cur]}
  /\ j.stage = "compare" => View(j, j.cur) = Stored(j.cur) \cap j.data[j.cur]
  /\ j.stage = "save" =>
       /\ j.fresh \cup View(j, j.cur) = Target(j, j.cur)
       /\ j.fresh \cap View(j, j.cur) = {}

Exact(j) ==
  /\ Valid(j.kind, j.data) /\ j.lost = {}
  /\ IF j.stage = "begin"
       THEN j.inst = IF j.kind = "detail" THEN {r \in rows : r[1] \in DOMAIN j.data} ELSE {}
       ELSE /\ j.inst = {r \in rows : r[1] \in DOMAIN j.data}
            /\ j.kind = "dyndns" => j.seen = rrs
            /\ Done(j) /\ InHand(j)

AloneInv ==
  /\ Compatible /\ Acceptable(dns)
  /\ \A w \in Worker : job[w].alone =>
       /\ job[w].stage # "idle" /\ \A v \in Worker \ {w} : job[v].stage = "idle"
       /\ torn \cup stale = {} => Exact(job[w])

\* Symmetry of the exclusion, and what a payload that passed validation excludes.
LEMMA Exclusions ==
  /\ \A i : ~Conflicting(i, i)
  /\ \A i, k : Conflicting(i, k) => Conflicting(k, i)
  BY DEF Conflicting

LEMMA ValidFacts ==
  ASSUME Compatible, NEW kind, NEW data, Valid(kind, data)
  PROVE  /\ Singletons(data) /\ NoConflicts(data)
         /\ \A i \in DOMAIN data \ Known : data[i] # Keep
         /\ kind = "post" => DOMAIN data \cap Known = {}
<1>1. CASE kind = "post"
  BY <1>1 DEF Valid
<1>2. CASE kind = "detail"
  <2>1. PICK i \in Known : DOMAIN data = {i}
    BY <1>2 DEF Valid
  <2>2. \A k, l \in Known : ~Conflicting(k, l)
    BY DEF Compatible, Known
  <2>3. NoConflicts(data)
    BY <2>1, <2>2 DEF NoConflicts
  <2> QED BY <1>2, <2>1, <2>3 DEF Valid
<1>3. CASE kind \notin {"post", "detail"}
  BY <1>3 DEF Valid
<1> QED BY <1>1, <1>2, <1>3

-----------------------------------------------------------------------------
(* The exclusion constraint                                                 *)

LEMMA CompatibleShrinks ==
  ASSUME Compatible, rows' = rows,
         \A v \in Worker : /\ job'[v].insRows \subseteq job[v].insRows
                           /\ job'[v].insRows # {} => job[v].delRows \subseteq job'[v].delRows
  PROVE  Compatible'
<1>1. ASSUME NEW v \in Worker, NEW r \in job'[v].insRows, NEW s \in MyRows(v)'
      PROVE  ~Conflicting(r[1], s[1])
  <2>1. s \in MyRows(v) /\ r \in job[v].insRows
    BY DEF MyRows
  <2> QED BY <2>1 DEF Compatible
<1>2. ASSUME NEW v \in Worker, NEW u \in Worker, v # u,
             NEW r \in job'[v].insRows, NEW s \in job'[u].insRows
      PROVE  ~Conflicting(r[1], s[1])
  BY <1>2 DEF Compatible
<1>3. \A r, s \in rows' : ~Conflicting(r[1], s[1])
  BY DEF Compatible
<1> QED BY <1>1, <1>2, <1>3 DEF Compatible, Conflicting

LEMMA CompatibleInserts ==
  ASSUME IInv, Compatible, NEW w \in Worker, NEW J, job' = [job EXCEPT ![w] = J], rows' = rows,
         NEW row, J.insRows \subseteq job[w].insRows \cup {row}, J.delRows = job[w].delRows,
         ~Forbids(w, row[1]), \A v \in Worker \ {w} : ~InsertWaits(row[1], v)
  PROVE  Compatible'
<1>1. job'[w] = J /\ \A v \in Worker \ {w} : job'[v] = job[v]
  BY DEF IInv, Types
<1>2. MyRows(w)' \subseteq MyRows(w) \cup {row} /\ \A v \in Worker \ {w} : MyRows(v)' = MyRows(v)
  BY <1>1 DEF MyRows
<1>3. job[w].insRows \subseteq MyRows(w)
  BY DEF MyRows
<1>4. \A s \in MyRows(w) : ~Conflicting(row[1], s[1]) /\ ~Conflicting(s[1], row[1])
  BY Exclusions DEF Forbids
<1>5. \A v \in Worker \ {w} : \A s \in job[v].insRows :
        ~Conflicting(row[1], s[1]) /\ ~Conflicting(s[1], row[1])
  BY Exclusions DEF InsertWaits
<1>6. ASSUME NEW v \in Worker, NEW r \in job'[v].insRows, NEW s \in MyRows(v)'
      PROVE  ~Conflicting(r[1], s[1])
  <2>1. CASE v # w
    BY <1>1, <1>2, <2>1 DEF Compatible
  <2>2. CASE v = w
    BY <1>1, <1>2, <1>3, <1>4, <2>2, Exclusions DEF Compatible
  <2> QED BY <2>1, <2>2
<1>7. ASSUME NEW v \in Worker, NEW u \in Worker, v # u,
             NEW r \in job'[v].insRows, NEW s \in job'[u].insRows
      PROVE  ~Conflicting(r[1], s[1])
  <2>1. CASE v # w /\ u # w
    BY <1>1, <1>7, <2>1 DEF Compatible
  <2>2. CASE v = w
    BY <1>1, <1>5, <1>7, <2>2 DEF Compatible
  <2>3. CASE u = w
    BY <1>1, <1>5, <1>7, <2>3 DEF Compatible
  <2> QED BY <2>1, <2>2, <2>3
<1>8. \A r, s \in rows' : ~Conflicting(r[1], s[1])
  BY DEF Compatible
<1> QED BY <1>6, <1>7, <1>8 DEF Compatible, Conflicting

LEMMA CompatibleCommits ==
  ASSUME IInv, Compatible, NEW w \in Worker, Commit(w)
  PROVE  Compatible'
<1>1. /\ rows' = MyRows(w) /\ job'[w] = Idle /\ \A v \in Worker \ {w} : job'[v] = job[v]
  BY DEF Commit, IInv, Types
<1>2. rows' \subseteq rows \cup job[w].insRows /\ job'[w].insRows = {}
  BY <1>1 DEF MyRows, Idle
<1>3. \A r, s \in rows' : ~Conflicting(r[1], s[1])
  BY <1>1, Exclusions DEF Compatible, MyRows
<1>4. ASSUME NEW v \in Worker, NEW r \in job'[v].insRows, NEW s \in MyRows(v)'
      PROVE  ~Conflicting(r[1], s[1])
  <2>1. v # w /\ r \in job[v].insRows
    BY <1>1, <1>2
  <2>2. s \in MyRows(v) \/ s \in job[w].insRows
    BY <1>1, <1>2, <2>1 DEF MyRows
  <2> QED BY <2>1, <2>2 DEF Compatible
<1>5. ASSUME NEW v \in Worker, NEW u \in Worker, v # u,
             NEW r \in job'[v].insRows, NEW s \in job'[u].insRows
      PROVE  ~Conflicting(r[1], s[1])
  BY <1>1, <1>2, <1>5 DEF Compatible
<1> QED BY <1>3, <1>4, <1>5 DEF Compatible, Conflicting

-----------------------------------------------------------------------------
(* A request that has the database to itself                                *)

\* It waits for nobody, is no victim of a deadlock, and finds nslord in agreement.
LEMMA LonelyFacts ==
  ASSUME IInv, AloneInv, NEW w \in Worker, job[w].alone, torn \cup stale = {}
  PROVE  /\ Exact(job[w]) /\ Free(w) /\ ~Deadlocked(w)
         /\ job[w].stage # "commit" => \A i \in Item : dns[i] = Stored(i)
<1>1. Exact(job[w]) /\ \A v \in Worker \ {w} : job[v].stage = "idle"
  BY DEF AloneInv
<1>2. \A v \in Worker : job[v].stage = "idle" =>
        /\ job[v].insRows = {} /\ job[v].delRows = {} /\ job[v].locked = {}
        /\ job[v].insRRs = {} /\ job[v].delRRs = {}
  BY DEF IInv, Jobs, JobOK, Ordered, Locked
<1>3. \A v \in Worker : ~Waits(w, v)
  BY <1>1, <1>2 DEF Waits, InsertWaits
<1>4. job[w].stage # "commit" => \A v \in Worker, i \in Item : ~Publishes(v, i)
  BY <1>1 DEF Publishes
<1> QED BY <1>1, <1>3, <1>4 DEF Free, Deadlocked, IInv, DnsInv

\* A step of a request that does not end it.
LEMMA AloneMoves ==
  ASSUME IInv, AloneInv, NEW w \in Worker, NEW J, job' = [job EXCEPT ![w] = J],
         rows' = rows, rrs' = rrs, torn \subseteq torn', stale \subseteq stale',
         Acceptable(dns)', Compatible', job[w].stage # "idle", J.stage # "idle",
         J.alone = job[w].alone,
         job[w].alone /\ torn \cup stale = {} => Exact(J)
  PROVE  AloneInv' /\ job'[w].stage # "idle"
<1>1. job'[w] = J /\ \A v \in Worker \ {w} : job'[v] = job[v]
  BY DEF IInv, Types
<1>2. \A v \in Worker \ {w} : ~job[v].alone
  BY DEF AloneInv
<1>3. ASSUME job[w].alone, torn' \cup stale' = {} PROVE Exact(job[w])'
  <2>1. Exact(job'[w])
    BY <1>1, <1>3
  <2>2. \A i : View(job[w], i)' = View(job'[w], i) /\ Target(job[w], i)' = Target(job'[w], i)
    BY DEF View, Target, Stored
  <2>3. Done(job[w])' <=> Done(job'[w])
    BY <2>2 DEF Done, Ahead
  <2>4. InHand(job[w])' <=> InHand(job'[w])
    BY <2>2 DEF InHand, Held, RRsOf, Known, Stored
  <2>5. Valid(job[w].kind, job[w].data)' <=> Valid(job'[w].kind, job'[w].data)
    BY DEF Valid, NoConflicts, Known
  <2> QED BY <2>1, <2>3, <2>4, <2>5 DEF Exact
<1>4. ASSUME NEW v \in Worker, job'[v].alone
      PROVE  /\ job'[v].stage # "idle" /\ \A u \in Worker \ {v} : job'[u].stage = "idle"
             /\ torn' \cup stale' = {} => Exact(job[v])'
  <2>1. v = w /\ job[w].alone
    BY <1>1, <1>2, <1>4
  <2>2. \A u \in Worker \ {w} : job[u].stage = "idle"
    BY <2>1 DEF AloneInv
  <2> QED BY <1>1, <1>3, <2>1, <2>2
<1> QED BY <1>1, <1>4 DEF AloneInv

\* Every other step: no request is alone afterwards that was not before.
LEMMA AloneEnds ==
  ASSUME IInv, AloneInv, NEW w \in Worker, job' = [job EXCEPT ![w] = Idle],
         job[w].stage # "idle", Acceptable(dns)', Compatible'
  PROVE  AloneInv'
<1>1. job'[w] = Idle /\ \A v \in Worker \ {w} : job'[v] = job[v]
  BY DEF IInv, Types
<1>2. \A v \in Worker \ {w} : ~job[v].alone
  BY DEF AloneInv
<1>3. \A v \in Worker : ~job'[v].alone
  BY <1>1, <1>2 DEF Idle
<1> QED BY <1>3 DEF AloneInv

\* What a request has not touched yet it sees as it is stored.
LEMMA AheadView ==
  ASSUME IInv, NEW w \in Worker, NEW i \in Ahead(job[w]),
         ~(Between(job[w]) /\ i = job[w].cur)
  PROVE  /\ View(job[w], i) = Stored(i)
         /\ \A r : r[1] = i => (r \in MyRows(w) <=> r \in rows)
         /\ \A x : x[1][1] = i => (x \in MyRRs(w) <=> x \in rrs)
<1> DEFINE j == job[w]
<1>1. JobOK(j)
  BY JobFacts
<1>2. \A r \in j.locked \cup j.insRows \cup j.delRows : r[1] # i
  BY <1>1 DEF JobOK, Ordered, Locked
<1>3. Between(j) => Held(j)[1] = j.cur
  BY HeldFacts DEF Between, Instances
<1>4. \A x \in j.insRRs \cup j.delRRs : x[1][1] # i
  BY <1>1, <1>2, <1>3 DEF JobOK, Locked
<1>5. /\ \A r : r[1] = i => (r \in MyRows(w) <=> r \in rows)
      /\ \A x : x[1][1] = i => (x \in MyRRs(w) <=> x \in rrs)
  BY <1>2, <1>4 DEF MyRows, MyRRs
<1>6. ViewOf(MyRows(w), MyRRs(w), i) = ViewOf(rows, rrs, i)
  BY <1>5, SameView
<1>7. View(j, i) = ViewOf(MyRows(w), MyRRs(w), i)
  BY DEF View, MyRows, MyRRs
<1> QED BY <1>5, <1>6, <1>7, Views

\* Two requests that see the same show the same.
LEMMA ViewSame ==
  ASSUME NEW j, NEW k, NEW i,
         \A r : r[1] = i => (r \in (rows \ j.delRows) \cup j.insRows
                               <=> r \in (rows \ k.delRows) \cup k.insRows),
         \A x : x[1][1] = i => (x \in (rrs \ j.delRRs) \cup j.insRRs
                                  <=> x \in (rrs \ k.delRRs) \cup k.insRRs)
  PROVE  View(j, i) = View(k, i)
  BY SameView DEF View

\* The row that a lonely request holds is stored, and the only one of its item.
LEMMA HeldView ==
  ASSUME IInv, NEW w \in Worker, Exact(job[w]), job[w].stage \in Instances
  PROVE  /\ Held(job[w]) \in rows /\ Held(job[w]) \in MyRows(w)
         /\ \A r \in rows \cup MyRows(w) : r[1] = job[w].cur => r = Held(job[w])
         /\ Contents(RRsOf(rrs, Held(job[w]))) = Stored(job[w].cur)
         /\ Contents(RRsOf(MyRRs(w), Held(job[w]))) = View(job[w], job[w].cur)
<1> DEFINE j == job[w]
           h == Held(j)
<1>1. h \in j.inst /\ h[1] = j.cur
  BY HeldFacts
<1>2. j.inst \subseteq rows
  BY DEF Exact, Instances
<1>3. \A r : r[1] = j.cur => (r \in MyRows(w) <=> r \in rows)
  BY Unwritten DEF Instances, Statements
<1>4. \A r \in rows : r[1] = j.cur => r = h
  BY <1>1, <1>2 DEF IInv, Keys
<1>5. h \in rows /\ h \in MyRows(w) /\ \A r \in rows \cup MyRows(w) : r[1] = j.cur => r = h
  BY <1>1, <1>2, <1>3, <1>4
<1>6. ASSUME NEW R, NEW X, h \in R, \A r \in R : r[1] = j.cur => r = h
      PROVE  Contents(RRsOf(X, h)) = ViewOf(R, X, j.cur)
  <2>1. RRsOf(X, h) = {x \in X : x[1] \in RowsFor(R, j.cur)}
    BY <1>1, <1>6 DEF RRsOf, RowsFor
  <2> QED BY <2>1 DEF ViewOf
<1>7. View(j, j.cur) = ViewOf(MyRows(w), MyRRs(w), j.cur)
  BY DEF View, MyRows, MyRRs
<1> QED BY <1>5, <1>6, <1>7, Views

\* What a request has done is not undone by a step about an item i.
LEMMA DoneStep ==
  ASSUME NEW j, NEW J, NEW i, Done(j), J.data = j.data,
         \A k \in Ahead(j) : k # i => k \in Ahead(J),
         \A k \in Item \ Ahead(J) : k # i => View(J, k) = View(j, k),
         i \notin Ahead(J) =>
           /\ i \in Item => View(J, i) = Target(j, i)
           /\ i \in Empties(j.data) => \A r \in rows : r[1] = i => r \in J.delRows,
         j.delRows \subseteq J.delRows,
         \A x \in rrs : x[1] \in J.delRows => x \in J.delRRs,
         \A r \in J.insRows : r \in j.insRows \/ r[1] \in DOMAIN j.data \ Empties(j.data)
  PROVE  Done(J)
<1>1. ASSUME NEW k \in Item \ Ahead(J) PROVE View(J, k) = Target(J, k)
  BY DEF Done, Target
<1>2. ASSUME NEW r \in rows, r[1] \in Empties(J.data) \ Ahead(J) PROVE r \in J.delRows
  <2>1. CASE r[1] = i
    BY <1>2, <2>1
  <2>2. CASE r[1] # i
    BY <1>2, <2>2 DEF Done
  <2> QED BY <2>1, <2>2
<1>3. \A r \in J.insRows : r[1] \in DOMAIN J.data \ Empties(J.data)
  BY DEF Done
<1> QED BY <1>1, <1>2, <1>3 DEF Done

\* A step of a request that neither inserts a row nor publishes.
LEMMA AloneGoes ==
  ASSUME IInv, AloneInv, NEW w \in Worker, NEW J, job' = [job EXCEPT ![w] = J],
         UNCHANGED <<dbVars, dns, served, torn, stale>>,
         J.insRows = job[w].insRows, job[w].delRows \subseteq J.delRows,
         job[w].stage # "idle", J.stage # "idle", J.alone = job[w].alone,
         job[w].alone /\ torn \cup stale = {} => Exact(J)
  PROVE  AloneInv' /\ job'[w].stage # "idle"
<1>1. /\ rows' = rows /\ rrs' = rrs /\ dns' = dns /\ torn \subseteq torn' /\ stale \subseteq stale'
  BY DEF dbVars
<1>2. job'[w] = J /\ \A v \in Worker \ {w} : job'[v] = job[v]
  BY DEF IInv, Types
<1>3. Compatible'
  BY <1>1, <1>2, CompatibleShrinks DEF AloneInv
<1>4. Acceptable(dns)'
  BY <1>1 DEF AloneInv, Acceptable
<1> QED BY <1>1, <1>3, <1>4, AloneMoves

LEMMA AloneInit == Init => AloneInv
<1> SUFFICES ASSUME Init PROVE AloneInv
  OBVIOUS
<1>1. PICK db \in [Item -> SUBSET Record] :
        /\ \A i, k \in Item : Conflicting(i, k) => db[i] = {} \/ db[k] = {}
        /\ \A i \in Exclusive : Cardinality(db[i]) <= 1
        /\ rows = {<<i, 0>> : i \in {k \in Item : db[k] # {}}}
        /\ dns = db
  BY DEF Init
<1>2. \A w \in Worker : job[w] = Idle
  BY DEF Init
<1>3. Idle.insRows = {} /\ Idle.alone = FALSE
  BY DEF Idle
<1>4. Compatible
  <2>1. \A r \in rows : r[1] \in Item /\ db[r[1]] # {}
    BY <1>1
  <2>2. \A r, s \in rows : ~Conflicting(r[1], s[1])
    BY <1>1, <2>1
  <2>3. \A w \in Worker : job[w].insRows = {}
    BY <1>2, <1>3
  <2> QED BY <2>2, <2>3 DEF Compatible
<1>5. Acceptable(dns)
  <2>1. Acceptable(db)
    BY <1>1, Zenon DEF Acceptable
  <2> QED BY <1>1, <2>1, Zenon
<1>6. \A w \in Worker : ~job[w].alone
  BY <1>2, <1>3
<1> QED BY <1>4, <1>5, <1>6 DEF AloneInv

LEMMA AloneAccept ==
  ASSUME IInv, AloneInv, NEW w \in Worker, NEW kind \in Kind, NEW data \in Payloads,
         Accept(w, kind, data)
  PROVE  AloneInv'
<1> DEFINE I == IF kind = "detail" THEN {r \in rows : r[1] \in DOMAIN data} ELSE {}
           a == \A u \in Worker \ {w} : job[u].stage = "idle"
           J == [Idle EXCEPT !.stage = "begin", !.kind = kind, !.data = data,
                             !.num = served + 1, !.inst = I, !.alone = a]
<1>1. /\ rows' = rows /\ rrs' = rrs /\ dns' = dns /\ torn' = torn /\ stale' = stale
      /\ job' = [v \in Worker |-> IF v = w THEN J ELSE [job[v] EXCEPT !.alone = FALSE]]
      /\ Valid(kind, data)
  BY DEF Accept, MayAccept, dbVars
<1>2. \A v \in Worker : job[v] \in JobType
  BY DEF IInv, Types
<1> HIDE DEF I, a
<1>3. /\ J.stage = "begin" /\ J.kind = kind /\ J.data = data /\ J.inst = I /\ J.lost = {}
      /\ J.insRows = {} /\ J.alone = a
  BY DEF Idle
<1> HIDE DEF J
<1>4. job'[w] = J
  BY <1>1
<1>5. \A v \in Worker \ {w} :
        /\ job'[v].alone = FALSE /\ job'[v].stage = job[v].stage
        /\ job'[v].insRows = job[v].insRows /\ job'[v].delRows = job[v].delRows
  BY <1>1, <1>2 DEF JobType
<1>6. Compatible'
  BY <1>1, <1>3, <1>4, <1>5, CompatibleShrinks DEF AloneInv
<1>7. Acceptable(dns)'
  BY <1>1 DEF AloneInv, Acceptable
<1>8. Exact(job[w])'
  <2>1. Valid(kind, data)'
    BY <1>1 DEF Valid, NoConflicts, Known
  <2> QED BY <1>1, <1>3, <1>4, <2>1 DEF Exact, I
<1>9. job'[w].alone => \A u \in Worker \ {w} : job'[u].stage = "idle"
  BY <1>3, <1>4, <1>5 DEF a
<1> QED BY <1>3, <1>4, <1>5, <1>6, <1>7, <1>8, <1>9 DEF AloneInv

LEMMA AloneBegin ==
  ASSUME IInv, AloneInv, NEW w \in Worker, Begin(w)
  PROVE  AloneInv' /\ job'[w].stage # "idle"
<1> DEFINE j == job[w]
           bulk == j.kind \in {"bulk", "dyndns"}
           I == IF bulk THEN {r \in rows : r[1] \in DOMAIN j.data} ELSE j.inst
           T == {i \in DOMAIN j.data : j.data[i] # {} \/ \E r \in I : r[1] = i}
           P == Prefetched(w)
           J == [j EXCEPT !.stage = "next", !.inst = I, !.seen = P, !.todo = T]
<1>1. j \in JobType /\ JobOK(j)
  BY JobFacts
<1>2. /\ j.stage = "begin" /\ job' = [job EXCEPT ![w] = J]
      /\ UNCHANGED <<dbVars, dns, served, torn, stale>>
  BY DEF Begin
<1> HIDE DEF I, T, P
<1>3. /\ J.stage = "next" /\ J.data = j.data /\ J.inst = I /\ J.todo = T /\ J.seen = P
      /\ J.kind = j.kind /\ J.alone = j.alone
      /\ J.insRows = j.insRows /\ J.delRows = j.delRows
      /\ J.insRRs = j.insRRs /\ J.delRRs = j.delRRs /\ J.lost = j.lost
  BY <1>1 DEF JobType
<1> HIDE DEF J
<1>4. j.insRRs = {} /\ j.delRRs = {} /\ j.insRows = {} /\ j.delRows = {}
  BY <1>1, <1>2 DEF JobOK, Ordered, Locked
<1>5. ASSUME j.alone, torn \cup stale = {} PROVE Exact(J)
  <2>1. Exact(j)
    BY <1>5, LonelyFacts
  <2>2. /\ Valid(j.kind, j.data) /\ j.lost = {}
        /\ j.inst = IF j.kind = "detail" THEN {r \in rows : r[1] \in DOMAIN j.data} ELSE {}
    BY <1>2, <2>1 DEF Exact
  <2>3. j.kind = "post" => DOMAIN j.data \cap Known = {}
    BY <2>2, ValidFacts DEF AloneInv
  <2>4. I = {r \in rows : r[1] \in DOMAIN j.data}
    <3>1. CASE j.kind = "post"
      BY <2>2, <2>3, <3>1 DEF I, Known
    <3>2. CASE j.kind # "post"
      BY <1>1, <2>2, <3>2 DEF I, JobType, Kind
    <3> QED BY <3>1, <3>2
  <2>5. j.kind = "dyndns" => P = rrs
    BY DEF P, Prefetched
  <2>6. \A i : View(J, i) = Stored(i)
    BY <1>3, <1>4, Views DEF View
  <2>7. Ahead(J) = T
    BY <1>3 DEF Ahead, Statements
  <2>8. ASSUME NEW i \in Item \ T PROVE Stored(i) = Target(J, i)
    <3>1. CASE i \in DOMAIN j.data
      <4>1. j.data[i] = {} /\ \A r \in rows : r[1] # i
        BY <2>4, <2>8, <3>1 DEF T
      <4>2. Stored(i) = {}
        BY <4>1 DEF Stored, Contents, RowsFor
      <4> QED BY <1>3, <4>1, <4>2 DEF Target
    <3>2. CASE i \notin DOMAIN j.data
      BY <1>3, <3>2 DEF Target
    <3> QED BY <3>1, <3>2
  <2>9. \A r \in rows : r[1] \notin Empties(j.data) \ T
    BY <2>4 DEF T, Empties
  <2>10. Done(J)
    BY <1>3, <1>4, <2>6, <2>7, <2>8, <2>9 DEF Done
  <2>11. InHand(J)
    BY <1>3 DEF InHand, Statements
  <2> QED BY <1>3, <2>2, <2>4, <2>5, <2>10, <2>11 DEF Exact
<1> QED BY <1>2, <1>3, <1>5, AloneGoes

\* The next item of a walk.
LEMMA AloneWalk ==
  ASSUME IInv, AloneInv, NEW w \in Worker, NEW J, job' = [job EXCEPT ![w] = J],
         UNCHANGED <<dbVars, dns, served, torn, stale>>,
         job[w].stage = "next", J.stage \in {"remove", "create", "drop", "save"},
         J.cur \in job[w].todo, J.todo = job[w].todo \ {J.cur},
         J.inst = job[w].inst, J.data = job[w].data, J.kind = job[w].kind,
         J.seen = job[w].seen, J.alone = job[w].alone,
         J.insRows = job[w].insRows, J.delRows = job[w].delRows,
         J.insRRs = job[w].insRRs, J.delRRs = job[w].delRRs, J.lost = job[w].lost,
         Exact(job[w]) => InHand(J)
  PROVE  AloneInv' /\ job'[w].stage # "idle"
<1> DEFINE j == job[w]
<1>1. ASSUME j.alone, torn \cup stale = {} PROVE Exact(J)
  <2>1. Exact(j)
    BY <1>1, LonelyFacts
  <2>2. Ahead(J) = Ahead(j)
    BY DEF Ahead, Statements
  <2>3. \A i : View(J, i) = View(j, i) /\ Target(J, i) = Target(j, i)
    BY DEF View, Target
  <2>4. Done(J)
    BY <2>1, <2>2, <2>3 DEF Exact, Done
  <2> QED BY <2>1, <2>4 DEF Exact
<1> QED BY <1>1, AloneGoes

\* What a lonely request knows of an item it turns to.
LEMMA NextItem ==
  ASSUME IInv, NEW w \in Worker, job[w].stage = "next", NEW i \in job[w].todo
  PROVE  /\ View(job[w], i) = Stored(i)
         /\ \A r : r[1] = i => RRsOf(MyRRs(w), r) = RRsOf(rrs, r)
<1>1. i \in Ahead(job[w]) /\ ~Between(job[w])
  BY DEF Ahead, Between
<1>2. View(job[w], i) = Stored(i) /\ \A x : x[1][1] = i => (x \in MyRRs(w) <=> x \in rrs)
  BY <1>1, AheadView
<1> QED BY <1>2 DEF RRsOf

LEMMA AloneStartDelete ==
  ASSUME IInv, AloneInv, NEW w \in Worker, StartDelete(w)
  PROVE  AloneInv' /\ job'[w].stage # "idle"
<1>1. PICK r \in job[w].inst :
        /\ r[1] \in Deletions(w)
        /\ job' = [job EXCEPT ![w] = [job[w] EXCEPT !.stage = "remove", !.cur = r[1],
                              !.todo = @ \ {r[1]}, !.picked = RRsOf(MyRRs(w), r)]]
  BY DEF StartDelete
<1> DEFINE P == RRsOf(MyRRs(w), r)
           J == [job[w] EXCEPT !.stage = "remove", !.cur = r[1], !.todo = @ \ {r[1]}, !.picked = P]
<1>2. job[w] \in JobType /\ JobOK(job[w])
  BY JobFacts
<1>3. /\ job' = [job EXCEPT ![w] = J] /\ job[w].stage = "next"
      /\ UNCHANGED <<dbVars, dns, served, torn, stale>>
  BY <1>1 DEF StartDelete
<1>4. r[1] \in job[w].todo /\ r[1] \in Empties(job[w].data)
  BY <1>1 DEF Deletions
<1>5. P = RRsOf(rrs, r)
  BY <1>3, <1>4, NextItem
<1> HIDE DEF P
<1>6. /\ J.stage = "remove" /\ J.cur = r[1] /\ J.todo = job[w].todo \ {r[1]} /\ J.picked = P
      /\ J.inst = job[w].inst /\ J.data = job[w].data /\ J.kind = job[w].kind
      /\ J.seen = job[w].seen /\ J.alone = job[w].alone
      /\ J.insRows = job[w].insRows /\ J.delRows = job[w].delRows
      /\ J.insRRs = job[w].insRRs /\ J.delRRs = job[w].delRRs /\ J.lost = job[w].lost
  BY <1>2 DEF JobType
<1> HIDE DEF J
<1>7. Held(J) = r
  BY <1>2, <1>6, HeldIs DEF JobOK, Ordered
<1>8. InHand(J)
  BY <1>4, <1>5, <1>6, <1>7 DEF InHand
<1> QED BY <1>3, <1>4, <1>6, <1>8, AloneWalk

LEMMA AloneStartCreate ==
  ASSUME IInv, AloneInv, NEW w \in Worker, StartCreate(w)
  PROVE  AloneInv' /\ job'[w].stage # "idle"
<1>1. PICK i \in Creations(w) :
        job' = [job EXCEPT ![w] = [job[w] EXCEPT !.stage = "create", !.cur = i,
                                                 !.todo = @ \ {i}]]
  BY DEF StartCreate
<1> DEFINE J == [job[w] EXCEPT !.stage = "create", !.cur = i, !.todo = @ \ {i}]
<1>2. job[w] \in JobType /\ JobOK(job[w])
  BY JobFacts
<1>3. /\ job' = [job EXCEPT ![w] = J] /\ job[w].stage = "next" /\ Deletions(w) = {}
      /\ UNCHANGED <<dbVars, dns, served, torn, stale>>
  BY <1>1 DEF StartCreate
<1>4. i \in job[w].todo /\ i \notin Deletions(w) /\ \A r \in job[w].inst : r[1] # i
  BY <1>1 DEF Creations
<1>5. /\ J.stage = "create" /\ J.cur = i /\ J.todo = job[w].todo \ {i}
      /\ J.inst = job[w].inst /\ J.data = job[w].data /\ J.kind = job[w].kind
      /\ J.seen = job[w].seen /\ J.alone = job[w].alone
      /\ J.insRows = job[w].insRows /\ J.delRows = job[w].delRows
      /\ J.insRRs = job[w].insRRs /\ J.delRRs = job[w].delRRs /\ J.lost = job[w].lost
  BY <1>2 DEF JobType
<1> HIDE DEF J
<1>6. i \notin Empties(J.data) /\ J.todo \cap Empties(J.data) = {} /\ i \in DOMAIN J.data
  BY <1>2, <1>3, <1>4, <1>5 DEF Deletions, JobOK, Ordered
<1>7. Exact(job[w]) => i \notin Known
  BY <1>3, <1>4, <1>5, <1>6 DEF Exact, Known
<1>8. Exact(job[w]) => InHand(J)
  BY <1>5, <1>6, <1>7 DEF InHand
<1> QED BY <1>3, <1>4, <1>5, <1>8, AloneWalk

LEMMA AloneStartUpdate ==
  ASSUME IInv, AloneInv, NEW w \in Worker, StartUpdate(w)
  PROVE  AloneInv' /\ job'[w].stage # "idle"
<1>1. PICK r \in job[w].inst :
        /\ r[1] \in Updates(w)
        /\ job' = [job EXCEPT ![w] = [job[w] EXCEPT
                     !.cur = r[1], !.todo = @ \ {r[1]}, !.fresh = {},
                     !.stage = IF job[w].data[r[1]] = Keep THEN "save" ELSE "drop",
                     !.picked = IF job[w].data[r[1]] = Keep THEN {}
                                ELSE {x \in RRsOf(MyRRs(w), r) : x[2] \notin job[w].data[r[1]]}]]
  BY DEF StartUpdate
<1> DEFINE new == job[w].data[r[1]]
           P == IF new = Keep THEN {} ELSE {x \in RRsOf(MyRRs(w), r) : x[2] \notin new}
           s == IF new = Keep THEN "save" ELSE "drop"
           J == [job[w] EXCEPT !.cur = r[1], !.todo = @ \ {r[1]}, !.fresh = {}, !.stage = s,
                               !.picked = P]
<1>2. job[w] \in JobType /\ JobOK(job[w])
  BY JobFacts
<1>3. r[1] \in job[w].todo /\ r[1] \notin Deletions(w)
  BY <1>1 DEF Updates
<1>4. job' = [job EXCEPT ![w] = J] /\ job[w].stage = "next"
      /\ UNCHANGED <<dbVars, dns, served, torn, stale>>
  <2>1. job' = [job EXCEPT ![w] = J]
    BY <1>1
  <2> HIDE DEF P, s
  <2> QED BY <2>1 DEF StartUpdate
<1>5. /\ s \in {"save", "drop"} /\ (s = "drop" <=> new # Keep)
      /\ new # Keep => P = {x \in RRsOf(rrs, r) : x[2] \notin new}
  <2>1. RRsOf(MyRRs(w), r) = RRsOf(rrs, r)
    BY <1>3, <1>4, NextItem
  <2> QED BY <2>1
<1> HIDE DEF P, s
<1>6. /\ J.stage = s /\ J.cur = r[1] /\ J.todo = job[w].todo \ {r[1]} /\ J.picked = P
      /\ J.fresh = {} /\ J.inst = job[w].inst /\ J.data = job[w].data /\ J.kind = job[w].kind
      /\ J.seen = job[w].seen /\ J.alone = job[w].alone
      /\ J.insRows = job[w].insRows /\ J.delRows = job[w].delRows
      /\ J.insRRs = job[w].insRRs /\ J.delRRs = job[w].delRRs /\ J.lost = job[w].lost
  BY <1>2 DEF JobType
<1> HIDE DEF J
<1>7. Held(J) = r
  BY <1>2, <1>6, HeldIs DEF JobOK, Ordered
<1>8. r[1] \notin Empties(J.data)
  BY <1>3, <1>6 DEF Deletions
<1>9. View(J, r[1]) = Stored(r[1])
  <2>1. View(job[w], r[1]) = Stored(r[1])
    BY <1>3, <1>4, NextItem
  <2> QED BY <1>6, <2>1 DEF View
<1>10. InHand(J)
  BY <1>5, <1>6, <1>7, <1>8, <1>9 DEF InHand, Statements, Target
<1> QED BY <1>3, <1>4, <1>5, <1>6, <1>10, AloneWalk

-----------------------------------------------------------------------------
(* The statements of a lonely request                                       *)

LEMMA AloneDrop ==
  ASSUME IInv, AloneInv, NEW w \in Worker, Drop(w)
  PROVE  AloneInv' /\ job'[w].stage # "idle"
<1> DEFINE j == job[w]
           D == j.delRRs \cup (j.picked \cap rrs)
           M == IF j.picked = {} THEN j.mods ELSE j.mods \cup {j.cur}
           J == [j EXCEPT !.stage = "compare", !.delRRs = D, !.mods = M]
<1>1. /\ j.stage = "drop" /\ job' = [job EXCEPT ![w] = J]
      /\ UNCHANGED <<dbVars, dns, served, torn, stale>>
  BY DEF Drop
<1>2. j \in JobType /\ JobOK(j)
  BY JobFacts
<1>3. /\ j.delRRs \subseteq D /\ D \subseteq j.delRRs \cup j.picked
      /\ \A x \in rrs : x \in j.picked => x \in D
  OBVIOUS
<1>4. /\ \A x \in j.picked : x[1] = Held(j)
      /\ Held(j)[1] = j.cur /\ j.cur \in DOMAIN j.data /\ j.data[j.cur] # Keep
  BY <1>1, <1>2, HeldFacts DEF JobOK, Ordered, Instances, Statements
<1> HIDE DEF D, M
<1>5. /\ J.stage = "compare" /\ J.cur = j.cur /\ J.todo = j.todo
      /\ J.inst = j.inst /\ J.data = j.data /\ J.kind = j.kind /\ J.seen = j.seen
      /\ J.insRows = j.insRows /\ J.delRows = j.delRows /\ J.alone = j.alone
      /\ J.insRRs = j.insRRs /\ J.delRRs = D /\ J.lost = j.lost
  BY <1>2 DEF JobType
<1> HIDE DEF J
<1>6. Ahead(J) = Ahead(j) /\ j.cur \in Ahead(j) /\ ~Between(j)
  BY <1>1, <1>5 DEF Ahead, Statements, Between
<1>7. \A k : k # j.cur => View(J, k) = View(j, k)
  <2> SUFFICES ASSUME NEW k, k # j.cur PROVE View(J, k) = View(j, k)
    OBVIOUS
  <2>1. \A x : x[1][1] = k => (x \in D <=> x \in j.delRRs)
    BY <1>3, <1>4
  <2> QED BY <1>5, <2>1, ViewSame
<1>8. ASSUME j.alone, torn \cup stale = {} PROVE Exact(J)
  <2>1. Exact(j)
    BY <1>8, LonelyFacts
  <2>2. /\ j.cur \notin Empties(j.data)
        /\ j.picked = {x \in RRsOf(rrs, Held(j)) : x[2] \notin j.data[j.cur]}
    BY <1>1, <2>1 DEF Exact, InHand, Statements
  <2>3. /\ \A r : r[1] = j.cur => (r \in MyRows(w) <=> r \in rows)
        /\ \A x : x[1][1] = j.cur => (x \in MyRRs(w) <=> x \in rrs)
    BY <1>6, AheadView
  <2>4. \A r \in rows : r[1] = j.cur => r = Held(j)
    BY <1>1, <2>1, HeldView DEF Instances
  <2>5. \A x \in rrs : x[1] \in rows /\ x[1][1] = j.cur =>
          (x \notin D <=> x[2] \in j.data[j.cur])
    <3>1. ASSUME NEW x \in rrs, x[1] \in rows, x[1][1] = j.cur
          PROVE  x \in D <=> x[2] \notin j.data[j.cur]
      <4>1. x \in RRsOf(rrs, Held(j))
        BY <2>4, <3>1 DEF RRsOf
      <4>2. x \notin j.delRRs
        <5>1. x \in MyRRs(w)
          BY <2>3, <3>1
        <5>2. x \notin j.insRRs
          <6>1. \A r \in j.locked : r[1] # j.cur
            BY <1>1, Unwritten DEF Statements
          <6> QED BY <1>2, <3>1, <6>1 DEF JobOK, Locked
        <5> QED BY <5>1, <5>2 DEF MyRRs
      <4> QED BY <1>3, <2>2, <4>1, <4>2
    <3> QED BY <3>1
  <2>6. \A x : x[1][1] = j.cur => x \notin j.insRRs
    <3>1. \A r \in j.locked : r[1] # j.cur
      BY <1>1, Unwritten DEF Statements
    <3> QED BY <1>2, <3>1 DEF JobOK, Locked
  <2>7. ASSUME NEW c PROVE c \in View(J, j.cur) <=> c \in Stored(j.cur) /\ c \in j.data[j.cur]
    <3>1. c \in View(J, j.cur) <=>
            \E x \in (rrs \ D) \cup j.insRRs :
              x[1] \in MyRows(w) /\ x[1][1] = j.cur /\ x[2] = c
      BY <1>5, ViewElement DEF View, MyRows
    <3>2. c \in Stored(j.cur) <=> \E x \in rrs : x[1] \in rows /\ x[1][1] = j.cur /\ x[2] = c
      BY Views, ViewElement
    <3> QED BY <2>3, <2>5, <2>6, <3>1, <3>2
  <2>8. View(J, j.cur) = Stored(j.cur) \cap j.data[j.cur]
    <3>1. /\ View(J, j.cur) \subseteq Stored(j.cur) \cap j.data[j.cur]
          /\ Stored(j.cur) \cap j.data[j.cur] \subseteq View(J, j.cur)
      BY <2>7
    <3> QED BY <3>1
  <2>9. Done(J)
    <3>1. Done(j) /\ \A x \in rrs : x[1] \in j.delRows => x \in j.delRRs
      BY <1>1, <2>1 DEF Exact, Done
    <3>2. J.data = j.data /\ j.delRows \subseteq J.delRows /\ J.insRows = j.insRows
      BY <1>5
    <3>3. \A x \in rrs : x[1] \in J.delRows => x \in J.delRRs
      BY <1>3, <1>5, <3>1
    <3>4. /\ \A k \in Ahead(j) : k # j.cur => k \in Ahead(J)
          /\ j.cur \in Ahead(J)
      BY <1>6
    <3>5. \A r \in J.insRows : r \in j.insRows \/ r[1] \in DOMAIN j.data \ Empties(j.data)
      BY <3>2
    <3>6. \A k \in Item \ Ahead(J) : k # j.cur => View(J, k) = View(j, k)
      BY <1>7
    <3> HIDE DEF j
    <3> QED BY <3>1, <3>2, <3>3, <3>4, <3>5, <3>6, DoneStep
  <2>10. InHand(J)
    BY <1>5, <2>2, <2>8 DEF InHand, Statements
  <2> QED BY <1>1, <1>5, <2>1, <2>9, <2>10 DEF Exact
<1> QED BY <1>1, <1>5, <1>8, AloneGoes

LEMMA AloneCompare ==
  ASSUME IInv, AloneInv, NEW w \in Worker, Compare(w)
  PROVE  AloneInv' /\ job'[w].stage # "idle"
<1> DEFINE j == job[w]
           S == IF j.kind = "dyndns" THEN j.seen ELSE MyRRs(w)
           F == New(w) \ Contents(RRsOf(S, CurRow(w)))
           J == [j EXCEPT !.stage = "save", !.fresh = F]
<1>1. /\ j.stage = "compare" /\ job' = [job EXCEPT ![w] = J]
      /\ UNCHANGED <<dbVars, dns, served, torn, stale>>
  BY DEF Compare
<1>2. j \in JobType /\ JobOK(j)
  BY JobFacts
<1>3. j.cur \in DOMAIN j.data /\ j.data[j.cur] # Keep /\ New(w) = j.data[j.cur]
  BY <1>1, <1>2 DEF JobOK, Ordered, Statements, New
<1>4. CurRow(w) = Held(j)
  BY Views
<1> HIDE DEF F
<1>5. /\ J.stage = "save" /\ J.cur = j.cur /\ J.todo = j.todo /\ J.fresh = F
      /\ J.inst = j.inst /\ J.data = j.data /\ J.kind = j.kind /\ J.seen = j.seen
      /\ J.insRows = j.insRows /\ J.delRows = j.delRows /\ J.alone = j.alone
      /\ J.insRRs = j.insRRs /\ J.delRRs = j.delRRs /\ J.lost = j.lost
  BY <1>2 DEF JobType
<1> HIDE DEF J
<1>6. Ahead(J) = Ahead(j)
  BY <1>1, <1>5 DEF Ahead, Statements
<1>7. \A k : View(J, k) = View(j, k) /\ Target(J, k) = Target(j, k)
  BY <1>5 DEF View, Target
<1>8. ASSUME j.alone, torn \cup stale = {} PROVE Exact(J)
  <2>1. Exact(j)
    BY <1>8, LonelyFacts
  <2>2. j.cur \notin Empties(j.data) /\ View(j, j.cur) = Stored(j.cur) \cap j.data[j.cur]
    BY <1>1, <2>1 DEF Exact, InHand, Statements
  <2>3. /\ Contents(RRsOf(rrs, Held(j))) = Stored(j.cur)
        /\ Contents(RRsOf(MyRRs(w), Held(j))) = View(j, j.cur)
    BY <1>1, <2>1, HeldView DEF Instances
  <2>4. j.kind = "dyndns" => j.seen = rrs
    BY <1>1, <2>1 DEF Exact
  <2>5. F = j.data[j.cur] \ Stored(j.cur)
    BY <1>3, <1>4, <2>2, <2>3, <2>4 DEF F
  <2>6. F \cup View(j, j.cur) = j.data[j.cur] /\ F \cap View(j, j.cur) = {}
    BY <2>2, <2>5
  <2>7. Target(j, j.cur) = j.data[j.cur]
    BY <1>3 DEF Target
  <2>8. InHand(J)
    BY <1>5, <1>7, <2>2, <2>6, <2>7 DEF InHand, Statements
  <2>9. Done(J)
    BY <1>1, <1>5, <1>6, <1>7, <2>1 DEF Exact, Done
  <2> QED BY <1>1, <1>5, <2>1, <2>8, <2>9 DEF Exact
<1> QED BY <1>1, <1>5, <1>8, AloneGoes

LEMMA AloneRemove ==
  ASSUME IInv, AloneInv, NEW w \in Worker, Remove(w)
  PROVE  AloneInv' /\ job'[w].stage # "idle"
<1> DEFINE j == job[w]
           i == j.cur
           r == Held(j)
           found == {r} \cap MyRows(w)
           D == j.delRRs \cup (j.picked \cap rrs)
           L == IF found = {} THEN j.lost \cup {i} ELSE j.lost
           J == [j EXCEPT !.stage = "next", !.delRRs = D, !.delRows = @ \cup found,
                          !.locked = @ \cup found, !.lost = L,
                          !.mods = @ \ {i}, !.dels = @ \cup {i}]
<1>1. CurRow(w) = r
  BY Views
<1>2. /\ j.stage = "remove" /\ job' = [job EXCEPT ![w] = J]
      /\ UNCHANGED <<dbVars, dns, served, torn, stale>>
  BY <1>1 DEF Remove
<1>3. j \in JobType /\ JobOK(j)
  BY JobFacts
<1>4. i \in Item /\ i \notin j.todo /\ i \in DOMAIN j.data
  BY <1>2, <1>3, Unwritten DEF Statements, JobOK, Ordered
<1>5. r[1] = i /\ \A x \in j.picked : x[1] = r
  BY <1>2, <1>3, HeldFacts DEF Instances, JobOK, Ordered
<1>6. /\ j.delRRs \subseteq D /\ \A x \in D : x \in j.delRRs \/ x[1] = r
      /\ found \subseteq {r} /\ (r \in MyRows(w) => found = {r} /\ L = j.lost)
      /\ \A x \in rrs : x \in j.picked => x \in D
  BY <1>5
<1> HIDE DEF D, L, found
<1>7. /\ J.stage = "next" /\ J.cur = i /\ J.todo = j.todo /\ J.inst = j.inst /\ J.data = j.data
      /\ J.kind = j.kind /\ J.seen = j.seen /\ J.alone = j.alone
      /\ J.insRows = j.insRows /\ J.delRows = j.delRows \cup found
      /\ J.insRRs = j.insRRs /\ J.delRRs = D /\ J.lost = L
  BY <1>3 DEF JobType
<1> HIDE DEF J
<1>8. Ahead(J) = j.todo /\ Ahead(j) = j.todo \cup {i} /\ i \notin Ahead(J)
  BY <1>2, <1>4, <1>7 DEF Ahead, Statements
<1>9. \A k : k # i => View(J, k) = View(j, k)
  <2> SUFFICES ASSUME NEW k, k # i PROVE View(J, k) = View(j, k)
    OBVIOUS
  <2>1. /\ \A x : x[1][1] = k => (x \in D <=> x \in j.delRRs)
        /\ \A s : s[1] = k => s \notin found
    BY <1>5, <1>6
  <2>2. /\ \A s : s[1] = k => (s \in (rows \ J.delRows) \cup J.insRows
                                 <=> s \in (rows \ j.delRows) \cup j.insRows)
        /\ \A x : x[1][1] = k => (x \in (rrs \ J.delRRs) \cup J.insRRs
                                    <=> x \in (rrs \ j.delRRs) \cup j.insRRs)
    BY <1>7, <2>1
  <2> QED BY <2>2, ViewSame
<1>10. ASSUME j.alone, torn \cup stale = {} PROVE Exact(J)
  <2>1. Exact(j)
    BY <1>10, LonelyFacts
  <2>2. i \in Empties(j.data) /\ j.picked = RRsOf(rrs, r)
    BY <1>2, <2>1 DEF Exact, InHand
  <2>3. r \in rows /\ r \in MyRows(w) /\ \A s \in rows \cup MyRows(w) : s[1] = i => s = r
    BY <1>2, <2>1, HeldView DEF Instances
  <2>4. found = {r} /\ L = j.lost
    BY <1>6, <2>3
  <2>5. View(J, i) = {}
    <3> SUFFICES ASSUME NEW c \in View(J, i) PROVE FALSE
      OBVIOUS
    <3>1. PICK x : x[1] \in (rows \ J.delRows) \cup J.insRows /\ x[1][1] = i
      BY ViewElement DEF View
    <3>2. x[1] \in MyRows(w) /\ x[1] = r
      BY <1>7, <2>3, <3>1 DEF MyRows
    <3>3. r \notin j.insRows
      BY <1>2, <1>5, Unwritten DEF Statements
    <3> QED BY <1>7, <2>4, <3>1, <3>2, <3>3
  <2>6. Target(j, i) = {}
    BY <1>4, <2>2, KeepAssumption DEF Target, Empties
  <2>7. \A x \in rrs : x[1] \in J.delRows => x \in J.delRRs
    <3>1. \A x \in rrs : x[1] = r => x \in j.picked
      BY <2>2 DEF RRsOf
    <3>2. \A x \in rrs : x[1] \in j.delRows => x \in j.delRRs
      BY <1>2, <2>1 DEF Exact, Done
    <3> QED BY <1>6, <1>7, <2>4, <3>1, <3>2
  <2>8. Done(J)
    <3>1. Done(j)
      BY <1>2, <2>1 DEF Exact
    <3>2. \A s \in rows : s[1] = i => s \in J.delRows
      BY <1>7, <2>3, <2>4
    <3>3. j.delRows \subseteq J.delRows /\ J.insRows = j.insRows /\ J.data = j.data
      BY <1>7
    <3>4. \A k \in Ahead(j) : k # i => k \in Ahead(J)
      BY <1>8
    <3> HIDE DEF i
    <3> QED BY <1>9, <2>5, <2>6, <2>7, <3>1, <3>2, <3>3, <3>4, DoneStep
  <2>9. InHand(J)
    BY <1>7 DEF InHand, Statements
  <2> QED BY <1>2, <1>7, <2>1, <2>4, <2>8, <2>9 DEF Exact
<1> QED BY <1>2, <1>7, <1>10, AloneGoes

\* Records that are inserted appear in the item of their row, and nowhere else.
Inserts(j, J, row, X) ==
  /\ \A x \in X : x[1] = row
  /\ J.delRows = j.delRows /\ J.delRRs = j.delRRs /\ J.insRRs = j.insRRs \cup X
  /\ j.insRows \subseteq J.insRows /\ J.insRows \subseteq j.insRows \cup {row}
  /\ row \in (rows \ J.delRows) \cup J.insRows
  /\ \/ row \in (rows \ j.delRows) \cup j.insRows
     \/ \A x \in (rrs \ j.delRRs) \cup j.insRRs : x[1] # row

LEMMA InsertedView ==
  ASSUME NEW j, NEW J, NEW row, NEW X, Inserts(j, J, row, X)
  PROVE  /\ \A k : k # row[1] => View(J, k) = View(j, k)
         /\ View(J, row[1]) = View(j, row[1]) \cup Contents(X)
<1> USE DEF Inserts
<1>1. ASSUME NEW k, k # row[1] PROVE View(J, k) = View(j, k)
  BY <1>1, ViewSame
<1> DEFINE i == row[1]
<1>2. ASSUME NEW c \in View(J, i) PROVE c \in View(j, i) \cup Contents(X)
  <2>1. PICK x \in (rrs \ J.delRRs) \cup J.insRRs :
          x[1] \in (rows \ J.delRows) \cup J.insRows /\ x[1][1] = i /\ x[2] = c
    BY ViewElement DEF View
  <2>2. CASE x \in X
    BY <2>1, <2>2 DEF Contents
  <2>3. CASE x \notin X
    <3>1. x \in (rrs \ j.delRRs) \cup j.insRRs
      BY <2>1, <2>3
    <3>2. x[1] \in (rows \ j.delRows) \cup j.insRows
      BY <2>1, <3>1
    <3>3. c \in View(j, i)
      BY <2>1, <3>1, <3>2, ViewElement DEF View
    <3> QED BY <3>3
  <2> QED BY <2>2, <2>3
<1>3. ASSUME NEW c \in View(j, i) PROVE c \in View(J, i)
  <2>1. PICK x \in (rrs \ j.delRRs) \cup j.insRRs :
          x[1] \in (rows \ j.delRows) \cup j.insRows /\ x[1][1] = i /\ x[2] = c
    BY <1>3, ViewElement DEF View
  <2>2. x \in (rrs \ J.delRRs) \cup J.insRRs /\ x[1] \in (rows \ J.delRows) \cup J.insRows
    BY <2>1
  <2> QED BY <2>1, <2>2, ViewElement DEF View
<1>4. ASSUME NEW c \in Contents(X) PROVE c \in View(J, i)
  <2>1. PICK x \in X : x[2] = c
    BY <1>4 DEF Contents
  <2>2. x \in (rrs \ J.delRRs) \cup J.insRRs /\ x[1] \in (rows \ J.delRows) \cup J.insRows
        /\ x[1][1] = i
    BY <2>1
  <2> QED BY <2>1, <2>2, ViewElement DEF View
<1>5. /\ View(J, i) \subseteq View(j, i) \cup Contents(X)
      /\ View(j, i) \cup Contents(X) \subseteq View(J, i)
  BY <1>2, <1>3, <1>4
<1> QED BY <1>1, <1>5

Inserted(row, n, C) == {<<row, c, n>> : c \in C}
LEMMA ContentsOf ==
  ASSUME NEW row, NEW n, NEW C
  PROVE  Contents(Inserted(row, n, C)) = C /\ \A x \in Inserted(row, n, C) : x[1] = row
<1> DEFINE X == Inserted(row, n, C)
<1>1. ASSUME NEW c \in Contents(X) PROVE c \in C
  <2>1. PICK x \in X : x[2] = c
    BY <1>1 DEF Contents
  <2>2. PICK d \in C : x = <<row, d, n>>
    BY <2>1 DEF Inserted
  <2> QED BY <2>1, <2>2
<1>2. ASSUME NEW c \in C PROVE c \in Contents(X)
  <2>1. <<row, c, n>> \in X /\ <<row, c, n>>[2] = c
    BY <1>2 DEF Inserted
  <2> QED BY <2>1 DEF Contents
<1>3. Contents(X) \subseteq C /\ C \subseteq Contents(X)
  BY <1>1, <1>2
<1> QED BY <1>3 DEF Inserted

LEMMA AloneCreate ==
  ASSUME IInv, AloneInv, NEW w \in Worker, Create(w)
  PROVE  AloneInv' /\ job'[w].stage # "idle"
<1> DEFINE j == job[w]
           i == j.cur
           row == <<i, j.num>>
           X == {<<row, c, j.num>> : c \in New(w)}
           J == [j EXCEPT !.stage = "next", !.insRows = @ \cup {row}, !.locked = @ \cup {row},
                          !.insRRs = @ \cup X, !.adds = @ \cup {i}, !.mods = @ \cup {i}]
<1>1. /\ j.stage = "create" /\ Free(w) /\ New(w) # Keep /\ ~Forbids(w, i)
      /\ job' = [job EXCEPT ![w] = J]
      /\ UNCHANGED <<dbVars, dns, served, torn, stale>>
  BY DEF Create
<1>2. j \in JobType /\ JobOK(j)
  BY JobFacts
<1>3. i \in DOMAIN j.data /\ New(w) = j.data[i] /\ i \in Item /\ i \notin j.todo
  BY <1>1, <1>2, Unwritten DEF JobOK, Ordered, Statements, New
<1>4. row[1] = i /\ (\A x \in X : x[1] = row) /\ Contents(X) = New(w)
  <2>1. X = Inserted(row, j.num, New(w))
    BY DEF Inserted
  <2> HIDE DEF X
  <2> QED BY <2>1, ContentsOf
<1>5. \A v \in Worker \ {w} : ~InsertWaits(i, v)
  BY <1>1 DEF Free, Waits
<1> HIDE DEF X, row
<1>6. /\ J.stage = "next" /\ J.todo = j.todo /\ J.data = j.data /\ J.inst = j.inst
      /\ J.kind = j.kind /\ J.seen = j.seen /\ J.alone = j.alone
      /\ J.delRows = j.delRows /\ J.delRRs = j.delRRs /\ J.lost = j.lost
      /\ J.insRows = j.insRows \cup {row} /\ J.insRRs = j.insRRs \cup X
  BY <1>2 DEF JobType
<1> HIDE DEF J
<1>7. Ahead(J) = j.todo /\ Ahead(j) = j.todo \cup {i} /\ i \notin Ahead(J) /\ ~Between(j)
  BY <1>1, <1>3, <1>6 DEF Ahead, Statements, Between
<1>8. /\ \A r : r[1] = i => (r \in MyRows(w) <=> r \in rows)
      /\ \A x : x[1][1] = i => (x \in MyRRs(w) <=> x \in rrs)
      /\ View(j, i) = Stored(i)
  BY <1>7, AheadView
<1>9. \A r \in rows : r[1] # i
  BY <1>1, <1>8 DEF Forbids
<1>10. /\ \A k : k # i => View(J, k) = View(j, k)
       /\ View(J, i) = j.data[i]
  <2>1. \A x \in (rrs \ j.delRRs) \cup j.insRRs : x[1] # row
    BY <1>4, <1>8, <1>9 DEF MyRRs, IInv, Keys
  <2>2. /\ \A k : k # row[1] => View(J, k) = View(j, k)
        /\ View(J, row[1]) = View(j, row[1]) \cup Contents(X)
    <3>1. Inserts(j, J, row, X)
      BY <1>4, <1>6, <2>1 DEF Inserts
    <3> QED BY <3>1, InsertedView
  <2>3. \A k : k # i => View(J, k) = View(j, k)
    BY <1>4, <2>2
  <2>4. View(j, i) = {}
    BY <1>8, <1>9 DEF Stored, Contents, RowsFor
  <2>5. View(J, i) = View(j, i) \cup Contents(X)
    BY <1>4, <2>2
  <2> QED BY <1>3, <1>4, <2>3, <2>4, <2>5
<1>11. ASSUME j.alone, torn \cup stale = {} PROVE Exact(J)
  <2>1. Exact(j)
    BY <1>11, LonelyFacts
  <2>2. i \notin Empties(j.data)
    BY <1>1, <2>1 DEF Exact, InHand, Statements
  <2>3. Target(j, i) = j.data[i]
    BY <1>1, <1>3 DEF Target
  <2>4. Done(J)
    <3>1. Done(j) /\ \A x \in rrs : x[1] \in J.delRows => x \in J.delRRs
      BY <1>1, <1>6, <2>1 DEF Exact, Done
    <3>2. \A r \in J.insRows : r \in j.insRows \/ r[1] \in DOMAIN j.data \ Empties(j.data)
      BY <1>3, <1>4, <1>6, <2>2
    <3>3. j.delRows \subseteq J.delRows /\ J.data = j.data
      BY <1>6
    <3>4. \A k \in Ahead(j) : k # i => k \in Ahead(J)
      BY <1>7
    <3> HIDE DEF i
    <3> QED BY <1>10, <2>2, <2>3, <3>1, <3>2, <3>3, <3>4, DoneStep
  <2>5. InHand(J)
    BY <1>6 DEF InHand, Statements
  <2> QED BY <1>1, <1>6, <2>1, <2>4, <2>5 DEF Exact
<1>12. Compatible'
  <2>1. /\ rows' = rows /\ J.insRows \subseteq job[w].insRows \cup {row}
        /\ J.delRows = job[w].delRows
    BY <1>1, <1>6 DEF dbVars
  <2>2. Compatible
    BY DEF AloneInv
  <2>3. ~Forbids(w, row[1]) /\ \A v \in Worker \ {w} : ~InsertWaits(row[1], v)
    BY <1>1, <1>4, <1>5
  <2>4. job' = [job EXCEPT ![w] = J]
    BY <1>1
  <2> QED BY <2>1, <2>2, <2>3, <2>4, CompatibleInserts
<1>13. /\ rows' = rows /\ rrs' = rrs /\ torn \subseteq torn' /\ stale \subseteq stale'
       /\ Acceptable(dns)'
  BY <1>1 DEF dbVars, AloneInv, Acceptable
<1> QED BY <1>1, <1>6, <1>11, <1>12, <1>13, AloneMoves

\* A lonely request finds its row, so that it writes what it lacks.
LEMMA SavedExactly ==
  ASSUME IInv, NEW w \in Worker, job[w].stage = "save", Exact(job[w]),
         NEW X, X = Inserted(Held(job[w]), job[w].num, job[w].fresh),
         NEW J, J.stage = "next", J.todo = job[w].todo, J.inst = job[w].inst,
         J.data = job[w].data, J.kind = job[w].kind, J.seen = job[w].seen,
         J.insRows = job[w].insRows, J.delRows = job[w].delRows,
         J.insRRs = job[w].insRRs \cup X, J.delRRs = job[w].delRRs, J.lost = job[w].lost
  PROVE  Exact(J)
<1> DEFINE j == job[w]
           i == j.cur
           row == Held(j)
<1>1. row \in MyRows(w) /\ row[1] = i
  BY HeldView, HeldFacts DEF Instances
<1>2. (\A x \in X : x[1] = row) /\ Contents(X) = j.fresh
  BY ContentsOf
<1>3. Ahead(J) = j.todo /\ Ahead(j) = j.todo \cup {i} /\ i \notin Ahead(J)
  BY Unwritten DEF Ahead, Statements
<1>4. row \in (rows \ J.delRows) \cup J.insRows /\ row \in (rows \ j.delRows) \cup j.insRows
  BY <1>1 DEF MyRows
<1>5. /\ \A k : k # i => View(J, k) = View(j, k)
      /\ View(J, i) = View(j, i) \cup j.fresh
  <2>1. Inserts(j, J, row, X)
    BY <1>2, <1>4 DEF Inserts
  <2>2. /\ \A k : k # row[1] => View(J, k) = View(j, k)
        /\ View(J, row[1]) = View(j, row[1]) \cup Contents(X)
    BY <2>1, InsertedView
  <2> QED BY <1>1, <1>2, <2>2
<1>6. i \notin Empties(j.data) /\ View(J, i) = Target(j, i)
  BY <1>5 DEF Exact, InHand, Statements
<1>7. Done(J)
  <2>1. Done(j) /\ \A x \in rrs : x[1] \in J.delRows => x \in J.delRRs
    BY DEF Exact, Done
  <2>2. j.delRows \subseteq J.delRows /\ J.data = j.data /\ J.insRows = j.insRows
    OBVIOUS
  <2>3. \A k \in Ahead(j) : k # i => k \in Ahead(J)
    BY <1>3
  <2> HIDE DEF i
  <2> QED BY <1>5, <1>6, <2>1, <2>2, <2>3, DoneStep
<1>8. InHand(J)
  BY DEF InHand, Statements
<1> QED BY <1>7, <1>8 DEF Exact

LEMMA AloneSave ==
  ASSUME IInv, AloneInv, NEW w \in Worker, Save(w)
  PROVE  AloneInv' /\ job'[w].stage # "idle"
<1> DEFINE j == job[w]
           i == j.cur
           row == CurRow(w)
           found == row \in MyRows(w)
           X == {<<row, c, j.num>> : c \in j.fresh}
<1>1. /\ j.stage = "save" /\ Free(w) /\ UNCHANGED <<dbVars, dns, served, torn, stale>>
  BY Zenon DEF Save
<1>2. j \in JobType
  BY JobFacts
<1>3. row = Held(j) /\ row[1] = i
  BY <1>1, HeldFacts DEF Instances
<1>4. X = Inserted(Held(j), j.num, j.fresh)
  BY <1>3 DEF Inserted
<1>5. j.alone /\ torn \cup stale = {} => Exact(j) /\ found
  BY <1>1, <1>3, LonelyFacts, HeldView DEF Instances
<1>6. ~found => \A v \in Worker \ {w} : ~InsertWaits(i, v)
  BY <1>1 DEF Free, Waits
<1>7. CASE \E changesTTL \in BOOLEAN :
             /\ X # {} \/ changesTTL
             /\ found \/ (~Forbids(w, i) /\ i \notin j.mods)
             /\ job' = [job EXCEPT ![w] = [j EXCEPT !.stage = "next",
                          !.insRRs = @ \cup X, !.locked = @ \cup {row},
                          !.insRows = IF found THEN @ ELSE @ \cup {row},
                          !.adds = IF found THEN @ ELSE @ \cup {i},
                          !.mods = IF found \/ (X # {} /\ changesTTL)
                                        THEN @ \cup {i} ELSE @]]
  <2>1. PICK ttl \in BOOLEAN :
             /\ found \/ ~Forbids(w, i)
             /\ job' = [job EXCEPT ![w] = [j EXCEPT !.stage = "next",
                          !.insRRs = @ \cup X, !.locked = @ \cup {row},
                          !.insRows = IF found THEN @ ELSE @ \cup {row},
                          !.adds = IF found THEN @ ELSE @ \cup {i},
                          !.mods = IF found \/ (X # {} /\ ttl)
                                        THEN @ \cup {i} ELSE @]]
    BY <1>7, Zenon
  <2> DEFINE R == IF found THEN j.insRows ELSE j.insRows \cup {row}
             A == IF found THEN j.adds ELSE j.adds \cup {i}
             M == IF found \/ (X # {} /\ ttl) THEN j.mods \cup {i} ELSE j.mods
             J == [j EXCEPT !.stage = "next", !.insRRs = @ \cup X, !.locked = @ \cup {row},
                            !.insRows = R, !.adds = A, !.mods = M]
  <2>2. job' = [job EXCEPT ![w] = J]
    BY <2>1
  <2>3. R \subseteq j.insRows \cup {row} /\ (found => R = j.insRows)
    OBVIOUS
  <2> HIDE DEF R, A, M, X, row, found
  <2>4. /\ J.stage = "next" /\ J.todo = j.todo /\ J.data = j.data /\ J.inst = j.inst
        /\ J.kind = j.kind /\ J.seen = j.seen /\ J.alone = j.alone
        /\ J.delRows = j.delRows /\ J.delRRs = j.delRRs /\ J.lost = j.lost
        /\ J.insRows = R /\ J.insRRs = j.insRRs \cup X
    BY <1>2 DEF JobType
  <2> HIDE DEF J
  <2>5. j.alone /\ torn \cup stale = {} => Exact(J)
    BY <1>1, <1>4, <1>5, <2>3, <2>4, SavedExactly
  <2>6. CASE found
    <3>1. J.insRows = job[w].insRows /\ job[w].delRows \subseteq J.delRows
      BY <2>3, <2>4, <2>6
    <3> QED BY <1>1, <2>2, <2>4, <2>5, <3>1, AloneGoes
  <2>7. CASE ~found
    <3>1. ~Forbids(w, row[1]) /\ \A v \in Worker \ {w} : ~InsertWaits(row[1], v)
      BY <1>3, <1>6, <2>1, <2>7
    <3>2. /\ rows' = rows /\ rrs' = rrs /\ torn \subseteq torn' /\ stale \subseteq stale'
          /\ Acceptable(dns)' /\ Compatible
      BY <1>1 DEF dbVars, AloneInv, Acceptable
    <3>3. J.insRows \subseteq job[w].insRows \cup {row} /\ J.delRows = job[w].delRows
      BY <2>3, <2>4
    <3>4. Compatible'
      BY <2>2, <3>1, <3>2, <3>3, CompatibleInserts
    <3> QED BY <1>1, <2>2, <2>4, <2>5, <3>2, <3>4, AloneMoves
  <2> QED BY <2>6, <2>7
<1>8. CASE X = {} /\ job' = [job EXCEPT ![w] = [j EXCEPT !.stage = "next",
                     !.locked = IF found THEN @ \cup {row} ELSE @,
                     !.lost = IF found THEN @ ELSE @ \cup {i}]]
  <2> DEFINE L == IF found THEN j.locked \cup {row} ELSE j.locked
             O == IF found THEN j.lost ELSE j.lost \cup {i}
             J == [j EXCEPT !.stage = "next", !.locked = L, !.lost = O]
  <2>1. job' = [job EXCEPT ![w] = J] /\ X = {}
    BY <1>8
  <2>2. found => O = j.lost
    OBVIOUS
  <2> HIDE DEF L, O, X, row, found
  <2>3. /\ J.stage = "next" /\ J.todo = j.todo /\ J.data = j.data /\ J.inst = j.inst
        /\ J.kind = j.kind /\ J.seen = j.seen /\ J.alone = j.alone
        /\ J.delRows = j.delRows /\ J.delRRs = j.delRRs /\ J.lost = O
        /\ J.insRows = j.insRows /\ J.insRRs = j.insRRs
    BY <1>2 DEF JobType
  <2> HIDE DEF J
  <2>4. J.insRRs = j.insRRs \cup X
    BY <2>1, <2>3
  <2>5. j.alone /\ torn \cup stale = {} => Exact(J)
    BY <1>1, <1>4, <1>5, <2>2, <2>3, <2>4, SavedExactly
  <2> QED BY <1>1, <2>1, <2>3, <2>5, AloneGoes
<1> QED BY <1>7, <1>8, Zenon DEF Save

-----------------------------------------------------------------------------
(* The end of a lonely request                                              *)

LEMMA AloneCompute ==
  ASSUME IInv, AloneInv, NEW w \in Worker, Compute(w)
  PROVE  AloneInv' /\ job'[w].stage # "idle"
<1> DEFINE j == job[w]
           S == [i \in ToSend(w) \cup j.dels |-> IF i \in j.dels THEN {} ELSE Mine(w, i)]
           J == [j EXCEPT !.stage = "send", !.sent = S]
<1>1. /\ j.stage = "next" /\ job' = [job EXCEPT ![w] = J]
      /\ UNCHANGED <<dbVars, dns, served, torn, stale>>
  BY DEF Compute
<1>2. j \in JobType
  BY JobFacts
<1> HIDE DEF S
<1>3. /\ J.stage = "send" /\ J.cur = j.cur /\ J.todo = j.todo /\ J.inst = j.inst
      /\ J.data = j.data /\ J.kind = j.kind /\ J.seen = j.seen /\ J.alone = j.alone
      /\ J.insRows = j.insRows /\ J.delRows = j.delRows
      /\ J.insRRs = j.insRRs /\ J.delRRs = j.delRRs /\ J.lost = j.lost
  BY <1>2 DEF JobType
<1> HIDE DEF J
<1>4. Ahead(J) = Ahead(j) /\ \A i : View(J, i) = View(j, i) /\ Target(J, i) = Target(j, i)
  BY <1>1, <1>3 DEF Ahead, Statements, View, Target
<1>5. ASSUME j.alone, torn \cup stale = {} PROVE Exact(J)
  <2>1. Exact(j)
    BY <1>5, LonelyFacts
  <2>2. Done(J) /\ InHand(J)
    BY <1>1, <1>3, <1>4, <2>1 DEF Exact, Done, InHand, Statements
  <2> QED BY <1>1, <1>3, <2>1, <2>2 DEF Exact
<1> QED BY <1>1, <1>3, <1>5, AloneGoes

\* Nothing is left to do: the request sees what its payload says.
LEMMA AllDone ==
  ASSUME IInv, NEW w \in Worker, Exact(job[w]), job[w].stage \in {"next"} \cup Published,
         job[w].todo = {}
  PROVE  /\ Ahead(job[w]) = {} /\ \A i \in Item : View(job[w], i) = Target(job[w], i)
         /\ \A x \in rrs : x[1] \in job[w].delRows => x \in job[w].delRRs
  BY DEF Exact, Done, Ahead, Statements, Published

LEMMA TargetAcceptable ==
  ASSUME IInv, AloneInv, NEW j \in JobType, Valid(j.kind, j.data),
         \A i \in Item : dns[i] = Stored(i),
         NEW zone, \A i \in Item : zone[i] = Target(j, i)
  PROVE  Acceptable(zone)
<1>1. Compatible /\ Acceptable(dns)
  BY DEF AloneInv
<1>2. Singletons(j.data) /\ NoConflicts(j.data) /\ DOMAIN j.data \subseteq Item
  BY <1>1, ValidFacts, PayloadValue
<1>3. ASSUME NEW i \in Exclusive PROVE Cardinality(zone[i]) <= 1
  <2>1. i \in Item
    BY ItemAssumption
  <2>2. CASE i \in DOMAIN j.data /\ j.data[i] # Keep
    <3>1. zone[i] = j.data[i]
      BY <2>1, <2>2 DEF Target
    <3> QED BY <1>2, <2>2, <3>1 DEF Singletons
  <2>3. CASE ~(i \in DOMAIN j.data /\ j.data[i] # Keep)
    <3>1. zone[i] = dns[i]
      BY <2>1, <2>3 DEF Target
    <3> QED BY <1>1, <3>1 DEF Acceptable
  <2> QED BY <2>2, <2>3
<1>4. ASSUME NEW i \in Item, Stored(i) # {} PROVE i \in Known
  BY <1>4 DEF Stored, Contents, RowsFor, Known
<1>5. ASSUME NEW i \in Item, NEW k \in Item, zone[i] # {}, zone[k] # {}
      PROVE  ~Conflicting(i, k)
  <2> DEFINE Set(l) == l \in DOMAIN j.data /\ j.data[l] # Keep
  <2>1. ASSUME NEW l \in Item, zone[l] # {}, Set(l) PROVE l \in DOMAIN j.data \ Empties(j.data)
    BY <2>1 DEF Target, Empties
  <2>2. ASSUME NEW l \in Item, zone[l] # {}, ~Set(l) PROVE l \in Known \ Empties(j.data)
    <3>1. Stored(l) # {}
      BY <2>2 DEF Target
    <3>2. Keep # {}
      BY KeepAssumption
    <3> QED BY <1>4, <2>2, <3>1, <3>2 DEF Empties
  <2>3. CASE Set(i)
    BY <1>2, <1>5, <2>1, <2>2, <2>3 DEF NoConflicts
  <2>4. CASE ~Set(i) /\ Set(k)
    BY <1>2, <1>5, <2>1, <2>2, <2>4, Exclusions DEF NoConflicts
  <2>5. CASE ~Set(i) /\ ~Set(k)
    <3>1. i \in Known /\ k \in Known
      BY <1>5, <2>2, <2>5
    <3> QED BY <1>1, <3>1 DEF Compatible, Known
  <2> QED BY <2>3, <2>4, <2>5
<1> QED BY <1>3, <1>5 DEF Acceptable

\* An item that a request does not send it sees as it is stored.
LEMMA UnsentKept ==
  ASSUME IInv, NEW w \in Worker, job[w].stage = "send", NEW i \in Item \ DOMAIN job[w].sent
  PROVE  View(job[w], i) = Stored(i)
<1> DEFINE j == job[w]
<1>1. JobOK(j) /\ OnRows(j) /\ ~Between(j)
  BY JobFacts DEF Between
<1>2. /\ \A r \in j.delRows : r[1] # i
      /\ \A x \in j.delRRs : x[1][1] # i
  BY <1>1 DEF JobOK, Tracked, Published
<1>3. CASE i \notin j.adds
  <2>1. \A r \in j.insRows : r[1] # i
    BY <1>1, <1>3 DEF JobOK, Tracked
  <2>2. \A x \in j.insRRs : x[1][1] # i
    BY <1>1, <1>3 DEF JobOK, Tracked, Published
  <2>3. /\ \A r : r[1] = i => (r \in MyRows(w) <=> r \in rows)
        /\ \A x : x[1][1] = i => (x \in MyRRs(w) <=> x \in rrs)
    BY <1>2, <2>1, <2>2 DEF MyRows, MyRRs
  <2>4. ViewOf(MyRows(w), MyRRs(w), i) = ViewOf(rows, rrs, i)
    BY <2>3, SameView
  <2> QED BY <2>4, Views DEF View, MyRows, MyRRs
<1>4. CASE i \in j.adds /\ i \notin j.lost
  <2>1. View(j, i) = {}
    BY <1>1, <1>4 DEF OnRows, Published
  <2>2. ASSUME NEW c \in Stored(i) PROVE FALSE
    <3>1. PICK x \in rrs : x[1] \in rows /\ x[1][1] = i /\ x[2] = c
      BY <2>2, ViewElement, Views
    <3>2. x \in (rrs \ j.delRRs) \cup j.insRRs /\ x[1] \in (rows \ j.delRows) \cup j.insRows
      BY <1>2, <3>1
    <3>3. c \in View(j, i)
      BY <3>1, <3>2, ViewElement DEF View
    <3> QED BY <2>1, <3>3
  <2> QED BY <2>1, <2>2
<1>5. CASE i \in j.lost
  <2>1. \A r \in j.insRows : r[1] # i
    BY <1>1, <1>5 DEF JobOK, Locked
  <2>2. \A x \in j.insRRs : x[1][1] # i
    BY <1>1, <1>5 DEF JobOK, Locked
  <2>3. /\ \A r : r[1] = i => (r \in MyRows(w) <=> r \in rows)
        /\ \A x : x[1][1] = i => (x \in MyRRs(w) <=> x \in rrs)
    BY <1>2, <2>1, <2>2 DEF MyRows, MyRRs
  <2>4. ViewOf(MyRows(w), MyRRs(w), i) = ViewOf(rows, rrs, i)
    BY <2>3, SameView
  <2> QED BY <2>4, Views DEF View, MyRows, MyRRs
<1> QED BY <1>3, <1>4, <1>5

\* What a lonely request sends is its payload on top of what nslord has.
LEMMA SentExactly ==
  ASSUME IInv, AloneInv, NEW w \in Worker, job[w].stage = "send", job[w].alone,
         torn \cup stale = {}
  PROVE  Acceptable(After(w)) /\ job[w].lost = {}
<1> DEFINE j == job[w]
<1>1. /\ Exact(j) /\ j \in JobType /\ JobOK(j) /\ OnRows(j)
      /\ \A i \in Item : dns[i] = Stored(i)
  BY LonelyFacts, JobFacts
<1>2. j.todo = {} /\ j.lost = {} /\ Valid(j.kind, j.data)
  BY <1>1 DEF JobOK, Ordered, Published, Exact
<1>3. \A i \in Item : View(j, i) = Target(j, i)
  BY <1>1, <1>2, AllDone DEF Published
<1>4. ASSUME NEW i \in Item PROVE After(w)[i] = Target(j, i)
  <2>1. CASE i \in DOMAIN j.sent
    <3>1. j.sent[i] = View(j, i)
      BY <1>1, <1>2, <2>1 DEF OnRows, Published
    <3> QED BY <1>3, <2>1, <3>1 DEF After
  <2>2. CASE i \notin DOMAIN j.sent
    <3>1. View(j, i) = Stored(i)
      BY <2>2, UnsentKept
    <3> QED BY <1>1, <1>3, <2>2, <3>1 DEF After
  <2> QED BY <2>1, <2>2
<1> QED BY <1>1, <1>2, <1>4, TargetAcceptable

LEMMA AloneSend ==
  ASSUME IInv, AloneInv, NEW w \in Worker, Send(w)
  PROVE  AloneInv' /\ job'[w].stage # "idle"
<1> DEFINE j == job[w]
           J == [j EXCEPT !.stage = "commit"]
<1>1. /\ j.stage = "send" /\ job' = [job EXCEPT ![w] = J] /\ dns' = After(w)
      /\ DOMAIN j.sent = {} \/ Acceptable(After(w))
      /\ stale \subseteq stale' /\ torn' = torn /\ rows' = rows /\ rrs' = rrs
  BY DEF Send, dbVars
<1>2. j \in JobType
  BY JobFacts
<1>3. /\ J.stage = "commit" /\ J.cur = j.cur /\ J.todo = j.todo /\ J.inst = j.inst
      /\ J.data = j.data /\ J.kind = j.kind /\ J.seen = j.seen /\ J.alone = j.alone
      /\ J.insRows = j.insRows /\ J.delRows = j.delRows
      /\ J.insRRs = j.insRRs /\ J.delRRs = j.delRRs /\ J.lost = j.lost
  BY <1>2 DEF JobType
<1> HIDE DEF J
<1>4. Ahead(J) = Ahead(j) /\ \A i : View(J, i) = View(j, i) /\ Target(J, i) = Target(j, i)
  BY <1>1, <1>3 DEF Ahead, Statements, View, Target
<1>5. ASSUME j.alone, torn \cup stale = {} PROVE Exact(J)
  <2>1. Exact(j)
    BY <1>5, LonelyFacts
  <2>2. Done(J) /\ InHand(J)
    BY <1>1, <1>3, <1>4, <2>1 DEF Exact, Done, InHand, Statements
  <2> QED BY <1>1, <1>3, <2>1, <2>2 DEF Exact
<1>6. Acceptable(dns)'
  <2>1. CASE DOMAIN j.sent = {}
    <3>1. \A i \in Item : dns'[i] = dns[i]
      BY <1>1, <2>1 DEF After
    <3>2. Acceptable(dns)
      BY DEF AloneInv
    <3> QED BY <3>1, <3>2, ItemAssumption DEF Acceptable
  <2>2. CASE Acceptable(After(w))
    BY <1>1, <2>2 DEF Acceptable
  <2> QED BY <1>1, <2>1, <2>2
<1>7. Compatible'
  <2>1. job'[w] = J /\ \A v \in Worker \ {w} : job'[v] = job[v]
    BY <1>1 DEF IInv, Types
  <2> QED BY <1>1, <1>3, <2>1, CompatibleShrinks DEF AloneInv
<1>8. torn \subseteq torn' /\ job[w].stage # "idle" /\ J.stage # "idle"
  BY <1>1, <1>3
<1> QED BY <1>1, <1>3, <1>5, <1>6, <1>7, <1>8, AloneMoves

LEMMA AloneCommit ==
  ASSUME IInv, AloneInv, NEW w \in Worker, Commit(w)
  PROVE  AloneInv'
<1>1. /\ job' = [job EXCEPT ![w] = Idle] /\ job[w].stage # "idle" /\ dns' = dns
  BY DEF Commit
<1>2. Acceptable(dns)'
  BY <1>1 DEF AloneInv, Acceptable
<1>3. Compatible'
  BY CompatibleCommits DEF AloneInv
<1> QED BY <1>1, <1>2, <1>3, AloneEnds

LEMMA AloneAbort ==
  ASSUME IInv, AloneInv, NEW w \in Worker, Abort(w), job[w].stage # "idle"
  PROVE  AloneInv'
<1>1. job' = [job EXCEPT ![w] = Idle] /\ dns' = dns /\ rows' = rows
  BY DEF Abort, dbVars
<1>2. Acceptable(dns)'
  BY <1>1 DEF AloneInv, Acceptable
<1>3. job'[w] = Idle /\ \A v \in Worker \ {w} : job'[v] = job[v]
  BY <1>1 DEF IInv, Types
<1>4. Idle.insRows = {}
  BY DEF Idle
<1>5. Compatible'
  BY <1>1, <1>3, <1>4, CompatibleShrinks DEF AloneInv
<1> QED BY <1>1, <1>2, <1>5, AloneEnds

\* A lonely request is not refused, neither by the database nor by pdns.
LEMMA NeverRaises ==
  ASSUME IInv, AloneInv, NEW w \in Worker, job[w].alone, torn \cup stale = {}
  PROVE  ~BodyRaises(w)
<1> DEFINE j == job[w]
           i == j.cur
<1> SUFFICES ASSUME BodyRaises(w) PROVE FALSE
  OBVIOUS
<1>1. /\ Exact(j) /\ JobOK(j) /\ j \in JobType /\ Compatible
  BY LonelyFacts, JobFacts DEF AloneInv
<1>2. CASE j.stage = "create"
  <2>1. New(w) = Keep \/ Forbids(w, i)
    BY <1>2 DEF BodyRaises
  <2>2. /\ Valid(j.kind, j.data) /\ Done(j) /\ i \notin Known /\ i \notin Empties(j.data)
        /\ j.todo \cap Empties(j.data) = {}
    BY <1>1, <1>2 DEF Exact, InHand, Statements
  <2>3. i \in DOMAIN j.data /\ i \notin j.todo /\ Ahead(j) = j.todo \cup {i}
    BY <1>1, <1>2 DEF JobOK, Ordered, Statements, Ahead
  <2>4. NoConflicts(j.data) /\ j.data[i] # Keep
    BY <1>1, <2>2, <2>3, ValidFacts
  <2>5. PICK r \in MyRows(w) : r[1] = i \/ Conflicting(r[1], i)
    BY <2>1, <2>4 DEF Forbids, New
  <2>6. CASE r \in rows \ j.delRows
    <3>1. r[1] \in Known /\ r[1] # i
      BY <2>2, <2>6 DEF Known
    <3>2. r[1] \notin Empties(j.data)
      BY <2>2, <2>3, <2>6, <3>1 DEF Done
    <3> QED BY <2>2, <2>3, <2>4, <2>5, <3>1, <3>2, Exclusions DEF NoConflicts
  <2>7. CASE r \in j.insRows
    <3>1. r[1] \in DOMAIN j.data \ Empties(j.data)
      BY <2>2, <2>7 DEF Done
    <3>2. r[1] # i
      BY <1>2, <2>7, Unwritten DEF Statements
    <3> QED BY <2>2, <2>3, <2>4, <2>5, <3>1, <3>2, Exclusions DEF NoConflicts
  <2> QED BY <2>5, <2>6, <2>7 DEF MyRows
<1>3. CASE j.stage = "save"
  <2>1. CurRow(w) = Held(j) /\ Held(j) \in MyRows(w)
        /\ Contents(RRsOf(MyRRs(w), Held(j))) = View(j, i)
    BY <1>1, <1>3, HeldView, Views DEF Instances
  <2>2. PICK x \in RRsOf(MyRRs(w), Held(j)) : x[2] \in j.fresh
    BY <1>3, <2>1 DEF BodyRaises
  <2>3. x[2] \in View(j, i)
    BY <2>1, <2>2 DEF Contents
  <2>4. j.fresh \cap View(j, i) = {}
    BY <1>1, <1>3 DEF Exact, InHand
  <2> QED BY <2>2, <2>3, <2>4
<1> QED BY <1>2, <1>3 DEF BodyRaises

LEMMA NeverFails ==
  ASSUME IInv, AloneInv, NEW w \in Worker, job[w].alone, torn \cup stale = {}
  PROVE  ~ComputeFails(w) /\ ~SendRefused(w) /\ ~CommitFails(w) /\ ~DeadlockVictim(w)
<1> DEFINE j == job[w]
<1>1. Exact(j) /\ JobOK(j) /\ OnRows(j) /\ ~Deadlocked(w)
  BY LonelyFacts, JobFacts
<1>2. ~ComputeFails(w)
  <2> SUFFICES ASSUME ComputeFails(w) PROVE FALSE
    OBVIOUS
  <2>1. j.stage = "next" /\ ~Between(j) /\ j.lost = {}
    BY <1>1 DEF ComputeFails, Between, Exact
  <2>2. PICK i \in ToSend(w) : RowsFor(MyRows(w), i) = {}
    BY DEF ComputeFails
  <2>3. i \in j.adds \cup j.mods /\ i \notin j.dels
    BY DEF ToSend
  <2>4. PICK r \in j.locked : r[1] = i
    BY <1>1, <2>1, <2>3 DEF JobOK, Tracked
  <2>5. r \notin j.delRows
    BY <1>1, <2>3, <2>4 DEF JobOK, Tracked
  <2>6. r \in MyRows(w)
    BY <1>1, <2>4, <2>5 DEF OnRows, MyRows
  <2> QED BY <2>2, <2>4, <2>6 DEF RowsFor
<1>3. ~SendRefused(w)
  BY SentExactly DEF SendRefused
<1>4. ~CommitFails(w)
  <2> SUFFICES ASSUME CommitFails(w) PROVE FALSE
    OBVIOUS
  <2>1. j.stage = "commit" /\ \E x \in MyRRs(w) : x[1] \in j.delRows
    BY DEF CommitFails, Dangling
  <2>2. \A x \in rrs : x[1] \in j.delRows => x \in j.delRRs
    BY <1>1, <2>1 DEF Exact, Done
  <2>3. \A x \in j.insRRs : x[1] \notin j.delRows
    BY <1>1 DEF JobOK, Locked
  <2> QED BY <2>1, <2>2, <2>3 DEF MyRRs
<1>5. ~DeadlockVictim(w)
  BY <1>1 DEF DeadlockVictim
<1> QED BY <1>2, <1>3, <1>4, <1>5

LEMMA AloneStep == IInv /\ IInv' /\ AloneInv /\ [Next]_vars => AloneInv'
<1> SUFFICES ASSUME IInv, AloneInv, [Next]_vars PROVE AloneInv'
  OBVIOUS
<1>1. CASE UNCHANGED vars
  <2>1. UNCHANGED <<rows, rrs, dns, job, served, torn, stale>>
    BY <1>1 DEF vars
  <2>2. Compatible' /\ Acceptable(dns)'
    BY <2>1 DEF AloneInv, Compatible, MyRows, Acceptable
  <2>3. ASSUME NEW w \in Worker PROVE Exact(job[w])' <=> Exact(job[w])
    <3>1. \A i : View(job[w], i)' = View(job[w], i) /\ Target(job[w], i)' = Target(job[w], i)
      BY <2>1 DEF View, Target, Stored
    <3>2. Done(job[w])' <=> Done(job[w])
      BY <2>1, <3>1 DEF Done, Ahead
    <3>3. InHand(job[w])' <=> InHand(job[w])
      BY <2>1, <3>1 DEF InHand, Held, RRsOf, Known, Stored
    <3>4. Valid(job[w].kind, job[w].data)' <=> Valid(job[w].kind, job[w].data)
      BY <2>1 DEF Valid, NoConflicts, Known
    <3> QED BY <2>1, <3>2, <3>3, <3>4 DEF Exact
  <2> QED BY <2>1, <2>2, <2>3 DEF AloneInv
<1>2. ASSUME NEW w \in Worker, Step(w) PROVE AloneInv'
  <2>1. CASE \/ BodyRaises(w) \/ ComputeFails(w) \/ SendRefused(w)
             \/ CommitFails(w) \/ DeadlockVictim(w)
    <3>1. Abort(w) /\ job[w].stage # "idle"
      BY <2>1, VictimWaits DEF BodyRaises, ComputeFails, SendRefused, CommitFails,
         DeadlockVictim
    <3> QED BY <3>1, AloneAbort
  <2> QED BY <1>2, <2>1, AloneBegin, AloneStartDelete, AloneStartCreate, AloneStartUpdate,
             AloneRemove, AloneCreate, AloneDrop, AloneCompare, AloneSave, AloneCompute,
             AloneSend, AloneCommit DEF Step
<1>3. ASSUME NEW w \in Worker, NEW kind \in Kind, NEW data \in Payloads, Accept(w, kind, data)
      PROVE  AloneInv'
  BY <1>3, AloneAccept
<1> QED BY <1>1, <1>2, <1>3 DEF Next

\* The step that ends a lonely request is its COMMIT.
LEMMA EndsExactly ==
  ASSUME IInv, AloneInv, [Next]_vars, NEW w \in Worker, job[w].alone, torn \cup stale = {},
         job'[w].stage = "idle", NEW i \in Item
  PROVE  Stored(i)' = Target(job[w], i)
<1> DEFINE j == job[w]
<1>1. j.stage # "idle" /\ \A v \in Worker \ {w} : job[v].stage = "idle"
  BY DEF AloneInv
<1>2. ~UNCHANGED vars
  BY <1>1 DEF vars
<1>3. ASSUME NEW v \in Worker, NEW kind \in Kind, NEW data \in Payloads, Accept(v, kind, data)
      PROVE  FALSE
  <2>1. v # w /\ job'[w] = [job[w] EXCEPT !.alone = FALSE] /\ job[w] \in JobType
    BY <1>1, <1>3 DEF Accept, MayAccept, IInv, Types
  <2>2. job'[w].stage = job[w].stage
    BY <2>1, AloneOnly
  <2> QED BY <1>1, <2>2
<1>4. ASSUME NEW v \in Worker, Step(v) PROVE v = w
  <2>1. job[v].stage # "idle"
    BY <1>4, VictimWaits DEF Step, Begin, StartDelete, StartCreate, StartUpdate, Remove, Create, Drop, Compare,
                Save, BodyRaises, Compute, ComputeFails, Send, SendRefused, Commit, CommitFails
  <2> QED BY <1>1, <2>1
<1>5. Step(w)
  BY <1>2, <1>3, <1>4 DEF Next
<1>6. Commit(w)
  <2>1. /\ ~BodyRaises(w) /\ ~ComputeFails(w) /\ ~SendRefused(w) /\ ~CommitFails(w)
        /\ ~DeadlockVictim(w)
    BY NeverRaises, NeverFails
  <2>2. ~(Begin(w) \/ StartDelete(w) \/ StartCreate(w) \/ StartUpdate(w) \/ Remove(w)
          \/ Create(w) \/ Drop(w) \/ Compare(w) \/ Save(w) \/ Compute(w) \/ Send(w))
    BY AloneBegin, AloneStartDelete, AloneStartCreate, AloneStartUpdate, AloneRemove, AloneCreate,
       AloneDrop, AloneCompare, AloneSave, AloneCompute, AloneSend
  <2> QED BY <1>5, <2>1, <2>2 DEF Step
<1>7. rows' = MyRows(w) /\ rrs' = MyRRs(w) /\ j.stage = "commit"
  BY <1>6 DEF Commit
<1>8. j.todo = {} /\ Exact(j)
  BY <1>7, JobFacts, LonelyFacts DEF JobOK, Ordered, Published
<1>9. View(j, i) = Target(j, i)
  BY <1>7, <1>8, AllDone DEF Published
<1>10. Stored(i)' = View(j, i)
  BY <1>7 DEF Stored, View, ViewOf, MyRows, MyRRs
<1> QED BY <1>9, <1>10

\* For any workers, types and payloads, whatever other requests do before and
\* after: a request that runs without another one, on data that agree with the
\* DNS, is refused by no constraint, assertion or server, waits for nobody, and
\* its COMMIT stores what its payload says and nothing else.
THEOREM AloneIsExact == Spec => AppliedExactly
<1>1. Spec => []AloneInv
  <2>1. IInv /\ AloneInv /\ IInv' /\ [Next]_vars => AloneInv'
    BY AloneStep
  <2> QED BY <2>1, AloneInit, Invariance, PTL DEF Spec
<1>2. IInv /\ AloneInv /\ [Next]_vars =>
        [\A w \in Worker :
           job[w].alone /\ torn \cup stale = {} /\ job'[w].stage = "idle" =>
             \A i \in Item :
               IF i \in DOMAIN job[w].data /\ job[w].data[i] # Keep
                 THEN Stored(i)' = job[w].data[i]
                 ELSE Stored(i)' = Stored(i)]_vars
  BY EndsExactly DEF Target
<1> QED BY <1>1, <1>2, Invariance, PTL DEF Spec, AppliedExactly

-----------------------------------------------------------------------------
(* sync-to-pdns next to the requests.  SyncInv says what the command knows:  *)
(* outside the items that met a publication since they were read, the records *)
(* read are those stored, and an item in neither set is nowhere.              *)

SyncType ==
  [stage : SyncStage, mods : SUBSET Item, dels : SUBSET Item, cur : Item, sent : Sent,
   met : SUBSET Item]

SyncInv ==
  /\ sync \in SyncType
  /\ sync.dels \cap sync.mods = {} /\ DOMAIN sync.sent \subseteq sync.mods
  /\ sync.stage = "records" => sync.cur \in sync.mods
  /\ sync.stage # "idle" =>
       /\ Publishing \subseteq sync.met
       /\ \A i \in DOMAIN sync.sent \ sync.met : sync.sent[i] = Stored(i)
       /\ \A i \in Item \ (sync.mods \cup sync.met) : Stored(i) = {}
       /\ sync.stage # "fetch" =>
            \A i \in Item \ (sync.mods \cup sync.dels \cup sync.met) : dns[i] = {}

LEMMA PublishingIs ==
  /\ \A i : i \in Publishing <=> \E w \in Worker : Publishes(w, i)
  /\ Types => Publishing \subseteq Item
<1>1. \A i : i \in Publishing <=> \E w \in Worker : Publishes(w, i)
  BY DEF Publishing, Publishes
<1>2. ASSUME Types, NEW w \in Worker, NEW i, Publishes(w, i) PROVE i \in Item
  BY <1>2 DEF Types, JobType, Sent, Publishes
<1> QED BY <1>1, <1>2

\* No other step touches the database or nslord.
LEMMA AcceptKeeps ==
  ASSUME NEW w, NEW kind, NEW data, Accept(w, kind, data)
  PROVE  UNCHANGED <<rows, rrs, dns>>
BY Zenon DEF Accept, MayAccept, dbVars

LEMMA StartsKeep ==
  ASSUME NEW w, Begin(w) \/ StartDelete(w) \/ StartCreate(w) \/ StartUpdate(w)
  PROVE  UNCHANGED <<rows, rrs, dns>>
<1>1. CASE Begin(w)
  BY <1>1, Zenon DEF Begin, dbVars
<1>2. CASE StartDelete(w)
  BY <1>2, Zenon DEF StartDelete, dbVars
<1>3. CASE StartCreate(w)
  BY <1>3, Zenon DEF StartCreate, dbVars
<1>4. CASE StartUpdate(w)
  BY <1>4, Zenon DEF StartUpdate, dbVars
<1> QED BY <1>1, <1>2, <1>3, <1>4

LEMMA StatementsKeep ==
  ASSUME NEW w, Remove(w) \/ Create(w) \/ Drop(w) \/ Compare(w)
  PROVE  UNCHANGED <<rows, rrs, dns>>
<1>1. CASE Remove(w)
  BY <1>1, Zenon DEF Remove, dbVars
<1>2. CASE Create(w)
  BY <1>2, Zenon DEF Create, dbVars
<1>3. CASE Drop(w)
  BY <1>3, Zenon DEF Drop, dbVars
<1>4. CASE Compare(w)
  BY <1>4, Zenon DEF Compare, dbVars
<1> QED BY <1>1, <1>2, <1>3, <1>4

LEMMA SavesKeep ==
  ASSUME NEW w, Save(w) \/ Compute(w)
  PROVE  UNCHANGED <<rows, rrs, dns>>
<1>1. CASE Save(w)
  BY <1>1, Zenon DEF Save, dbVars
<1>2. CASE Compute(w)
  BY <1>2, Zenon DEF Compute, dbVars
<1> QED BY <1>1, <1>2

\* A request step changes nslord by its PATCH and the database by its COMMIT, and
\* in both only items that it is publishing.
LEMMA RequestTouches ==
  ASSUME IInv, [Next]_vars, NEW i \in Item
  PROVE  /\ dns'[i] # dns[i] => i \in Publishing'
         /\ Stored(i)' # Stored(i) => i \in Publishing
<1>1. CASE UNCHANGED <<rows, rrs, dns>>
  BY <1>1 DEF Stored
<1>2. ASSUME NEW w \in Worker, Send(w)
      PROVE  /\ dns'[i] # dns[i] => i \in Publishing'
             /\ Stored(i)' = Stored(i)
  <2>1. job[w] \in JobType /\ job \in [Worker -> JobType]
    BY DEF IInv, Types
  <2>2. job'[w].stage = "commit" /\ job'[w].sent = job[w].sent
    BY <1>2, <2>1 DEF Send, JobType
  <2>3. dns' = After(w) /\ UNCHANGED <<rows, rrs>>
    BY <1>2 DEF Send, dbVars
  <2>4. dns'[i] # dns[i] => i \in DOMAIN job[w].sent
    BY <2>3 DEF After
  <2> QED BY <2>2, <2>3, <2>4 DEF Publishing, Stored
<1>3. ASSUME NEW w \in Worker, Commit(w)
      PROVE  /\ dns' = dns
             /\ Stored(i)' # Stored(i) => i \in Publishing
  <2>1. /\ job[w].stage = "commit" /\ rows' = MyRows(w) /\ rrs' = MyRRs(w) /\ dns' = dns
    BY <1>3 DEF Commit
  <2>2. Stored(i)' = ViewOf(MyRows(w), MyRRs(w), i) /\ Stored(i) = ViewOf(rows, rrs, i)
    BY <2>1 DEF Stored, ViewOf
  <2>3. i \notin DOMAIN job[w].sent => Stored(i)' = Stored(i)
    BY <2>1, <2>2, StoredKept
  <2> QED BY <2>1, <2>3 DEF Publishing
<1>4. \/ UNCHANGED <<rows, rrs, dns>>
      \/ \E w \in Worker : Send(w) \/ Commit(w)
  <2>1. CASE UNCHANGED vars
    BY <2>1 DEF vars
  <2>2. ASSUME NEW w \in Worker, NEW kind \in Kind, NEW data \in Payloads, Accept(w, kind, data)
        PROVE  UNCHANGED <<rows, rrs, dns>>
    BY <2>2, AcceptKeeps
  <2>3. ASSUME NEW w \in Worker, Step(w)
        PROVE  UNCHANGED <<rows, rrs, dns>> \/ Send(w) \/ Commit(w)
    <3>1. CASE Begin(w) \/ StartDelete(w) \/ StartCreate(w) \/ StartUpdate(w)
      BY <3>1, StartsKeep
    <3>2. CASE Remove(w) \/ Create(w) \/ Drop(w) \/ Compare(w)
      BY <3>2, StatementsKeep
    <3>3. CASE Save(w) \/ Compute(w)
      BY <3>3, SavesKeep
    <3>4. CASE BodyRaises(w) \/ ComputeFails(w) \/ SendRefused(w) \/ CommitFails(w)
               \/ DeadlockVictim(w)
      BY <3>4 DEF BodyRaises, ComputeFails, SendRefused, CommitFails, DeadlockVictim, Abort,
         dbVars
    <3> QED BY <2>3, <3>1, <3>2, <3>3, <3>4 DEF Step
  <2> QED BY <2>1, <2>2, <2>3 DEF Next
<1> QED BY <1>1, <1>2, <1>3, <1>4

LEMMA SyncIdleOK ==
  ASSUME sync' = SyncIdle
  PROVE  SyncInv'
<1>1. SyncIdle \in SyncType
  BY IdleOK, ItemAssumption DEF SyncIdle, SyncType, SyncStage, Idle, JobType
<1> QED BY <1>1 DEF SyncInv, SyncIdle, None

LEMMA SyncInitial == SyncInit => SyncInv
<1> SUFFICES ASSUME SyncInit PROVE SyncInv
  OBVIOUS
<1>1. SyncIdle \in SyncType
  BY IdleOK, ItemAssumption DEF SyncIdle, SyncType, SyncStage, Idle, JobType
<1> QED BY <1>1 DEF SyncInit, SyncInv, SyncIdle, None

\* A step of a request next to the command is one of RRsetRequests.
LEMMA RequestsOnly ==
  ASSUME NEW w \in Worker, RequestStep(w)
  PROVE  /\ Next /\ Beside
         /\ served' = served \/ (served + syncs < MaxRequests /\ served' = served + 1)
<1>1. Beside
  BY Zenon DEF RequestStep
<1>2. ASSUME Step(w) PROVE Next /\ served' = served
  <2> SUFFICES served' = served
    BY <1>2 DEF Next
  <2>1. CASE Begin(w)
    BY <2>1, Zenon DEF Begin
  <2>2. CASE StartDelete(w)
    BY <2>2, Zenon DEF StartDelete
  <2>3. CASE StartCreate(w)
    BY <2>3, Zenon DEF StartCreate
  <2>4. CASE StartUpdate(w)
    BY <2>4, Zenon DEF StartUpdate
  <2>5. CASE Remove(w)
    BY <2>5, Zenon DEF Remove
  <2>6. CASE Create(w)
    BY <2>6, Zenon DEF Create
  <2>7. CASE Drop(w)
    BY <2>7, Zenon DEF Drop
  <2>8. CASE Compare(w)
    BY <2>8, Zenon DEF Compare
  <2>9. CASE Save(w)
    BY <2>9, Zenon DEF Save
  <2>10. CASE Compute(w)
    BY <2>10, Zenon DEF Compute
  <2>11. CASE Send(w)
    BY <2>11, Zenon DEF Send
  <2>12. CASE Commit(w)
    BY <2>12, Zenon DEF Commit
  <2>13. CASE \/ BodyRaises(w) \/ ComputeFails(w) \/ SendRefused(w)
             \/ CommitFails(w) \/ DeadlockVictim(w)
    BY <2>13, Zenon DEF BodyRaises, ComputeFails, SendRefused, CommitFails, DeadlockVictim,
       Abort
  <2> QED BY <1>2, <2>1, <2>2, <2>3, <2>4, <2>5, <2>6, <2>7, <2>8, <2>9, <2>10, <2>11, <2>12, <2>13
     DEF Step
<1>3. ASSUME MayAccept(w), served + syncs < MaxRequests,
             NEW kind \in Kind, NEW data \in Payloads, Accept(w, kind, data)
      PROVE  Next /\ served' = served + 1
  BY <1>3 DEF Next, Accept
<1>4. Step(w) \/ (/\ MayAccept(w) /\ served + syncs < MaxRequests
                  /\ \E kind \in Kind, data \in Payloads : Accept(w, kind, data))
  BY Zenon DEF RequestStep, Step
<1> QED BY <1>1, <1>2, <1>3, <1>4

LEMMA SyncRequestStep ==
  ASSUME IInv, IInv', SyncInv, Next, Beside
  PROVE  SyncInv'
<1>1. CASE sync.stage = "idle"
  BY <1>1 DEF Beside, SyncInv
<1>2. CASE sync.stage # "idle"
  <2> DEFINE S == [sync EXCEPT !.met = @ \cup Publishing']
  <2>1. sync' = S /\ [Next]_vars /\ Publishing' \subseteq Item
    BY <1>2 DEF Beside, IInv, Types, JobType, Sent, Publishing
  <2>2. /\ S \in SyncType /\ S.stage = sync.stage /\ S.mods = sync.mods /\ S.dels = sync.dels
        /\ S.cur = sync.cur /\ S.sent = sync.sent /\ S.met = sync.met \cup Publishing'
    BY <2>1 DEF SyncInv, SyncType
  <2>3. \A i \in Item \ sync'.met : dns'[i] = dns[i] /\ Stored(i)' = Stored(i)
    BY <1>2, <2>1, <2>2, RequestTouches DEF SyncInv
  <2>4. /\ \A i \in DOMAIN sync'.sent \ sync'.met : sync'.sent[i] = Stored(i)'
        /\ \A i \in Item \ (sync'.mods \cup sync'.met) : Stored(i)' = {}
        /\ sync'.stage # "fetch" =>
             \A i \in Item \ (sync'.mods \cup sync'.dels \cup sync'.met) : dns'[i] = {}
    BY <1>2, <2>1, <2>2, <2>3 DEF SyncInv, SyncType
  <2> QED BY <2>1, <2>2, <2>4 DEF SyncInv
<1> QED BY <1>1, <1>2

LEMMA SyncReads ==
  ASSUME IInv, SyncInv, UNCHANGED vars,
         SyncBegin \/ SyncFetch \/ SyncRead \/ \E i \in Item : SyncFind(i)
  PROVE  SyncInv'
<1>1. /\ Publishing' = Publishing /\ dns' = dns /\ \A i : Stored(i)' = Stored(i)
  BY DEF vars, Publishing, Stored
<1>2. /\ Publishing \subseteq Item /\ Known \subseteq Item
      /\ \A i : Stored(i) \subseteq Record
      /\ \A i \in Item \ Known : Stored(i) = {}
  <2>1. Known \subseteq Item /\ \A i : Stored(i) \subseteq Record
    BY DEF IInv, Types, Known, Row, Stored, Contents, RRow
  <2>2. \A i \in Item \ Known : Stored(i) = {}
    BY DEF Known, Stored, RowsFor, Contents
  <2> QED BY <2>1, <2>2, PublishingIs DEF IInv
<1>3. CASE SyncBegin
  <2>1. sync' = [SyncIdle EXCEPT !.stage = "fetch", !.mods = Known, !.met = Publishing]
    BY <1>3 DEF SyncBegin
  <2>2. SyncIdle \in SyncType /\ SyncIdle.sent = None /\ SyncIdle.dels = {}
    BY IdleOK, ItemAssumption DEF SyncIdle, SyncType, SyncStage, Idle, JobType
  <2>3. /\ sync' \in SyncType /\ sync'.stage = "fetch" /\ sync'.mods = Known
        /\ sync'.dels = {} /\ DOMAIN sync'.sent = {} /\ sync'.met = Publishing
    BY <1>2, <2>1, <2>2 DEF SyncType, SyncStage, None
  <2> QED BY <1>1, <1>2, <2>3 DEF SyncInv
<1>4. CASE SyncFetch
  <2>1. /\ sync.stage = "fetch" /\ sync' = [sync EXCEPT !.stage = "ttl", !.dels = Surplus]
    BY <1>4 DEF SyncFetch
  <2>2. /\ sync' \in SyncType /\ sync'.stage = "ttl" /\ sync'.mods = sync.mods
        /\ sync'.dels = Surplus /\ sync'.sent = sync.sent /\ sync'.met = sync.met
    <3>1. sync \in SyncType /\ Surplus \subseteq Item
      BY DEF SyncInv, Surplus
    <3> QED BY <2>1, <3>1 DEF SyncType, SyncStage
  <2>3. /\ Surplus \cap sync.mods = {}
        /\ \A i \in Item \ (sync.mods \cup Surplus) : dns[i] = {}
    BY DEF Surplus
  <2> QED BY <1>1, <2>1, <2>2, <2>3 DEF SyncInv
<1>5. ASSUME NEW i \in Item, SyncFind(i) PROVE SyncInv'
  <2>1. /\ sync.stage = "ttl" /\ sync' = [sync EXCEPT !.stage = "records", !.cur = i]
        /\ i \in sync.mods
    BY <1>5, Zenon DEF SyncFind, Unread
  <2>2. /\ sync' \in SyncType /\ sync'.stage = "records" /\ sync'.mods = sync.mods /\ sync'.cur = i
        /\ sync'.dels = sync.dels /\ sync'.sent = sync.sent /\ sync'.met = sync.met
    <3>1. sync \in SyncType
      BY DEF SyncInv
    <3> QED BY <2>1, <3>1 DEF SyncType, SyncStage
  <2> QED BY <1>1, <2>1, <2>2 DEF SyncInv
<1>6. CASE SyncRead
  <2> DEFINE c == sync.cur
             F == [i \in DOMAIN sync.sent \cup {c} |-> IF i = c THEN Stored(i) ELSE sync.sent[i]]
             M == (sync.met \ {c}) \cup ({c} \cap Publishing)
  <2>1. sync.stage = "records" /\ c \in sync.mods /\ c \in Item
        /\ sync' = [sync EXCEPT !.stage = "ttl", !.sent = F, !.met = M]
    BY <1>6 DEF SyncRead, SyncInv, SyncType
  <2>2. F \in Sent
    <3>1. DOMAIN sync.sent \subseteq Item /\ \A i \in DOMAIN sync.sent : sync.sent[i] \subseteq Record
      BY DEF SyncInv, SyncType, Sent
    <3>2. F \in [DOMAIN sync.sent \cup {c} -> SUBSET Record]
      BY <1>2, <3>1
    <3>3. DOMAIN sync.sent \cup {c} \in SUBSET Item
      BY <2>1, <3>1
    <3> HIDE DEF F
    <3> QED BY <3>2, <3>3 DEF Sent
  <2>3. /\ DOMAIN F = DOMAIN sync.sent \cup {c} /\ F[c] = Stored(c)
        /\ \A i \in DOMAIN sync.sent \ {c} : F[i] = sync.sent[i]
    OBVIOUS
  <2>4. /\ M \subseteq Item /\ \A i : i # c => (i \in M <=> i \in sync.met)
        /\ Publishing \subseteq M
    BY <1>2, <2>1 DEF SyncInv, SyncType
  <2> HIDE DEF F, M
  <2>5. /\ sync' \in SyncType /\ sync'.stage = "ttl" /\ sync'.mods = sync.mods
        /\ sync'.dels = sync.dels /\ sync'.sent = F /\ sync'.met = M
    BY <2>1, <2>2, <2>4 DEF SyncInv, SyncType, SyncStage
  <2>6. \A i \in DOMAIN F \ M : F[i] = Stored(i)
    BY <2>1, <2>3, <2>4 DEF SyncInv
  <2>7. /\ \A i \in Item \ (sync.mods \cup M) : Stored(i) = {}
        /\ \A i \in Item \ (sync.mods \cup sync.dels \cup M) : dns[i] = {}
    BY <2>1, <2>4 DEF SyncInv
  <2> QED BY <1>1, <2>1, <2>3, <2>4, <2>5, <2>6, <2>7 DEF SyncInv
<1> QED BY <1>3, <1>4, <1>5, <1>6

\* The zone that the PATCH makes.
LEMMA SyncedIsStored ==
  ASSUME IInv, SyncInv, ReadyToPatch
  PROVE  /\ SyncedZone \in [Item -> SUBSET Record]
         /\ \A i \in Item \ sync.met : SyncedZone[i] = Stored(i)
         /\ \A i \in Item \ SyncTouches : SyncedZone[i] = dns[i]
         /\ Publishing \subseteq sync.met /\ sync.met \subseteq Item /\ SyncTouches \subseteq Item
<1>1. /\ sync.stage = "ttl" /\ sync.mods \ sync.dels \subseteq DOMAIN sync.sent
  BY DEF ReadyToPatch, Unread
<1>2. /\ DOMAIN sync.sent \subseteq Item /\ \A i \in DOMAIN sync.sent : sync.sent[i] \subseteq Record
      /\ sync.dels \subseteq Item /\ sync.met \subseteq Item /\ dns \in [Item -> SUBSET Record]
  BY DEF SyncInv, SyncType, Sent, IInv, Types
<1>3. SyncedZone \in [Item -> SUBSET Record]
  BY <1>2 DEF SyncedZone
<1>4. ASSUME NEW i \in Item \ sync.met PROVE SyncedZone[i] = Stored(i)
  <2>1. CASE i \in sync.dels
    BY <1>1, <2>1 DEF SyncedZone, SyncInv
  <2>2. CASE i \in DOMAIN sync.sent
    BY <1>1, <2>2 DEF SyncedZone, SyncInv
  <2>3. CASE i \notin sync.dels \cup DOMAIN sync.sent
    BY <1>1, <2>3 DEF SyncedZone, SyncInv
  <2> QED BY <2>1, <2>2, <2>3
<1>5. \A i \in Item \ SyncTouches : SyncedZone[i] = dns[i]
  BY DEF SyncedZone, SyncTouches
<1> QED BY <1>1, <1>2, <1>3, <1>4, <1>5 DEF SyncInv, SyncTouches

\* A PATCH that keeps nslord right where no history says otherwise keeps IInv.
LEMMA SyncDns ==
  ASSUME IInv, SyncInv, ReadyToPatch, dns' = SyncedZone, UNCHANGED <<rows, rrs, job, served>>,
         torn' \subseteq torn, stale' \subseteq stale \cup Item,
         torn \cap sync.met \subseteq torn',
         sync.met \cap (stale \cup SyncTouches) \subseteq stale'
  PROVE  IInv'
<1>1. Types' /\ Keys'
  BY SyncedIsStored DEF IInv, Types, Keys
<1>2. Jobs'
  <2>1. \A w \in Worker : JobOK(job[w])' <=> JobOK(job[w])
    BY DEF JobOK, Ordered, Locked, Tracked, Ahead, Between, Held
  <2>2. \A w \in Worker : OnRows(job[w])' <=> OnRows(job[w])
    BY DEF OnRows, View
  <2>3. \A v, w \in Worker : Apart(job[v], job[w])' <=> Apart(job[v], job[w])
    BY DEF Apart
  <2> QED BY <2>1, <2>2, <2>3 DEF IInv, Jobs
<1>3. /\ \A w \in Worker, i \in Item : Publishes(w, i)' <=> Publishes(w, i)
      /\ \A i : Stored(i)' = Stored(i)
      /\ \A w \in Worker, i \in Item : Publishes(w, i) => i \in sync.met
  BY SyncedIsStored, PublishingIs DEF Publishes, Stored
<1>4. \A w \in Worker, i \in Item : Publishes(w, i) /\ i \in job[w].lost => i \in stale'
  BY <1>3 DEF IInv, DnsInv
<1>5. ASSUME NEW i \in Item \ (torn' \cup stale')
      PROVE  /\ (\A w \in Worker : ~Publishes(w, i)) => dns'[i] = Stored(i)
             /\ \A w \in Worker : Publishes(w, i) => dns'[i] = job[w].sent[i]
  <2>1. CASE i \notin sync.met
    BY <1>3, <2>1, SyncedIsStored
  <2>2. CASE i \in sync.met
    <3>1. i \notin torn \cup stale /\ i \notin SyncTouches
      BY <1>5, <2>2
    <3>2. dns'[i] = dns[i]
      BY <3>1, SyncedIsStored
    <3> QED BY <3>1, <3>2 DEF IInv, DnsInv
  <2> QED BY <2>1, <2>2
<1>6. DnsInv'
  BY <1>3, <1>4, <1>5 DEF DnsInv
<1> QED BY <1>1, <1>2, <1>6 DEF IInv

LEMMA SyncInvStep == IInv /\ SyncInv /\ [SyncNext]_syncVars => IInv' /\ SyncInv'
<1> SUFFICES ASSUME IInv, SyncInv, [SyncNext]_syncVars PROVE IInv' /\ SyncInv'
  OBVIOUS
<1>1. ASSUME NEW w \in Worker, RequestStep(w) PROVE IInv' /\ SyncInv'
  BY <1>1, RequestsOnly, InvStep, SyncRequestStep
<1>2. CASE SyncBegin \/ SyncFetch \/ SyncRead \/ \E i \in Item : SyncFind(i)
  <2>1. UNCHANGED vars
    <3>1. SyncBegin \/ SyncFetch \/ SyncRead => UNCHANGED vars
      BY DEF SyncBegin, SyncFetch, SyncRead
    <3>2. ASSUME NEW i \in Item, SyncFind(i) PROVE UNCHANGED vars
      BY <3>2 DEF SyncFind
    <3> QED BY <1>2, <3>1, <3>2
  <2> QED BY <1>2, <2>1, InvStep, SyncReads
<1>3. CASE SyncFails
  BY <1>3, InvStep, SyncIdleOK DEF SyncFails
<1>4. CASE SyncPatch
  <2>1. IInv'
    BY <1>4, SyncDns DEF SyncPatch, dbVars, IInv, Types, SyncInv, SyncType
  <2> QED BY <1>4, <2>1, SyncIdleOK DEF SyncPatch
<1>5. CASE SyncAnswerLost
  <2>1. IInv'
    BY <1>5, SyncDns DEF SyncAnswerLost, dbVars, IInv, Types, SyncInv, SyncType
  <2> QED BY <1>5, <2>1, SyncIdleOK DEF SyncAnswerLost
<1>6. CASE UNCHANGED syncVars
  <2>1. UNCHANGED vars /\ sync' = sync
    BY <1>6 DEF syncVars
  <2>2. Publishing' = Publishing /\ dns' = dns /\ \A i : Stored(i)' = Stored(i)
    BY <2>1 DEF vars, Publishing, Stored
  <2> QED BY <2>1, <2>2, InvStep DEF SyncInv
<1> QED BY <1>1, <1>2, <1>3, <1>4, <1>5, <1>6 DEF SyncNext, SyncStep

\* The bound on requests and runs together.
SyncCount == syncs \in Nat /\ served + syncs <= MaxRequests

LEMMA SyncCountStep == IInv /\ IInv' /\ SyncCount /\ [SyncNext]_syncVars => SyncCount'
<1> SUFFICES ASSUME IInv, IInv', SyncCount, [SyncNext]_syncVars PROVE SyncCount'
  OBVIOUS
<1>1. served \in Nat /\ served' \in Nat /\ MaxRequests \in Nat
  BY ItemAssumption DEF IInv, Types
<1>2. ASSUME NEW w \in Worker, RequestStep(w) PROVE SyncCount'
  BY <1>1, <1>2, RequestsOnly, ItemAssumption DEF Beside, SyncCount
<1>3. CASE SyncBegin
  <2>1. served' = served /\ syncs' = syncs + 1 /\ served + syncs < MaxRequests
    BY <1>3 DEF SyncBegin, vars
  <2> QED BY <1>1, <2>1 DEF SyncCount
<1>4. CASE UNCHANGED <<served, syncs>>
  BY <1>4 DEF SyncCount
<1>5. SyncFetch \/ SyncRead \/ SyncFails \/ (\E i \in Item : SyncFind(i)) => UNCHANGED <<served, syncs>>
  BY Zenon DEF SyncFetch, SyncRead, SyncFails, SyncFind, vars
<1>6. SyncPatch \/ SyncAnswerLost \/ UNCHANGED syncVars => UNCHANGED <<served, syncs>>
  BY DEF SyncPatch, SyncAnswerLost, syncVars, vars
<1> QED BY <1>2, <1>3, <1>4, <1>5, <1>6 DEF SyncNext, SyncStep

LEMMA SyncInvariance == SyncSpec => [](IInv /\ SyncInv /\ SyncCount)
<1>1. SyncInit => IInv /\ SyncInv
  BY InvInit, SyncInitial DEF SyncInit
<1>2. SyncInit => SyncCount
  BY ItemAssumption DEF SyncInit, SyncCount, Init
<1> QED BY <1>1, <1>2, SyncInvStep, SyncCountStep, PTL DEF SyncSpec

\* Requests and command keep their types; the sets of the command are disjoint, and
\* nothing is sent that was not stored.
THEOREM SyncTyped == SyncSpec => []SyncTypeOK
<1>1. IInv => TypeOK
  BY TypesOK
<1>2. SyncInv => /\ sync.stage \in SyncStage /\ sync.cur \in Item
                 /\ sync.mods \subseteq Item /\ sync.dels \subseteq Item \ sync.mods
                 /\ DOMAIN sync.sent \subseteq sync.mods
                 /\ \A i \in DOMAIN sync.sent : sync.sent[i] \subseteq Record
                 /\ sync.met \subseteq Item
  BY DEF SyncInv, SyncType, Sent
<1>3. IInv /\ SyncCount => syncs \in 0 .. MaxRequests
  BY ItemAssumption DEF SyncCount, IInv, Types
<1>4. IInv /\ SyncInv /\ SyncCount => SyncTypeOK
  BY <1>1, <1>2, <1>3 DEF SyncTypeOK
<1> QED BY <1>4, SyncInvariance, PTL

\* With the command in between, a request still has the RRsets of its PATCH for itself
\* until COMMIT.
THEOREM SyncPublishesAlone == SyncSpec => []OnePublisher
<1>1. IInv => OnePublisher
  BY Publisher DEF OnePublisher, Published
<1> QED BY <1>1, SyncInvariance, PTL

\* With any number of runs of sync-to-pdns between the steps of requests, nslord
\* serves what is stored whenever no request is under way, but for the items of the
\* history variables.
THEOREM SyncKeepsAgreement == SyncSpec => []DnsAgrees
<1>1. IInv => DnsAgrees
  BY DEF IInv, DnsInv, DnsAgrees, Publishes
<1> QED BY <1>1, SyncInvariance, PTL

\* The two sets that sync-to-pdns computes are enough to repair the zone.
THEOREM SyncAlwaysRepairs == SyncSpec => SyncRepairs
<1>1. IInv /\ SyncInv => [SyncPatch => \A i \in Item \ sync.met : dns'[i] = Stored(i)]_syncVars
  BY SyncedIsStored DEF SyncPatch
<1> QED BY <1>1, SyncInvariance, PTL DEF SyncRepairs
=============================================================================
