------------------------------- MODULE DynDns -------------------------------
(***************************************************************************)
(* The update requests of dynDNS clients (views/dyndns.py): how the names    *)
(* and the addresses of a request are found, and how an update that keeps    *)
(* the host part of stored addresses meets other writers.  A worker reads    *)
(* the stored records of all names it is going to write, computes the new    *)
(* ones from them, validates, and writes them in one tracker block.          *)
(*                                                                           *)
(* Abstractions: an address is a network and a host part of one prefix       *)
(* length; the statements and locks of the block are those of RRsetRequests  *)
(* and one step here; the CNAME rule and policies of tokens are left out.    *)
(***************************************************************************)
EXTENDS Naturals, Sequences

CONSTANTS
  Worker,       \* API processes
  Name,         \* host names, domains of the user among them
  Below,        \* pairs <<n, m>>: the name n equals m or ends in "." and m
  Ownable,      \* the sets of domains that the user may have
  Net, Host,    \* parts of addresses
  Blank,        \* no name: "", YES, or an e-mail address
  Queries,      \* the requests that clients send
  Writes        \* what requests of other kinds write: addresses by type and name

Type == {"A", "AAAA"}
Key == Type \X Name
Address == [type : Type, net : Net, host : Host]

\* One element of a parameter.  An "address" or "mapped" element is an address (the
\* latter, like ::ffff:1.2.3.4, has separators of both types), a "subnet" has a
\* prefix length, and a "broken" one too many of them.
Text == [kind : {"address", "mapped", "subnet", "broken", "empty", "preserve"},
         type : Type, net : Net, host : Host]
AddressOf(x) == [type |-> x.type, net |-> x.net, host |-> x.host]

\* A query: names by the place they were found in, parameters of addresses by their
\* key and by type and name, and the address the client connects from.
ASSUME QueryAssumption ==
  \A q \in Queries :
    /\ \A s \in DOMAIN q.at : q.at[s] \subseteq Name \cup {Blank}
    /\ \A p \in DOMAIN q.params : q.params[p] \subseteq Text
    /\ DOMAIN q.extra \subseteq Key /\ \A k \in DOMAIN q.extra : q.extra[k] \subseteq Text
    /\ q.client \in Address
ASSUME NameAssumption ==
  /\ Blank \notin Name /\ Below \subseteq Name \X Name
  /\ \A D \in Ownable : D \subseteq Name
ASSUME WriteAssumption ==
  \A x \in Writes : \A k \in DOMAIN x :
    k \in Key /\ \A a \in x[k] : a \in Address /\ a.type = k[1]

VARIABLES
  domains,      \* the domains of the user
  store,        \* the stored records of each type and name
  job           \* what each worker is doing

vars == <<domains, store, job>>

None == [k \in {} |-> {}]
Idle == [stage |-> "idle", query |-> [at |-> None], data |-> None,
         known |-> {},      \* the RRsets that get_queryset found
         late |-> {}]       \* history: what others have written since

Init ==
  /\ domains \in Ownable
  /\ store = [k \in Key |-> {}]
  /\ job = [w \in Worker |-> Idle]

-----------------------------------------------------------------------------
(* Names                                                                    *)

Sources == <<"hostname", "host_id", "basic", "username">>

First(S) == CHOOSE i \in S : \A j \in S : i <= j

\* hostname and the user name of basic authentication may be set without naming a
\* host; the others count as they are.
Naming(q) ==
  {i \in 1 .. Len(Sources) :
     /\ Sources[i] \in DOMAIN q.at
     /\ q.at[Sources[i]] = {Blank} => Sources[i] \notin {"hostname", "basic"}}

QNames(q) == IF Naming(q) = {} THEN domains ELSE q.at[Sources[First(Naming(q))]]

AllNames(q) == QNames(q) \cup {k[2] : k \in DOMAIN q.extra}

\* The longest domain of the user that holds the name, if any.
DomainsOf(n) ==
  {m \in domains : /\ <<n, m>> \in Below
                   /\ \A d \in domains : <<n, d>> \in Below => <<m, d>> \in Below}

\* Without a name the user must have one domain only; names must exist and share it.
Located(q) ==
  /\ Naming(q) = {} => \E d \in domains : domains = {d}
  /\ \A n \in AllNames(q) : DomainsOf(n) # {}
  /\ \A m, n \in AllNames(q) : DomainsOf(m) = DomainsOf(n)

-----------------------------------------------------------------------------
(* Addresses                                                                *)

\* _get_action_from_param looks at the elements with a separator of the type.
About(value, t) ==
  {x \in value : x.kind \in {"empty", "preserve", "mapped"} \/ x.type = t}

SetIPs(addresses) == [do |-> "set", ips |-> addresses]
UpdateWithSubnet(t, net) == [do |-> "subnet", type |-> t, net |-> net]
PreserveIPs == [do |-> "preserve"]

\* Only addresses come in lists, and the prefix length must make sense.
Inconsistent(params) ==
  \/ \E x \in params : x.kind = "broken"
  \/ \E x, y \in params : x # y /\ x.kind \in {"empty", "preserve", "subnet"}

\* No action (None in the code) for a value without elements of the type.
ActionOf(value, t) ==
  LET params == About(value, t) IN
  IF \E x \in params : x.kind = "preserve" THEN PreserveIPs
  ELSE IF \E x \in params : x.kind = "subnet"
         THEN UpdateWithSubnet(t, (CHOOSE x \in params : x.kind = "subnet").net)
         ELSE SetIPs({AddressOf(x) : x \in {y \in params : y.kind # "empty"}})

\* mutant: the parameter without a type goes first for IPv6 as well
ParamKeysAlike(t) ==
  IF t = "A" THEN <<"myip", "myipv4", "ip">> ELSE <<"myip", "myipv6", "ipv6", "ip">>

ParamKeys(t) ==
  IF t = "A" THEN <<"myip", "myipv4", "ip">> ELSE <<"myipv6", "ipv6", "myip", "ip">>

\* The parameters that say something about the type, by position.
Telling(q, t) ==
  {i \in 1 .. Len(ParamKeys(t)) :
     /\ ParamKeys(t)[i] \in DOMAIN q.params
     /\ About(q.params[ParamKeys(t)[i]], t) # {}}

Told(q, t) == q.params[ParamKeys(t)[First(Telling(q, t))]]

FindAction(q, t) ==
  IF Telling(q, t) # {} THEN ActionOf(Told(q, t), t)
  ELSE SetIPs({q.client} \cap [type : {t}, net : Net, host : Host])

\* A parameter for one host goes before the others even if no action comes of it
\* (None); _get_records has no records then, as for PreserveIPs.
HostAction(q, k) ==
  IF About(q.extra[k], k[1]) = {} THEN PreserveIPs ELSE ActionOf(q.extra[k], k[1])

Actions(q) ==
  [k \in (Type \X QNames(q)) \cup DOMAIN q.extra |->
     IF k \in DOMAIN q.extra THEN HostAction(q, k) ELSE FindAction(q, k[1])]

Understood(q) ==
  /\ \A t \in Type : Telling(q, t) # {} => ~Inconsistent(About(Told(q, t), t))
  /\ \A k \in DOMAIN q.extra : ~Inconsistent(About(q.extra[k], k[1]))

\* The records of a name, of both types.
Records(n) == UNION {store[<<t, n>>] : t \in Type}
OfType(addresses, t) == {a \in addresses : a.type = t}

\* replace_ip_subnet: the host parts stay.
ReplaceIPSubnet(addresses, action) ==
  {[a EXCEPT !.net = action.net] : a \in OfType(addresses, action.type)}

GetRecords(action, n) ==
  IF action.do = "set" THEN action.ips ELSE ReplaceIPSubnet(Records(n), action)

Data(q) ==
  LET acts == Actions(q) IN
  [k \in {l \in DOMAIN acts : acts[l].do # "preserve"} |-> GetRecords(acts[k], k[2])]

\* Addresses that become equal in the new network are refused as duplicates.
Duplicates(q) ==
  LET acts == Actions(q) IN
  \E k \in DOMAIN Data(q) :
    /\ acts[k].do = "subnet"
    /\ \E a, b \in OfType(Records(k[2]), acts[k].type) : a # b /\ a.host = b.host

AcceptableText(q) == ~Duplicates(q)   \* mutant: any address will do for a type

Acceptable(q) ==
  /\ \A k \in DOMAIN Data(q) : \A a \in Data(q)[k] : a.type = k[1]
  /\ ~Duplicates(q)

-----------------------------------------------------------------------------
(* Requests                                                                 *)

Stored(keys) == {k \in keys : store[k] # {}}

\* mutant: the names of parameters for one host are forgotten
GetQuerysetGeneral(q) == Stored(Type \X QNames(q))

\* get_queryset: addresses of all names of the request.
GetQueryset(q) == Stored(Type \X (QNames(q) \cup {k[2] : k \in DOMAIN q.extra}))

Read(w, q) ==
  /\ job[w].stage = "idle"
  /\ Located(q) /\ Understood(q) /\ Acceptable(q)
  /\ job' = [job EXCEPT ![w] = [stage |-> "read", query |-> q, data |-> Data(q),
                                known |-> GetQueryset(q), late |-> {}]]
  /\ UNCHANGED <<domains, store>>

\* is_valid: an RRset that was not found before must still be missing.
Clash(w) == \E k \in DOMAIN job[w].data \ job[w].known : store[k] # {}

Validate(w) ==
  /\ job[w].stage = "read" /\ ~Clash(w)
  /\ job' = [job EXCEPT ![w].stage = "valid"]
  /\ UNCHANGED <<domains, store>>

\* ConcurrencyException: 429
Conflict(w) ==
  /\ job[w].stage = "read" /\ Clash(w)
  /\ job' = [job EXCEPT ![w] = Idle]
  /\ UNCHANGED <<domains, store>>

\* New rows for the RRsets of x; every other request is late for them.
Put(x, others) ==
  /\ store' = [k \in Key |-> IF k \in DOMAIN x THEN x[k] ELSE store[k]]
  /\ job' = [v \in Worker |->
       IF v \notin others THEN Idle
       ELSE [job[v] EXCEPT !.late = @ \cup (DOMAIN x \cap DOMAIN job[v].data)]]
  /\ UNCHANGED domains

Save(w) == job[w].stage = "valid" /\ Put(job[w].data, Worker \ {w})

\* A request of views/records.py, of which RRsetRequests is the model.
Write(x) ==
  /\ \A k \in DOMAIN x : DomainsOf(k[2]) # {}
  /\ Put(x, Worker)

Next ==
  \/ \E x \in Writes : Write(x)
  \/ \E w \in Worker :
       Validate(w) \/ Conflict(w) \/ Save(w) \/ \E q \in Queries : Read(w, q)

Spec == Init /\ [][Next]_vars

-----------------------------------------------------------------------------
(* Properties                                                               *)

\* RRsets hold addresses of their type, whatever was written for a parameter of
\* the other type, and nothing is stored outside the domains of the user.
TypeOK ==
  /\ domains \in Ownable
  /\ \A k \in Key : store[k] \subseteq [type : {k[1]}, net : Net, host : Host]
  /\ \A k \in Key : store[k] # {} => DomainsOf(k[2]) # {}
  /\ \A w \in Worker :
       /\ job[w].stage \in {"idle", "read", "valid"}
       /\ job[w].known \cup job[w].late \cup DOMAIN job[w].data \subseteq Key

\* docs/dyndns/update-api.rst: what a value says about a type; "preserve" keeps, a
\* prefix changes the network of what is on record, the rest is set as given.
Says(value, t) == {x \in value : x.kind \in {"empty", "preserve"} \/ x.type = t}

Meant(value, t, old) ==
  LET said == Says(value, t) IN
  IF \E x \in said : x.kind = "preserve" THEN old
  ELSE {a \in [type : {t}, net : Net, host : Host] :
          \/ \E x \in said : x.kind \in {"address", "mapped"} /\ AddressOf(x) = a
          \/ \E x \in said : x.kind = "subnet" /\ x.net = a.net
                             /\ \E b \in old : b.host = a.host}

\* The order of parameters in the documentation, by rank.
Rank(t, key) ==
  CASE key = "myip" -> IF t = "A" THEN 1 ELSE 3
    [] key \in {"myipv4", "ipv6"} -> 2
    [] key = "myipv6" -> 1
    [] OTHER -> 4
Consulted(t) == IF t = "A" THEN {"myip", "myipv4", "ip"} ELSE {"myipv6", "ipv6", "myip", "ip"}

Documented(q, k, old) ==
  LET t == k[1]
      keys == {p \in DOMAIN q.params \cap Consulted(t) : Says(q.params[p], t) # {}}
      best == {p \in keys : \A r \in keys : Rank(t, p) <= Rank(t, r)}
  IN IF keys = {} THEN {q.client} \cap [type : {t}, net : Net, host : Host]
     ELSE UNION {Meant(q.params[p], t, old) : p \in best}

Expected(q, k, old) ==
  IF k \in DOMAIN q.extra THEN Meant(q.extra[k], k[1], old)
  ELSE IF k[2] \in QNames(q) THEN Documented(q, k, old) ELSE old

\* RRsets with a parameter for one host that says nothing about their type.  The
\* code leaves them as they are; by docs/dyndns/update-api.rst:186 ("Semantics is the
\* same as for these general parameters") the parameter would not count, and by
\* line 141 what is not found is deleted; only "preserve" keeps.
Silent(q) == {k \in DOMAIN q.extra : Says(q.extra[k], k[1]) = {}}

\* A request that nobody overtakes leaves the RRsets of its host names as
\* documented, given what is stored when it commits, although it worked on what it
\* had read before; parameters of one host go first; all else stays.  Nothing is
\* claimed of the RRsets of Silent, where the code departs from the documentation.
DocumentedEffect ==
  [][\A w \in Worker :
       Save(w) => \A k \in Key \ (job[w].late \cup Silent(job[w].query)) :
                    store'[k] = Expected(job[w].query, k, store[k])]_vars

\* 429 is the answer to a request only if somebody else has written one of its
\* RRsets since it read them: what is looked up covers all that is written.
NoFalseConflict ==
  [][\A w \in Worker : Conflict(w) => job[w].late # {}]_vars
=============================================================================
