------------------------------ MODULE MCDynDns ------------------------------
(***************************************************************************)
(* Two domains and a name below the first; two networks and two hosts, so    *)
(* that renumbering can change, keep and merge addresses.  One worker: what   *)
(* a second one writes meanwhile is among the Writes.                        *)
(***************************************************************************)
EXTENDS DynDns, FiniteSets, TLC

CONSTANTS x, sx, y, n1, n2, h1, h2

MCBelow == {<<x, x>>, <<sx, sx>>, <<y, y>>, <<sx, x>>}
MCOwnable == {{x}, {x, y}}

Some(kind, t, net, host) == [kind |-> kind, type |-> t, net |-> net, host |-> host]
a4 == Some("address", "A", n1, h1)
b4 == Some("address", "A", n2, h2)
a6 == Some("address", "AAAA", n1, h1)
m6 == Some("mapped", "AAAA", n2, h2)
p4 == Some("subnet", "A", n2, h2)
p6 == Some("subnet", "AAAA", n2, h1)
e == Some("empty", "A", n1, h1)
k == Some("preserve", "A", n1, h1)

b6 == Some("address", "AAAA", n1, h2)
z4 == Some("broken", "A", n1, h1)

\* What one parameter may say, and the values that are combined with one another.
Values == {{a4}, {a6}, {a4, a6}, {a4, b4}, {p4}, {p6}, {p4, p6}, {e}, {k},
           {m6, a6}, {a4, k}, {p4, b4}, {z4}}
Combined == {{a4}, {a4, a6}, {p6}}
Params == {"myip", "myipv4", "ip", "myipv6", "ipv6"}

Client == [type |-> "A", net |-> n2, host |-> h1]
Query(at, params, extra) == [at |-> at, params |-> params, extra |-> extra, client |-> Client]
At(source, names) == [s \in {source} |-> names]
Given(keys, values) == [keys -> values]
Keys(n) == {R \in SUBSET Params : Cardinality(R) = n}

\* Every parameter with every value, every pair of parameters, every place for the
\* names, and parameters for one host.
MCQueries ==
  {Query(At("hostname", {sx}), v, None) :
     v \in UNION {Given(R, Values) : R \in Keys(0) \cup Keys(1)}
            \cup UNION {Given(R, Combined) : R \in Keys(2)}}
  \cup
  {Query(at, [p \in {"myip"} |-> {a4, p6}], None) :
     at \in {None, At("basic", {Blank}), At("host_id", {x, sx}), At("username", {y}),
             At("username", {x, y}), At("host_id", {Blank}),
             At("hostname", {Blank}) @@ At("host_id", {x}), At("hostname", {sx}) @@ At("host_id", {x})}}
  \cup
  {Query(At("hostname", {x}), [p \in {"myipv4"} |-> {a4}], extra) :
     extra \in [{<<"A", sx>>, <<"AAAA", sx>>} -> Values]}

\* The other requests write both types of a name, or names of both domains.
MCWrites ==
  LET t4 == <<"A", sx>>  t6 == <<"AAAA", sx>> IN
  {(t4 :> {}) @@ (t6 :> {}), t4 :> {AddressOf(b4)},
   (t4 :> {}) @@ (t6 :> {AddressOf(a6), AddressOf(m6), AddressOf(p6)}),
   <<"A", x>> :> {AddressOf(b4)}}
=============================================================================
