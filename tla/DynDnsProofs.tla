---------------------------- MODULE DynDnsProofs ----------------------------
(***************************************************************************)
(* Proofs about DynDns, for every set of names, addresses and queries.       *)
(* First that _find_action and the other operators compute what the          *)
(* documentation says of a query; then the invariant, which says of each      *)
(* request under way that its data are still right for every RRset that       *)
(* nobody else has written.                                                  *)
(***************************************************************************)
EXTENDS DynDns, TLAPS

AddressesOf(t) == [type : {t}, net : Net, host : Host]

-----------------------------------------------------------------------------
(* What a value means                                                       *)

\* The first of up to four positions.
LEMMA FirstIn ==
  ASSUME NEW S \in SUBSET (1 .. 4), S # {}
  PROVE  First(S) \in S /\ \A j \in S : First(S) <= j
<1>1. \E i \in S : \A j \in S : i <= j
  <2>1. CASE 1 \in S BY <2>1
  <2>2. CASE 1 \notin S /\ 2 \in S BY <2>2
  <2>3. CASE 1 \notin S /\ 2 \notin S /\ 3 \in S BY <2>3
  <2>4. CASE 1 \notin S /\ 2 \notin S /\ 3 \notin S
    <3>1. \A i \in S : i = 4 BY <2>4
    <3>2. 4 \in S BY <3>1
    <3>3. QED BY <3>1, <3>2
  <2>5. QED BY <2>1, <2>2, <2>3, <2>4
<1>2. QED BY <1>1 DEF First

\* "preserve" leaves the addresses that are on record.
LEMMA PreserveMeant ==
  ASSUME NEW v, NEW t, NEW old, ActionOf(v, t).do = "preserve"
  PROVE  Meant(v, t, old) = old
<1>1. \E x \in About(v, t) : x.kind = "preserve"
  BY DEF ActionOf, SetIPs, UpdateWithSubnet, PreserveIPs
<1>2. QED BY <1>1 DEF About, Meant, Says

\* Addresses that fit the type are set as they are.
LEMMA SetMeant ==
  ASSUME NEW v \in SUBSET Text, NEW t \in Type, NEW old,
         ~Inconsistent(About(v, t)), ActionOf(v, t).do = "set",
         \A a \in ActionOf(v, t).ips : a.type = t
  PROVE  /\ Meant(v, t, old) = ActionOf(v, t).ips
         /\ ActionOf(v, t).ips \subseteq AddressesOf(t)
<1> DEFINE P == About(v, t)
           S == {x \in v : x.kind \in {"empty", "preserve"} \/ x.type = t}
           ips == {AddressOf(x) : x \in {y \in P : y.kind # "empty"}}
<1>1. \A x \in P : x.kind \notin {"preserve", "subnet", "broken"}
  BY DEF ActionOf, SetIPs, UpdateWithSubnet, PreserveIPs, Inconsistent
<1>2. ActionOf(v, t).ips = ips
  BY <1>1 DEF ActionOf, SetIPs
<1>3. \A x \in P : x \in Text /\ x.kind \in {"address", "mapped", "empty"}
  BY <1>1 DEF About, Text
<1>4. \A x \in P : x.kind # "empty" => AddressOf(x) \in ips
  OBVIOUS
<1>5. ASSUME NEW x \in P, x.kind # "empty" PROVE x.type = t
  <2>1. AddressOf(x).type = x.type BY DEF AddressOf
  <2>2. AddressOf(x) \in ActionOf(v, t).ips BY <1>2, <1>4, <1>5
  <2>3. QED BY <2>1, <2>2
<1>6. ips \subseteq AddressesOf(t)
  BY <1>3, <1>5 DEF AddressOf, AddressesOf, Text
<1>7. \A x \in S : x \in P
  BY DEF About
<1>8. \A x \in P : x \in S
  BY <1>5, <1>3 DEF About
<1>9. Meant(v, t, old) = {a \in AddressesOf(t) :
          \/ \E x \in S : x.kind \in {"address", "mapped"} /\ AddressOf(x) = a
          \/ \E x \in S : x.kind = "subnet" /\ x.net = a.net
                             /\ \E b \in old : b.host = a.host}
  BY <1>1, <1>7 DEF Meant, Says, AddressesOf
<1>10. \A a \in AddressesOf(t) : a \in Meant(v, t, old) <=> a \in ips
  <2> SUFFICES ASSUME NEW a \in AddressesOf(t)
               PROVE  a \in Meant(v, t, old) <=> a \in ips
    OBVIOUS
  <2>1. ASSUME a \in ips PROVE a \in Meant(v, t, old)
    BY <2>1, <1>3, <1>8, <1>9
  <2>2. ASSUME a \in Meant(v, t, old) PROVE a \in ips
    <3>1. \E x \in S : x.kind \in {"address", "mapped"} /\ AddressOf(x) = a
      BY <2>2, <1>9, <1>1, <1>7
    <3>2. QED BY <3>1, <1>7
  <2>3. QED BY <2>1, <2>2
<1>11. Meant(v, t, old) \subseteq AddressesOf(t)
  BY <1>9
<1>12. QED BY <1>2, <1>6, <1>10, <1>11

\* A prefix changes the network of what is on record.
LEMMA SubnetMeant ==
  ASSUME NEW v \in SUBSET Text, NEW t \in Type, NEW old \in SUBSET AddressesOf(t),
         ~Inconsistent(About(v, t)), ActionOf(v, t).do = "subnet"
  PROVE  /\ Meant(v, t, old) = {[a EXCEPT !.net = ActionOf(v, t).net] : a \in old}
         /\ ActionOf(v, t).type = t /\ ActionOf(v, t).net \in Net
<1> DEFINE P == About(v, t)
           S == {x \in v : x.kind \in {"empty", "preserve"} \/ x.type = t}
           y == CHOOSE x \in P : x.kind = "subnet"
<1>1. /\ \A x \in P : x.kind # "preserve"
      /\ \E x \in P : x.kind = "subnet"
  BY DEF ActionOf, SetIPs, PreserveIPs
<1>2. y \in P /\ y.kind = "subnet"
  BY <1>1
<1>3. \A x \in P : x = y
  BY <1>2 DEF Inconsistent
<1>4. ActionOf(v, t).net = y.net /\ ActionOf(v, t).type = t
  BY <1>1 DEF ActionOf, UpdateWithSubnet
<1>5. y.net \in Net /\ y.type = t /\ y \in v
  BY <1>2 DEF About, Text
<1>6. S = {y}
  BY <1>3, <1>5, <1>2 DEF About
<1>7. Meant(v, t, old) = {a \in AddressesOf(t) : y.net = a.net /\ \E b \in old : b.host = a.host}
  BY <1>6, <1>2 DEF Meant, Says, AddressesOf
<1>8. ASSUME NEW a \in Meant(v, t, old)
      PROVE  a \in {[c EXCEPT !.net = y.net] : c \in old}
  <2>1. PICK b \in old : b.host = a.host
    BY <1>7
  <2>2. a = [b EXCEPT !.net = y.net]
    BY <2>1, <1>7 DEF AddressesOf
  <2>3. QED BY <2>2
<1>9. ASSUME NEW b \in old
      PROVE  [b EXCEPT !.net = y.net] \in Meant(v, t, old)
  BY <1>7, <1>5 DEF AddressesOf
<1>10. QED BY <1>8, <1>9, <1>4, <1>5

\* What an action makes of the addresses of its type that are on record.
Applied(action, old) ==
  IF action.do = "preserve" THEN old
  ELSE IF action.do = "set" THEN action.ips
  ELSE {[a EXCEPT !.net = action.net] : a \in old}

Fits(action, t) ==
  /\ action.do = "set" => action.ips \subseteq AddressesOf(t)
  /\ action.do = "subnet" => action.type = t /\ action.net \in Net
  /\ action.do \in {"set", "subnet", "preserve"}

\* The three kinds of value together.
LEMMA ValueMeant ==
  ASSUME NEW v \in SUBSET Text, NEW t \in Type, NEW old \in SUBSET AddressesOf(t),
         ~Inconsistent(About(v, t)),
         ActionOf(v, t).do = "set" => \A a \in ActionOf(v, t).ips : a.type = t
  PROVE  Meant(v, t, old) = Applied(ActionOf(v, t), old) /\ Fits(ActionOf(v, t), t)
<1>1. ActionOf(v, t).do \in {"set", "subnet", "preserve"}
  BY DEF ActionOf, SetIPs, UpdateWithSubnet, PreserveIPs
<1>2. CASE ActionOf(v, t).do = "preserve"
  BY <1>2, PreserveMeant DEF Applied, Fits
<1>3. CASE ActionOf(v, t).do = "set"
  BY <1>3, SetMeant DEF Applied, Fits
<1>4. CASE ActionOf(v, t).do = "subnet"
  BY <1>4, SubnetMeant DEF Applied, Fits
<1>5. QED BY <1>1, <1>2, <1>3, <1>4

\* The elements of a value that fits a type are what the documentation counts.
LEMMA SaidIsAbout ==
  ASSUME NEW v \in SUBSET Text, NEW t \in Type,
         About(v, t) # {}, ~Inconsistent(About(v, t)),
         ActionOf(v, t).do = "set" => \A a \in ActionOf(v, t).ips : a.type = t
  PROVE  Says(v, t) # {}
<1>1. PICK x \in About(v, t) : TRUE
  OBVIOUS
<1>2. x \in v /\ x \in Text
  BY <1>1 DEF About
<1>3. CASE x.kind # "mapped"
  BY <1>1, <1>2, <1>3 DEF About, Says
<1>4. CASE x.kind = "mapped"
  <2>1. \A y \in About(v, t) : y.kind \notin {"preserve", "subnet"}
    BY <1>1, <1>4 DEF Inconsistent
  <2>2. ActionOf(v, t) = SetIPs({AddressOf(y) : y \in {z \in About(v, t) : z.kind # "empty"}})
    BY <2>1 DEF ActionOf
  <2>3. AddressOf(x) \in ActionOf(v, t).ips /\ ActionOf(v, t).do = "set"
    BY <2>2, <1>1, <1>4 DEF SetIPs
  <2>4. x.type = t
    BY <2>3 DEF AddressOf
  <2>5. QED BY <2>4, <1>2 DEF Says
<1>5. QED BY <1>3, <1>4

-----------------------------------------------------------------------------
(* What a query means                                                       *)

\* The keys that the code looks at, in its order, are ranked as documented.
LEMMA RankOfKeys ==
  ASSUME NEW t \in Type
  PROVE  /\ Len(ParamKeys(t)) \in 1 .. 4
         /\ \A i \in 1 .. Len(ParamKeys(t)) : ParamKeys(t)[i] \in Consulted(t)
         /\ \A i, j \in 1 .. Len(ParamKeys(t)) :
              i < j => Rank(t, ParamKeys(t)[i]) < Rank(t, ParamKeys(t)[j])
         /\ \A p \in Consulted(t) : \E i \in 1 .. Len(ParamKeys(t)) : p = ParamKeys(t)[i]
         /\ \A p \in Consulted(t) : Rank(t, p) \in 1 .. 4
<1>1. CASE t = "A"
  BY <1>1 DEF ParamKeys, Consulted, Rank
<1>2. CASE t = "AAAA"
  BY <1>2 DEF ParamKeys, Consulted, Rank
<1>3. QED BY <1>1, <1>2 DEF Type

\* _find_action does what the documentation says of a query.
LEMMA FindMeant ==
  ASSUME NEW q \in Queries, NEW t \in Type, NEW n, NEW old \in SUBSET AddressesOf(t),
         Understood(q),
         FindAction(q, t).do = "set" => \A a \in FindAction(q, t).ips : a.type = t
  PROVE  /\ Documented(q, <<t, n>>, old) = Applied(FindAction(q, t), old)
         /\ Fits(FindAction(q, t), t)
<1> DEFINE keys == {p \in DOMAIN q.params \cap Consulted(t) : Says(q.params[p], t) # {}}
           best == {p \in keys : \A r \in keys : Rank(t, p) <= Rank(t, r)}
           T == Telling(q, t)
<1>1. Documented(q, <<t, n>>, old) =
        IF keys = {} THEN {q.client} \cap AddressesOf(t)
        ELSE UNION {Meant(q.params[p], t, old) : p \in best}
  BY DEF Documented, AddressesOf
<1>2. ASSUME NEW p \in keys
      PROVE  \E i \in T : p = ParamKeys(t)[i]
  <2>1. PICK i \in 1 .. Len(ParamKeys(t)) : p = ParamKeys(t)[i]
    BY RankOfKeys
  <2>2. About(q.params[p], t) # {}
    BY DEF About, Says
  <2>3. QED BY <2>1, <2>2 DEF Telling
<1>3. CASE T = {}
  <2>1. keys = {}
    BY <1>2, <1>3
  <2>2. FindAction(q, t) = SetIPs({q.client} \cap AddressesOf(t))
    BY <1>3 DEF FindAction, AddressesOf
  <2>3. QED BY <1>1, <2>1, <2>2 DEF Applied, Fits, SetIPs
<1>4. CASE T # {}
  <2> DEFINE i == First(T)
             p == ParamKeys(t)[i]
  <2>1. T \in SUBSET (1 .. 4)
    BY RankOfKeys DEF Telling
  <2>2. i \in T /\ \A j \in T : i <= j
    BY <2>1, <1>4, FirstIn
  <2>3. i \in 1 .. Len(ParamKeys(t)) /\ p \in DOMAIN q.params /\ About(q.params[p], t) # {}
    BY <2>2 DEF Telling
  <2>4. FindAction(q, t) = ActionOf(q.params[p], t)
    BY <1>4 DEF FindAction, Told
  <2>5. q.params[p] \in SUBSET Text
    BY <2>3, QueryAssumption
  <2>6. ~Inconsistent(About(q.params[p], t))
    BY <1>4 DEF Understood, Told
  <2>7. p \in keys
    <3>1. Says(q.params[p], t) # {}
      BY <2>3, <2>4, <2>5, <2>6, SaidIsAbout
    <3>2. QED BY <3>1, <2>3, RankOfKeys
  <2>8. ASSUME NEW r \in keys PROVE r = p \/ Rank(t, p) < Rank(t, r)
    <3>1. PICK j \in T : r = ParamKeys(t)[j]
      BY <1>2
    <3>2. j \in 1 .. Len(ParamKeys(t)) /\ i <= j
      BY <2>2 DEF Telling
    <3>3. CASE i = j
      BY <3>1, <3>3
    <3>4. CASE i < j
      BY <3>1, <3>2, <3>4, <2>3, RankOfKeys
    <3>5. i \in 1 .. 4 /\ j \in 1 .. 4
      BY <2>1, <2>2
    <3>6. i = j \/ i < j
      BY <3>2, <3>5
    <3>7. QED BY <3>3, <3>4, <3>6
  <2>9. \A r \in keys : Rank(t, r) \in 1 .. 4
    BY RankOfKeys
  <2>10. best = {p}
    BY <2>7, <2>8, <2>9
  <2>11. Documented(q, <<t, n>>, old) = Meant(q.params[p], t, old)
    <3>1. Documented(q, <<t, n>>, old) = UNION {Meant(q.params[r], t, old) : r \in best}
      BY <1>1, <2>7
    <3>2. {Meant(q.params[r], t, old) : r \in best} = {Meant(q.params[p], t, old)}
      BY <2>10
    <3>3. QED BY <3>1, <3>2
  <2>12. QED BY <2>11, <2>4, <2>5, <2>6, ValueMeant
<1>5. QED BY <1>3, <1>4

\* get_queryset, the parameters of one host and the general ones together: what a
\* request is going to write is what the documentation says of every RRset, and it
\* writes none of Silent.
LEMMA DataRight ==
  ASSUME NEW q \in Queries, Located(q), Understood(q), Acceptable(q),
         \A k \in Key : store[k] \subseteq AddressesOf(k[1])
  PROVE  /\ DOMAIN Data(q) \subseteq Type \X AllNames(q)
         /\ DOMAIN Data(q) \subseteq Key
         /\ \A k \in DOMAIN Data(q) :
              /\ Data(q)[k] \subseteq AddressesOf(k[1])
              /\ DomainsOf(k[2]) # {}
              /\ Data(q)[k] = Expected(q, k, store[k])
         /\ \A k \in Key \ (DOMAIN Data(q) \cup Silent(q)) :
              \A old \in SUBSET AddressesOf(k[1]) : Expected(q, k, old) = old
<1> DEFINE acts == Actions(q)
           D == DOMAIN Data(q)
<1>1. /\ DOMAIN acts = (Type \X QNames(q)) \cup DOMAIN q.extra
      /\ D = {l \in DOMAIN acts : acts[l].do # "preserve"}
      /\ \A k \in D : Data(q)[k] = GetRecords(acts[k], k[2])
      /\ \A k \in DOMAIN acts :
           acts[k] = IF k \in DOMAIN q.extra THEN HostAction(q, k) ELSE FindAction(q, k[1])
  BY DEF Data, Actions
<1>2. DOMAIN q.extra \subseteq Key /\ \A k \in DOMAIN q.extra : q.extra[k] \in SUBSET Text
  BY QueryAssumption
<1>3. D \subseteq Type \X AllNames(q)
  BY <1>1, <1>2 DEF AllNames, Key
<1>4. \A n \in AllNames(q) : DomainsOf(n) # {} /\ n \in Name
  <2> SUFFICES ASSUME NEW n \in AllNames(q)
               PROVE  DomainsOf(n) # {} /\ n \in Name
    OBVIOUS
  <2>1. DomainsOf(n) # {}
    BY DEF Located
  <2>2. PICK m \in DomainsOf(n) : TRUE
    BY <2>1
  <2>3. <<n, m>> \in Below
    BY <2>2 DEF DomainsOf
  <2>4. QED BY <2>1, <2>3, NameAssumption
<1>5. D \subseteq Key
  BY <1>3, <1>4 DEF Key
<1>6. ASSUME NEW k \in DOMAIN acts, k \in Key, NEW old \in SUBSET AddressesOf(k[1])
      PROVE  /\ k \notin Silent(q) => Expected(q, k, old) = Applied(acts[k], old)
             /\ Fits(acts[k], k[1])
             /\ k \in Silent(q) => acts[k].do = "preserve"
  <2>1. k[1] \in Type /\ k = <<k[1], k[2]>>
    BY <1>6 DEF Key
  <2>2. ASSUME acts[k].do = "set" PROVE \A a \in acts[k].ips : a.type = k[1]
    <3>1. k \in D /\ Data(q)[k] = acts[k].ips
      BY <1>1, <2>2 DEF GetRecords
    <3>2. QED BY <3>1 DEF Acceptable
  <2>3. CASE k \in DOMAIN q.extra /\ About(q.extra[k], k[1]) = {}
    <3>1. acts[k] = PreserveIPs
      BY <1>1, <2>3 DEF HostAction
    <3>2. k \in Silent(q)
      BY <2>3 DEF Silent, Says, About
    <3>3. QED BY <3>1, <3>2 DEF Fits, PreserveIPs
  <2>4. CASE k \in DOMAIN q.extra /\ About(q.extra[k], k[1]) # {}
    <3>1. acts[k] = ActionOf(q.extra[k], k[1])
      BY <1>1, <2>4 DEF HostAction
    <3>2. Expected(q, k, old) = Meant(q.extra[k], k[1], old)
      BY <2>4 DEF Expected
    <3>3. ~Inconsistent(About(q.extra[k], k[1])) /\ q.extra[k] \in SUBSET Text
      BY <2>4, <1>2 DEF Understood
    <3>4. k \notin Silent(q)
      BY <3>1, <3>3, <2>1, <2>2, <2>4, SaidIsAbout DEF Silent
    <3>5. QED BY <3>1, <3>2, <3>3, <3>4, <2>1, <2>2, ValueMeant
  <2>5. CASE k \notin DOMAIN q.extra
    <3>1. acts[k] = FindAction(q, k[1]) /\ k[2] \in QNames(q)
      BY <1>1, <2>5, <2>1
    <3>2. Expected(q, k, old) = Documented(q, <<k[1], k[2]>>, old)
      BY <3>1, <2>5, <2>1 DEF Expected
    <3>3. k \notin Silent(q)
      BY <2>5 DEF Silent
    <3>4. QED BY <3>1, <3>2, <3>3, <2>1, <2>2, FindMeant
  <2>6. QED BY <2>3, <2>4, <2>5
<1>7. ASSUME NEW k \in D
      PROVE  /\ Data(q)[k] \subseteq AddressesOf(k[1])
             /\ Data(q)[k] = Expected(q, k, store[k])
  <2>1. k \in Key /\ k \in DOMAIN acts /\ acts[k].do # "preserve"
    BY <1>1, <1>5
  <2>2. Expected(q, k, store[k]) = Applied(acts[k], store[k]) /\ Fits(acts[k], k[1])
    BY <1>6, <2>1
  <2>3. CASE acts[k].do = "set"
    <3>1. Data(q)[k] = acts[k].ips
      BY <1>1, <2>3 DEF GetRecords
    <3>2. QED BY <3>1, <2>2, <2>3 DEF Applied, Fits
  <2>4. CASE acts[k].do = "subnet"
    <3>1. Data(q)[k] = ReplaceIPSubnet(Records(k[2]), acts[k])
      BY <1>1, <2>4 DEF GetRecords
    <3>2. acts[k].type = k[1] /\ acts[k].net \in Net
      BY <2>2, <2>4 DEF Fits
    <3>3. k[1] \in Type /\ k = <<k[1], k[2]>> /\ k[2] \in Name
      BY <2>1 DEF Key
    <3>4. \A t \in Type : store[<<t, k[2]>>] \subseteq AddressesOf(t)
      <4>1. \A t \in Type : <<t, k[2]>> \in Key BY <3>3 DEF Key
      <4>2. QED BY <4>1
    <3>5. OfType(Records(k[2]), k[1]) = store[k]
      <4>1. \A t \in Type : \A a \in store[<<t, k[2]>>] : a.type = t
        BY <3>4 DEF AddressesOf
      <4>2. \A a : a \in Records(k[2]) <=> \E t \in Type : a \in store[<<t, k[2]>>]
        BY DEF Records
      <4>3. \A a \in OfType(Records(k[2]), k[1]) : a \in store[k]
        BY <4>1, <4>2, <3>3 DEF OfType
      <4>4. \A a \in store[k] : a \in OfType(Records(k[2]), k[1])
        BY <4>1, <4>2, <3>3 DEF OfType
      <4>5. QED BY <4>3, <4>4 DEF OfType
    <3>6. Data(q)[k] = {[a EXCEPT !.net = acts[k].net] : a \in store[k]}
      BY <3>1, <3>2, <3>5 DEF ReplaceIPSubnet
    <3>7. Data(q)[k] = Applied(acts[k], store[k])
      BY <3>6, <2>4 DEF Applied
    <3>8. \A a \in store[k] : [a EXCEPT !.net = acts[k].net] \in AddressesOf(k[1])
      BY <3>2, <3>3, <3>4 DEF AddressesOf
    <3>9. QED BY <3>6, <3>7, <3>8, <2>2
  <2>5. QED BY <2>1, <2>2, <2>3, <2>4 DEF Fits
<1>8. ASSUME NEW k \in Key \ (D \cup Silent(q)), NEW old \in SUBSET AddressesOf(k[1])
      PROVE  Expected(q, k, old) = old
  <2>1. CASE k \in DOMAIN acts
    BY <2>1, <1>1, <1>6 DEF Applied
  <2>2. CASE k \notin DOMAIN acts
    <3>1. k \notin DOMAIN q.extra /\ k[2] \notin QNames(q)
      BY <2>2, <1>1 DEF Key
    <3>2. QED BY <3>1 DEF Expected
  <2>3. QED BY <2>1, <2>2
<1>9. QED BY <1>3, <1>4, <1>5, <1>7, <1>8
-----------------------------------------------------------------------------
(* The invariant                                                            *)

Payload == UNION {[K -> SUBSET Address] : K \in SUBSET Key}
JobType == [stage : {"idle", "read", "valid"}, query : Queries \cup {[at |-> None]},
            data : Payload, known : SUBSET Key, late : SUBSET Key]

\* A request under way is going to write what is expected of every RRset that
\* nobody else has written since it looked, and has seen all that were there.
JobRight(j, s) ==
  j.stage # "idle" =>
    /\ j.query \in Queries
    /\ \A k \in DOMAIN j.data : /\ j.data[k] \subseteq AddressesOf(k[1])
                                /\ DomainsOf(k[2]) # {}
    /\ \A k \in DOMAIN j.data \ j.late : j.data[k] = Expected(j.query, k, s[k])
    /\ \A k \in Key \ (DOMAIN j.data \cup Silent(j.query)) :
         \A old \in SUBSET AddressesOf(k[1]) : Expected(j.query, k, old) = old
    /\ j.stage = "read" =>
         \A k \in DOMAIN j.data \ (j.known \cup j.late) : s[k] = {}

StoreType ==
  \A k \in Key : /\ store[k] \subseteq AddressesOf(k[1])
                 /\ store[k] # {} => DomainsOf(k[2]) # {}

IInv ==
  /\ domains \in Ownable
  /\ job \in [Worker -> JobType]
  /\ StoreType
  /\ \A w \in Worker : JobRight(job[w], store)

LEMMA PayloadKeys ==
  ASSUME NEW x \in Payload
  PROVE  DOMAIN x \in SUBSET Key /\ \A k \in DOMAIN x : x[k] \in SUBSET Address
BY DEF Payload

LEMMA IdleType == Idle \in JobType
<1>1. None \in [{} -> SUBSET Address]
  BY DEF None
<1>2. None \in Payload
  BY <1>1 DEF Payload
<1>3. QED BY <1>2 DEF Idle, JobType

\* What is expected depends on the domains only.
LEMMA RightKept ==
  ASSUME domains' = domains, NEW w \in Worker, JobRight(job'[w], store')
  PROVE  JobRight(job[w], store)'
<1>1. \A n : DomainsOf(n)' = DomainsOf(n)
  BY DEF DomainsOf
<1>2. SUFFICES ASSUME job'[w].stage # "idle" PROVE JobRight(job[w], store)'
  BY DEF JobRight
<1>3. job'[w].query \in Queries
  BY <1>2 DEF JobRight
<1>4. \A k \in DOMAIN job'[w].data : job'[w].data[k] \subseteq AddressesOf(k[1])
                                   /\ DomainsOf(k[2])' # {}
  BY <1>1, <1>2 DEF JobRight
<1>5. \A k \in DOMAIN job'[w].data \ job'[w].late :
        job'[w].data[k] = Expected(job[w].query, k, store[k])'
  BY <1>2, <1>3 DEF JobRight, Expected, QNames
<1>6. \A k \in Key \ (DOMAIN job'[w].data \cup Silent(job'[w].query)) :
        \A old \in SUBSET AddressesOf(k[1]) : Expected(job[w].query, k, old)' = old
  BY <1>2, <1>3 DEF JobRight, Expected, QNames
<1>7. QED BY <1>2, <1>3, <1>4, <1>5, <1>6 DEF JobRight

LEMMA IInvInit == Init => IInv
<1> SUFFICES ASSUME Init PROVE IInv
  OBVIOUS
<1>1. job \in [Worker -> JobType]
  BY IdleType DEF Init
<1>2. StoreType
  BY DEF Init, StoreType
<1>3. \A w \in Worker : JobRight(job[w], store)
  BY DEF Init, JobRight, Idle
<1>4. QED BY <1>1, <1>2, <1>3 DEF Init, IInv

\* Rows for x, within the domains, reach no other job but through "late".
LEMMA PutKeeps ==
  ASSUME IInv, NEW x, NEW others \in SUBSET Worker, Put(x, others),
         DOMAIN x \subseteq Key,
         \A k \in DOMAIN x : x[k] \subseteq AddressesOf(k[1]) /\ DomainsOf(k[2]) # {}
  PROVE  IInv'
<1>1. domains' = domains
  BY DEF Put
<1>2. \A k \in Key : store'[k] = IF k \in DOMAIN x THEN x[k] ELSE store[k]
  BY DEF Put
<1>3. StoreType'
  <2>1. \A k \in Key : /\ store'[k] \subseteq AddressesOf(k[1])
                       /\ store'[k] # {} => DomainsOf(k[2]) # {}
    BY <1>2 DEF StoreType, IInv
  <2>2. QED BY <2>1, <1>1 DEF StoreType, DomainsOf
<1>4. ASSUME NEW w \in Worker
      PROVE  job'[w] \in JobType /\ JobRight(job'[w], store')
  <2>1. CASE w \notin others
    <3>1. job'[w] = Idle
      BY <2>1 DEF Put
    <3>2. QED BY <3>1, IdleType DEF JobRight, Idle
  <2>2. CASE w \in others
    <3> DEFINE j == job[w]
               late == j.late \cup (DOMAIN x \cap DOMAIN j.data)
    <3>1. job'[w] = [j EXCEPT !.late = late]
      BY <2>2 DEF Put
    <3>2. j \in JobType
      BY DEF IInv
    <3>3. DOMAIN j.data \in SUBSET Key
      BY <3>2, PayloadKeys DEF JobType
    <3>4. /\ job'[w].stage = j.stage /\ job'[w].query = j.query /\ job'[w].data = j.data
          /\ job'[w].known = j.known /\ job'[w].late = late
          /\ job'[w] \in JobType
      BY <3>1, <3>2, <3>3 DEF JobType
    <3>5. \A k \in DOMAIN j.data \ late : store'[k] = store[k] /\ k \in DOMAIN j.data \ j.late
      BY <1>2, <3>3
    <3>6. JobRight(j, store)
      BY DEF IInv
    <3>7. JobRight(job'[w], store')
      BY <3>4, <3>5, <3>6 DEF JobRight
    <3>8. QED BY <3>4, <3>7
  <2>3. QED BY <2>1, <2>2
<1>5. job' \in [Worker -> JobType]
  BY <1>4 DEF Put
<1>6. \A w \in Worker : JobRight(job[w], store)'
  BY <1>1, <1>4, RightKept
<1>7. QED BY <1>1, <1>3, <1>5, <1>6 DEF IInv

\* A step of one worker that writes nothing.
LEMMA OneJob ==
  ASSUME IInv, NEW w \in Worker, NEW J \in JobType, job' = [job EXCEPT ![w] = J],
         UNCHANGED <<domains, store>>, JobRight(J, store)
  PROVE  IInv'
<1>1. job' \in [Worker -> JobType]
  BY DEF IInv
<1>2. \A v \in Worker : JobRight(job'[v], store')
  BY DEF IInv
<1>3. \A v \in Worker : JobRight(job[v], store)'
  BY <1>2, RightKept
<1>4. StoreType'
  BY DEF StoreType, IInv, DomainsOf
<1>5. QED BY <1>1, <1>3, <1>4 DEF IInv

LEMMA ReadKeeps ==
  ASSUME IInv, NEW w \in Worker, NEW q \in Queries, Read(w, q)
  PROVE  IInv'
<1> DEFINE J == [stage |-> "read", query |-> q, data |-> Data(q),
                 known |-> GetQueryset(q), late |-> {}]
<1>1. \A k \in Key : store[k] \subseteq AddressesOf(k[1])
  BY DEF IInv, StoreType
<1>2. Located(q) /\ Understood(q) /\ Acceptable(q)
  BY DEF Read
<1>3. /\ DOMAIN Data(q) \subseteq Type \X AllNames(q)
      /\ DOMAIN Data(q) \subseteq Key
      /\ \A k \in DOMAIN Data(q) :
           /\ Data(q)[k] \subseteq AddressesOf(k[1])
           /\ DomainsOf(k[2]) # {}
           /\ Data(q)[k] = Expected(q, k, store[k])
      /\ \A k \in Key \ (DOMAIN Data(q) \cup Silent(q)) :
           \A old \in SUBSET AddressesOf(k[1]) : Expected(q, k, old) = old
  BY <1>1, <1>2, DataRight
<1>4. Data(q) \in Payload
  <2>1. \A k \in DOMAIN Data(q) : Data(q)[k] \subseteq Address
    <3>1. \A k \in Key : AddressesOf(k[1]) \subseteq Address
      BY DEF AddressesOf, Address, Key
    <3>2. QED BY <3>1, <1>3
  <2>2. Data(q) \in [DOMAIN Data(q) -> SUBSET Address]
    BY <2>1 DEF Data
  <2>3. QED BY <2>2, <1>3 DEF Payload
<1>5. GetQueryset(q) \in SUBSET Key
  <2>1. \A n \in AllNames(q) : n \in Name
    <3> SUFFICES ASSUME NEW n \in AllNames(q) PROVE n \in Name
      OBVIOUS
    <3>1. PICK m \in DomainsOf(n) : TRUE
      BY <1>2 DEF Located
    <3>2. <<n, m>> \in Below
      BY <3>1 DEF DomainsOf
    <3>3. QED BY <3>2, NameAssumption
  <2>2. QED BY <2>1 DEF GetQueryset, Stored, AllNames, Key
<1>6. J \in JobType
  BY <1>4, <1>5 DEF JobType
<1>7. \A k \in DOMAIN Data(q) \ GetQueryset(q) : store[k] = {}
  BY <1>3 DEF GetQueryset, Stored, AllNames
<1>8. JobRight(J, store)
  BY <1>3, <1>7 DEF JobRight
<1>9. QED BY <1>6, <1>8, OneJob DEF Read

LEMMA IInvStep == IInv /\ [Next]_vars => IInv'
<1> SUFFICES ASSUME IInv, [Next]_vars PROVE IInv'
  OBVIOUS
<1>1. ASSUME NEW x \in Writes, Write(x) PROVE IInv'
  <2>1. \A k \in DOMAIN x : k \in Key /\ x[k] \subseteq AddressesOf(k[1])
    BY WriteAssumption DEF Address, AddressesOf
  <2>2. \A k \in DOMAIN x : DomainsOf(k[2]) # {}
    BY <1>1 DEF Write
  <2>3. Put(x, Worker)
    BY <1>1 DEF Write
  <2>4. QED BY <2>1, <2>2, <2>3, PutKeeps
<1>2. ASSUME NEW w \in Worker, Validate(w) PROVE IInv'
  <2> DEFINE J == [job[w] EXCEPT !.stage = "valid"]
  <2>1. job' = [job EXCEPT ![w] = J] /\ UNCHANGED <<domains, store>> /\ job[w].stage = "read"
    BY <1>2 DEF Validate
  <2>2. job[w] \in JobType
    BY DEF IInv
  <2>3. J \in JobType
    BY <2>2 DEF JobType
  <2>4. J.stage = "valid" /\ J.query = job[w].query /\ J.data = job[w].data /\ J.late = job[w].late
    BY <2>2 DEF JobType
  <2>5. JobRight(J, store)
    <3>1. JobRight(job[w], store)
      BY DEF IInv
    <3>2. QED BY <3>1, <2>1, <2>4 DEF JobRight
  <2>6. QED BY <2>1, <2>3, <2>5, OneJob
<1>3. ASSUME NEW w \in Worker, Conflict(w) PROVE IInv'
  <2>1. job' = [job EXCEPT ![w] = Idle] /\ UNCHANGED <<domains, store>>
    BY <1>3 DEF Conflict
  <2>2. JobRight(Idle, store)
    BY DEF JobRight, Idle
  <2>3. QED BY <2>1, <2>2, IdleType, OneJob
<1>4. ASSUME NEW w \in Worker, Save(w) PROVE IInv'
  <2>1. job[w].stage = "valid" /\ Put(job[w].data, Worker \ {w})
    BY <1>4 DEF Save
  <2>2. job[w].data \in Payload
    BY DEF IInv, JobType
  <2>3. JobRight(job[w], store)
    BY DEF IInv
  <2>4. \A k \in DOMAIN job[w].data :
          job[w].data[k] \subseteq AddressesOf(k[1]) /\ DomainsOf(k[2]) # {}
    BY <2>1, <2>3 DEF JobRight
  <2>5. QED BY <2>1, <2>2, <2>4, PayloadKeys, PutKeeps
<1>5. ASSUME NEW w \in Worker, NEW q \in Queries, Read(w, q) PROVE IInv'
  BY <1>5, ReadKeeps
<1>6. ASSUME UNCHANGED vars PROVE IInv'
  <2>1. domains' = domains /\ store' = store /\ job' = job
    BY <1>6 DEF vars
  <2>2. \A w \in Worker : JobRight(job[w], store)'
    BY <2>1, RightKept DEF IInv
  <2>3. StoreType'
    BY <2>1 DEF StoreType, IInv, DomainsOf
  <2>4. QED BY <2>1, <2>2, <2>3 DEF IInv
<1>7. QED BY <1>1, <1>2, <1>3, <1>4, <1>5, <1>6 DEF Next

LEMMA Invariance == Spec => []IInv
<1>1. QED BY IInvInit, IInvStep, PTL DEF Spec

-----------------------------------------------------------------------------
(* Theorems                                                                 *)

\* RRsets hold addresses of their type only, below domains of the user.
THEOREM RecordsWellTyped == Spec => []TypeOK
<1>1. IInv => TypeOK
  <2> SUFFICES ASSUME IInv PROVE TypeOK
    OBVIOUS
  <2>1. \A w \in Worker :
          /\ job[w].stage \in {"idle", "read", "valid"}
          /\ job[w].known \cup job[w].late \cup DOMAIN job[w].data \subseteq Key
    BY PayloadKeys DEF IInv, JobType
  <2>2. QED BY <2>1 DEF IInv, TypeOK, StoreType, AddressesOf
<1>2. QED BY <1>1, Invariance, PTL

\* A request that nobody overtakes has the effect that the documentation states on
\* every RRset but those of Silent.
THEOREM EffectAsDocumented == Spec => DocumentedEffect
<1>1. ASSUME IInv, NEW w \in Worker, Save(w),
             NEW k \in Key \ (job[w].late \cup Silent(job[w].query))
      PROVE  store'[k] = Expected(job[w].query, k, store[k])
  <2>1. job[w].stage = "valid" /\ Put(job[w].data, Worker \ {w})
    BY <1>1 DEF Save
  <2>2. JobRight(job[w], store)
    BY <1>1 DEF IInv
  <2>3. store[k] \in SUBSET AddressesOf(k[1])
    BY <1>1 DEF IInv, StoreType
  <2>4. CASE k \in DOMAIN job[w].data
    <3>1. store'[k] = job[w].data[k]
      BY <2>1, <2>4 DEF Put
    <3>2. QED BY <3>1, <2>1, <2>2, <2>4 DEF JobRight
  <2>5. CASE k \notin DOMAIN job[w].data
    <3>1. store'[k] = store[k]
      BY <2>1, <2>5 DEF Put
    <3>2. QED BY <3>1, <2>1, <2>2, <2>3, <2>5 DEF JobRight
  <2>6. QED BY <2>4, <2>5
<1>2. IInv /\ [Next]_vars =>
        [\A w \in Worker :
           Save(w) => \A k \in Key \ (job[w].late \cup Silent(job[w].query)) :
                        store'[k] = Expected(job[w].query, k, store[k])]_vars
  BY <1>1
<1>3. QED BY <1>2, Invariance, PTL DEF Spec, DocumentedEffect

\* 429 is answered only to a request that somebody has overtaken.
THEOREM ConflictsAreReal == Spec => NoFalseConflict
<1>1. ASSUME IInv, NEW w \in Worker, Conflict(w)
      PROVE  job[w].late # {}
  <2>1. job[w].stage = "read" /\ Clash(w)
    BY <1>1 DEF Conflict
  <2>2. PICK k \in DOMAIN job[w].data \ job[w].known : store[k] # {}
    BY <2>1 DEF Clash
  <2>3. JobRight(job[w], store)
    BY <1>1 DEF IInv
  <2>4. QED BY <2>1, <2>2, <2>3 DEF JobRight
<1>2. IInv /\ [Next]_vars =>
        [\A w \in Worker : Conflict(w) => job[w].late # {}]_vars
  BY <1>1
<1>3. QED BY <1>2, Invariance, PTL DEF Spec, NoFalseConflict
=============================================================================
