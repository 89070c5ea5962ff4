-------------------------------- MODULE Loader --------------------------------
(***************************************************************************)
(* parse_yaml (src/parser/yaml_parser.cpp) and the build_indexes it ends   *)
(* with (src/topology/graph.cpp): the sections of a file read one after    *)
(* the other into the vectors of a Topology, then the nodes and their      *)
(* ports entered into the indexes, then the domains.  Any exception ends   *)
(* it without a topology.                                                  *)
(*                                                                         *)
(* The records it builds are those module Rules reads.  Fields no rule     *)
(* reads (src_ip, dst_port, key_id, the storm limits) are converted, since *)
(* that can throw, and dropped; so are the source lines.                   *)
(***************************************************************************)
EXTENDS Topology, Yaml, SequencesExt, TLC

CONSTANTS Documents,   \* files by number: their root nodes, or [kind |-> "malformed"]
          Largest      \* the largest value of each integer type

ASSUME LargestType == Largest \in [u8 : Nat, u16 : Nat, u32 : Nat, i32 : Nat]

VARIABLES file,            \* the file that is loaded
          stage,           \* "read", "nodes", "domains", "loaded" or "threw"
          unread,          \* sections still to be read
          parsed,          \* the vectors of the Topology
          next,            \* the node, then the domain, to be indexed next
          node_index,      \* id |-> position in parsed.nodes
          port_index,      \* "node::port" |-> position of its node, position there
          node_to_domain

loader == <<file, stage, unread, parsed, next, node_index, port_index, node_to_domain>>

U(type) == 0..Largest[type]
I32     == (-Largest.i32)..Largest.i32

-----------------------------------------------------------------------------
(* parse_port and what it calls.                                           *)

ParseCbs(n) ==
    {[idle |-> i, send |-> s, hi |-> h, lo |-> l] :
        i \in OptionalNumber(n, "idle_slope_kbps", U("u32"), 0),
        s \in OptionalNumber(n, "send_slope_kbps", I32, 0),
        h \in OptionalNumber(n, "hi_credit", I32, 0),
        l \in OptionalNumber(n, "lo_credit", I32, 0)}

ParseTas(n) ==
    {[gcl |-> g, cycle |-> c] : g \in OptionalFlag(n, "gcl_present", FALSE),
                                c \in OptionalNumber(n, "cycle_time_ns", U("u32"), 0)}

(* An std::optional: a set of at most one member.                          *)
Given(n, key, value) == Optional(n, key, {{x} : x \in value}, {})

(* A port without qos has no shapers.                                      *)
Qos(n) == IF IsDefined(Field(n, "qos")) THEN Field(n, "qos") ELSE [kind |-> "null"]

ParseShapers(q) ==
    {[a |-> a, b |-> b, tas |-> t] :
        a \in Given(q, "cbs_class_a", ParseCbs(Field(q, "cbs_class_a"))),
        b \in Given(q, "cbs_class_b", ParseCbs(Field(q, "cbs_class_b"))),
        t \in Given(q, "tas", ParseTas(Field(q, "tas")))}

ParseMacsec(n) ==
    {m.enabled : m \in [enabled : OptionalFlag(n, "enabled", FALSE),
                        sci : OptionalNumber(n, "sci", U("u32"), 0),
                        key_id : OptionalText(n, "key_id", "")]}

ParseFirewall(n) ==
    {[stream |-> m.stream, ip |-> m.ip, action |-> m.action] :
        m \in [stream : OptionalText(n, "stream_id", ""),
               from   : Optional(n, "src_ip", AsAddress(Field(n, "src_ip")), 0),
               ip     : Optional(n, "dst_ip", AsAddress(Field(n, "dst_ip")), 0),
               port   : OptionalNumber(n, "dst_port", U("u16"), 0),
               action : OptionalText(n, "action", "permit")]}

ParseStorm(n) ==
    OptionalNumber(n, "broadcast_limit_kbps", U("u32"), 0)
      \X OptionalNumber(n, "multicast_limit_kbps", U("u32"), 0)

(* Fields of a port.                                                       *)
ParseTagged(n)    == OptionalFlag(n, "tagged", TRUE)
ParseVlans(n)     == Each([i \in DOMAIN Items(n, "vlans") |-> AsNumber(Items(n, "vlans")[i], U("u16"))])
ParseFirewalls(n) == Each([i \in DOMAIN Items(n, "firewall") |-> ParseFirewall(Items(n, "firewall")[i])])
ParseProtected(n) == Optional(n, "macsec", ParseMacsec(Field(n, "macsec")), FALSE)

ParsePort(n) ==
    {[id |-> id, tagged |-> tg, pvid |-> pv, rate |-> r, vlans |-> Range(v),
      cbs_a |-> q.a, cbs_b |-> q.b, tas |-> q.tas, macsec |-> m, firewall |-> Range(f),
      storm |-> IsDefined(Field(n, "storm_control"))] :
        id \in RequiredText(n, "id"),
        tg \in ParseTagged(n),
        pv \in OptionalNumber(n, "pvid", U("u16"), 1),
        r  \in OptionalNumber(n, "line_rate_kbps", U("u32"), 1000000),
        v  \in ParseVlans(n),
        q  \in ParseShapers(Qos(n)),
        m  \in ParseProtected(n),
        f  \in ParseFirewalls(n),
        sc \in Given(n, "storm_control", ParseStorm(Field(n, "storm_control")))}

-----------------------------------------------------------------------------
(* The entries of the sections.  A type that is not "switch" is an ECU.    *)

ParseNode(n) ==
    {[id |-> id, type |-> IF ty = "switch" THEN "SWITCH" ELSE "ECU", ports |-> ps] :
        id \in RequiredText(n, "id"),
        ty \in OptionalText(n, "type", "ecu"),
        ps \in Each([i \in DOMAIN Items(n, "ports") |-> ParsePort(Items(n, "ports")[i])])}

ParseHop(n, node, port) ==
    {[node |-> x, port |-> y] : x \in RequiredText(n, node), y \in RequiredText(n, port)}

ParseLink(n) ==
    {[src |-> s, dst |-> d] : s \in ParseHop(n, "src", "src_port"), d \in ParseHop(n, "dst", "dst_port")}

Names(n, key) == Each([i \in DOMAIN Items(n, key) |-> AsText(Items(n, key)[i])])

(* A destination that is no list has no items.                             *)
ParseStream(n) ==
    {[id |-> id, src |-> s, dsts |-> Range(d), vlan |-> v, mcast |-> m, class |-> c,
      bandwidth |-> b, safety |-> l, budget_us |-> t] :
        id \in RequiredText(n, "id"),
        s  \in RequiredText(n, "src"),
        d  \in Names(n, "dst"),
        v  \in OptionalNumber(n, "vlan_id", U("u16"), 0),
        c  \in OptionalNumber(n, "tsn_class", U("u8"), 0),
        b  \in OptionalNumber(n, "bandwidth_kbps", U("u32"), 0),
        l  \in OptionalNumber(n, "safety_level", U("u8"), 0),
        t  \in OptionalNumber(n, "max_latency_us", U("u32"), 0),
        m  \in IF Field(n, "multicast_ip").kind = "null" THEN {0}
               ELSE Optional(n, "multicast_ip", AsGroup(Field(n, "multicast_ip")), 0)}

ParseGroup(n) ==
    {[switch |-> sw, ip |-> ip] : sw \in RequiredText(n, "switch_id"),
                                  ip \in Required(n, AsGroup(Field(n, "group_ip")))}

ParseService(n) ==
    [service  : RequiredNumber(n, "service_id", U("u16")),
     instance : RequiredNumber(n, "instance_id", U("u16")),
     port     : RequiredNumber(n, "port", U("u16")),
     ecu      : RequiredText(n, "provider_ecu")]

ParseDomain(n) == [id : RequiredText(n, "id"), nodes : Names(n, "nodes")]

(* The keys of the root in the order they are read, and what each yields.  *)
Sections == <<"ecus", "nodes", "links", "streams", "multicast_groups", "someip_services", "domains">>

VectorOf(section) == IF section = "ecus" THEN "nodes" ELSE section
Vectors == {VectorOf(Sections[i]) : i \in 1..Len(Sections)}

ParseEntry(section, n) ==
    CASE VectorOf(section) = "nodes"       -> ParseNode(n)
      [] section = "links"                 -> ParseLink(n)
      [] section = "streams"               -> ParseStream(n)
      [] section = "multicast_groups"      -> ParseGroup(n)
      [] section = "someip_services"       -> ParseService(n)
      [] section = "domains"               -> ParseDomain(n)

ParseSection(d, section) ==
    IF d.kind = "malformed" THEN {} ELSE
    Each([i \in DOMAIN Items(d, section) |-> ParseEntry(section, Items(d, section)[i])])

(* What is read from each file, section by section.                        *)
Read(d) == [ecus             |-> ParseSection(d, "ecus"),
            nodes            |-> ParseSection(d, "nodes"),
            links            |-> ParseSection(d, "links"),
            streams          |-> ParseSection(d, "streams"),
            multicast_groups |-> ParseSection(d, "multicast_groups"),
            someip_services  |-> ParseSection(d, "someip_services"),
            domains          |-> ParseSection(d, "domains")]

Reading == [f \in DOMAIN Documents |-> Read(Documents[f])] \o <<>>

(* The function itself; TLC works every value out once to compare it.      *)
Tabulated(fun) == CHOOSE f \in {fun} : f = fun

(* Lists are sequences, of files and in files.                             *)
IsList(x) == x \in Seq(Range(x))

ASSUME DocumentsType ==
    /\ IsList(Documents)
    /\ \A f \in DOMAIN Documents : Documents[f].kind # "malformed" =>
         \A s \in Range(Sections) :
           LET ns == Items(Documents[f], s) IN
             IsList(ns) /\ \A i \in DOMAIN ns : IsList(Items(ns[i], "ports"))

(* A conversion has one result: a file is read in one way, or not at all.  *)
ASSUME ReadOneWay ==
    \A f \in DOMAIN Documents : \A s \in Range(Sections) : \A a, b \in Reading[f][s] : a = b

-----------------------------------------------------------------------------
LoadInit == /\ file \in DOMAIN Documents
            /\ stage = "read"
            /\ unread = Sections
            /\ parsed = [v \in Vectors |-> <<>>]
            /\ next = 1
            /\ node_index = <<>>
            /\ port_index = <<>>
            /\ node_to_domain = <<>>

(* LoadFile throws, or something on the way through the next section does. *)
ReadThrows == /\ stage = "read"
              /\ unread # <<>>
              /\ Reading[file][Head(unread)] = {}
              /\ stage' = "threw"
              /\ UNCHANGED <<file, unread, parsed, next, node_index, port_index, node_to_domain>>

ReadSection == /\ stage = "read"
               /\ unread # <<>>
               /\ \E entries \in Reading[file][Head(unread)] :
                    parsed' = [parsed EXCEPT ![VectorOf(Head(unread))] = @ \o entries]
               /\ unread' = Tail(unread)
               /\ UNCHANGED <<file, stage, next, node_index, port_index, node_to_domain>>

(* build_indexes is called when everything has been read: an index holds   *)
(* pointers into the vector of nodes, which moves when it grows.           *)
BuildIndexes == /\ stage = "read"
                /\ unread = <<>>
                /\ stage' = "nodes"
                /\ UNCHANGED <<file, unread, parsed, next, node_index, port_index, node_to_domain>>

Key(n, p) == n \o "::" \o p

PortKeys(node) == [j \in DOMAIN node.ports |-> Key(node.id, node.ports[j].id)]

Indexing == stage = "nodes" /\ next <= Len(parsed.nodes)
Node     == parsed.nodes[next]

Duplicate == \/ Node.id \in DOMAIN node_index
             \/ \E j \in DOMAIN Node.ports :
                  \/ PortKeys(Node)[j] \in DOMAIN port_index
                  \/ \E i \in 1..(j - 1) : PortKeys(Node)[i] = PortKeys(Node)[j]

(* map[key] = value                                                        *)
Enter(map, key, value) == [k \in DOMAIN map \cup {key} |-> IF k = key THEN value ELSE map[k]]

(* The bug: the pointer is taken when the loop has moved on.               *)
EnteredLate == /\ node_index' = Enter(node_index, Node.id, next + 1)
               /\ UNCHANGED port_index

(* What one turn of the loop over the nodes puts into the indexes.         *)
Entered == /\ node_index' = Enter(node_index, Node.id, next)
           /\ port_index' =
                [k \in DOMAIN port_index \cup Range(PortKeys(Node)) |->
                   IF k \in Range(PortKeys(Node))
                   THEN [node |-> next, port |-> CHOOSE j \in DOMAIN Node.ports : PortKeys(Node)[j] = k]
                   ELSE port_index[k]]

(* The bug: the nodes read so far are indexed before the next section.     *)
IndexNodeEarly == /\ stage \in {"read", "nodes"}
                  /\ next <= Len(parsed.nodes)
                  /\ ~Duplicate
                  /\ Entered
                  /\ next' = next + 1
                  /\ UNCHANGED <<file, stage, unread, parsed, node_to_domain>>

(* The bug: a port that is there already is not looked for.                *)
IndexNodeOverwrites == /\ Indexing
                       /\ Node.id \notin DOMAIN node_index
                       /\ Entered
                       /\ next' = next + 1
                       /\ UNCHANGED <<file, stage, unread, parsed, node_to_domain>>

IndexNode == /\ Indexing
             /\ ~Duplicate
             /\ Entered
             /\ next' = next + 1
             /\ UNCHANGED <<file, stage, unread, parsed, node_to_domain>>

IndexThrows == /\ Indexing
               /\ Duplicate
               /\ stage' = "threw"
               /\ UNCHANGED <<file, unread, parsed, next, node_index, port_index, node_to_domain>>

NodesIndexed == /\ stage = "nodes"
                /\ next > Len(parsed.nodes)
                /\ stage' = "domains"
                /\ next' = 1
                /\ UNCHANGED <<file, unread, parsed, node_index, port_index, node_to_domain>>

Domain == parsed.domains[next]

(* The bug: the first domain that lists a node keeps it.                   *)
IndexDomainFirst == /\ stage = "domains"
                    /\ next <= Len(parsed.domains)
                    /\ node_to_domain' =
                         [n \in DOMAIN node_to_domain \cup Range(Domain.nodes) |->
                            IF n \in DOMAIN node_to_domain THEN node_to_domain[n] ELSE Domain.id]
                    /\ next' = next + 1
                    /\ UNCHANGED <<file, stage, unread, parsed, node_index, port_index>>

IndexDomain == /\ stage = "domains"
               /\ next <= Len(parsed.domains)
               /\ node_to_domain' =
                    [n \in DOMAIN node_to_domain \cup Range(Domain.nodes) |->
                       IF n \in Range(Domain.nodes) THEN Domain.id ELSE node_to_domain[n]]
               /\ next' = next + 1
               /\ UNCHANGED <<file, stage, unread, parsed, node_index, port_index>>

Loaded == /\ stage = "domains"
          /\ next > Len(parsed.domains)
          /\ stage' = "loaded"
          /\ UNCHANGED <<file, unread, parsed, next, node_index, port_index, node_to_domain>>

LoadStep == \/ ReadThrows \/ ReadSection \/ BuildIndexes \/ IndexNode \/ IndexThrows
            \/ NodesIndexed \/ IndexDomain \/ Loaded

-----------------------------------------------------------------------------
(* What the rules see: every lookup goes through the joined key.           *)
HasPort(h) == Key(h.node, h.port) \in DOMAIN port_index
PortOf(h)  == LET at == port_index[Key(h.node, h.port)] IN parsed.nodes[at.node].ports[at.port]

Indexed == [links    |-> parsed.links,
            streams  |-> parsed.streams,
            type     |-> Tabulated([n \in DOMAIN node_index |-> parsed.nodes[node_index[n]].type]),
            port     |-> Tabulated([h \in {g \in Hop : HasPort(g)} |-> PortOf(h)]),
            domain   |-> node_to_domain,
            groups   |-> Range(parsed.multicast_groups),
            services |-> parsed.someip_services]

(* The reference: what a file declares, without pointers, keys and order.  *)
Declarations(f, section) == CHOOSE s \in Reading[f][section] : TRUE

NodesOf(f) == Declarations(f, "ecus") \o Declarations(f, "nodes")

Readable(f) == \A s \in Range(Sections) : Reading[f][s] # {}

DistinctIds(s) == \A i, j \in DOMAIN s : s[i].id = s[j].id => i = j

Legal == {f \in DOMAIN Documents : /\ Readable(f)
                            /\ DistinctIds(NodesOf(f))
                            /\ \A n \in Range(NodesOf(f)) : DistinctIds(n.ports)}

Called(s, id) == CHOOSE x \in Range(s) : x.id = id

(* Of several domains that list a node, the last has it.                   *)
DomainOf(ds, n) == ds[Max({i \in DOMAIN ds : n \in Range(ds[i].nodes)})].id

Declaration(f) ==
    LET ns == NodesOf(f)
        ds == Declarations(f, "domains")
        hs == UNION {{[node |-> n.id, port |-> p.id] : p \in Range(n.ports)} : n \in Range(ns)}
    IN  [links    |-> Declarations(f, "links"),
         streams  |-> Declarations(f, "streams"),
         type     |-> Tabulated([n \in {m.id : m \in Range(ns)} |-> Called(ns, n).type]),
         port     |-> Tabulated([h \in hs |-> Called(Called(ns, h.node).ports, h.port)]),
         domain   |-> Tabulated([n \in UNION {Range(m.nodes) : m \in Range(ds)} |-> DomainOf(ds, n)]),
         groups   |-> Range(Declarations(f, "multicast_groups")),
         services |-> Declarations(f, "someip_services")]

Declared == Tabulated([f \in Legal |-> Declaration(f)])

(* A name in which no key can be split wrongly.                            *)
Plain(n) == \A i \in 1..Len(n) : SubSeq(n \o ":", i, i + 1) # "::"

(* Two keys of such names are equal only if both parts are: the first      *)
(* separator in a key is the one that was put there.                       *)
ASSUME KeysTellApart ==
    \A m, n \in {x \in Nodes : Plain(x)} : \A p, q \in Ports :
      Key(m, p) = Key(n, q) => m = n /\ p = q

PlainNodes == {f \in Legal : \A n \in Range(NodesOf(f)) : Plain(n.id)}

(* Lookups of names with the separator in them apart.                      *)
PlainLookups(topo) == [topo EXCEPT !.port = Restrict(@, {h \in DOMAIN @ : Plain(h.node)})]
=============================================================================
