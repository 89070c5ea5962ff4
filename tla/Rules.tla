-------------------------------- MODULE Rules --------------------------------
(***************************************************************************)
(* The built-in rules (src/rules): each check() as the set of violations   *)
(* it returns for an indexed topology.                                     *)
(*                                                                         *)
(* A topology is a record                                                  *)
(*    links    the declared links, in order (Topology!Link)                *)
(*    streams  the declared streams, in order                              *)
(*    type     node_index: declared node |-> "ECU" or "SWITCH"             *)
(*    port     port_index: declared hop  |-> its port's configuration      *)
(*    domain   node_to_domain                                              *)
(*    groups   multicast groups: [switch, ip] records                      *)
(*    services SOME/IP services, in order                                  *)
(* type, port and domain are partial functions: a lookup that fails in the *)
(* code is a name outside DOMAIN.  An std::optional is a set with at most  *)
(* one member.  resolve_stream_paths is SimplePaths, or Routes where the   *)
(* number of results matters: what PathResolver is shown to return.        *)
(* A violation keeps its key fields; `what' stands for the rest of the     *)
(* message.                                                                *)
(***************************************************************************)
EXTENDS Topology, FiniteSetsExt

CONSTANTS LinkLists,        \* the link lists of the topologies at hand
          Config,           \* thresholds: see ConfigType
          StrictUnicastFw   \* --strict-unicast-fw

ASSUME ConfigType ==
    /\ Config.limit \in [num : Nat, den : Nat \ {0}]   \* utilization_limit
    /\ Config.max_hops \in Int
    /\ Config.prop_delay_ns \in Int                   \* may be negative
    /\ Config.frame_ns_kbps \in Nat                   \* MAX_FRAME_BITS * 10^6
    /\ Config.ns_per_us \in Nat \ {0}
    /\ Config.word \in Nat \ {0}                      \* 2^64: a sum wraps there
    /\ StrictUnicastFw \in BOOLEAN

ASSUME LinkListsType == LinkLists \subseteq Seq(Link)

(* A definition introduced as "the bug" is no part of the model: it is the *)
(* next definition with a mistake the code could have made, and the runs   *)
(* are there to notice it.                                                 *)

(* The empty string.                                                       *)
NoName == ""

(* The bug: node and port in the wrong order.                              *)
ViolationSwapped(sev, rule, s, n, p, what) ==
    [severity |-> sev, rule_id |-> rule, stream_id |-> s,
     node_id |-> p, port_id |-> n, what |-> what]

Violation(sev, rule, s, n, p, what) ==
    [severity |-> sev, rule_id |-> rule, stream_id |-> s,
     node_id |-> n, port_id |-> p, what |-> what]

-----------------------------------------------------------------------------
(* Lookups and paths.                                                      *)

Streams(topo)     == {topo.streams[i] : i \in 1..Len(topo.streams)}
IsSwitch(topo, n) == n \in DOMAIN topo.type /\ topo.type[n] = "SWITCH"
IsEcu(topo, n)    == n \in DOMAIN topo.type /\ topo.type[n] = "ECU"
Known(topo, h)    == h \in DOMAIN topo.port
Named(h)          == h.port # NoName

(* SimplePaths, tabulated over the link lists at hand.                     *)
PathTable == [L \in LinkLists |-> [s \in Nodes |-> [d \in Nodes |-> SimplePaths(L, s, d)]]]

Paths(topo, s, d) == PathTable[topo.links][s.src][d]
AllPaths(topo, s) == UNION {Paths(topo, s, d) : d \in s.dsts}

PathHops(p)       == {p[k].exit : k \in 1..Len(p)} \cup {p[k].entry : k \in 1..Len(p)}

(* The bug: only a shortest path to each destination is looked at.         *)
OnShortestPath(topo, s) ==
    UNION {PathHops(CHOOSE p \in Paths(topo, s, d) : \A q \in Paths(topo, s, d) : Len(p) <= Len(q)) :
             d \in {e \in s.dsts : Paths(topo, s, e) # {}}}

OnPath(topo, s)   == UNION {PathHops(p) : p \in AllPaths(topo, s)}

SwitchPorts(topo, s) ==
    {h \in OnPath(topo, s) : Named(h) /\ IsSwitch(topo, h.node) /\ Known(topo, h)}

(* The warning five rules give for a destination they cannot reach.        *)
NoPath(rule, topo, s) ==
    {Violation("WARN", rule, s.id, NoName, NoName, d) : d \in {e \in s.dsts : Paths(topo, s, e) = {}}}

AtPort(sev, rule, s, h, what) == Violation(sev, rule, s.id, h.node, h.port, what)

When(b, x) == IF b THEN {x} ELSE {}

-----------------------------------------------------------------------------
(* VLAN rules.                                                             *)

Tagged(topo) == {s \in Streams(topo) : s.vlan # 0}

VLAN001(topo) ==
    UNION {NoPath("VLAN001", topo, s)
             \cup {AtPort("ERROR", "VLAN001", s, h, s.vlan) :
                     h \in {g \in OnPath(topo, s) : /\ Named(g)
                                                    /\ ~IsEcu(topo, g.node)
                                                    /\ Known(topo, g)
                                                    /\ s.vlan \notin topo.port[g].vlans}}
           : s \in Tagged(topo)}

VLAN002(topo) ==
    UNION {{AtPort("WARN", "VLAN002", s, h, topo.port[h].pvid) :
              h \in {g \in OnPath(topo, s) : /\ Named(g)
                                             /\ Known(topo, g)
                                             /\ ~topo.port[g].tagged
                                             /\ topo.port[g].pvid # s.vlan}}
           : s \in Tagged(topo)}

VLAN003(topo) ==
    UNION {{AtPort("WARN", "VLAN003", s, h, s.vlan) :
              h \in {g \in SwitchPorts(topo, s) : ~topo.port[g].storm}}
           : s \in {t \in Streams(topo) : t.safety # 0}}

-----------------------------------------------------------------------------
(* Multicast and firewall.                                                 *)

MC001(topo) ==
    UNION {NoPath("MC001", topo, s)
             \cup {Violation("ERROR", "MC001", s.id, h.node, NoName, s.mcast) :
                     h \in {g \in OnPath(topo, s) :
                              /\ IsSwitch(topo, g.node)
                              /\ [switch |-> g.node, ip |-> s.mcast] \notin topo.groups}}
           : s \in {t \in Streams(topo) : t.mcast # 0}}

(* The bug: a permit entry counts, whatever it permits.                    *)
CoveredByAny(port, s) == \E e \in port.firewall : e.action = "permit"

Covered(port, s) ==
    \E e \in port.firewall : /\ e.stream = s.id \/ (s.mcast # 0 /\ e.ip = s.mcast)
                             /\ e.action = "permit"

FW001(topo) ==
    UNION {NoPath("FW001", topo, s)
             \cup {AtPort("ERROR", "FW001", s, h, s.mcast) :
                     h \in {g \in SwitchPorts(topo, s) : ~Covered(topo.port[g], s)}}
           : s \in {t \in Streams(topo) : t.mcast # 0 \/ StrictUnicastFw}}

-----------------------------------------------------------------------------
(* Shapers.                                                                *)

(* The bug: a shaper that is not there has no defects.                     *)
CbsDefectsIfThere(cbs) ==
    UNION {   When(c.idle = 0,  <<"ERROR", "idleSlope">>)
         \cup When(c.send >= 0, <<"ERROR", "sendSlope">>) : c \in cbs}

CbsDefects(cbs) ==
    IF cbs = {} THEN {<<"ERROR", "absent">>}
    ELSE UNION {   When(c.idle = 0,  <<"ERROR", "idleSlope">>)
              \cup When(c.send >= 0, <<"ERROR", "sendSlope">>)
              \cup When(c.hi <= 0,   <<"WARN", "hiCredit">>)
              \cup When(c.lo >= 0,   <<"WARN", "loCredit">>) : c \in cbs}

TasDefects(tas) ==
    IF tas = {} THEN {<<"ERROR", "absent">>}
    ELSE UNION {   When(~t.gcl, <<"ERROR", "gcl">>)
              \cup When(t.cycle = 0, <<"WARN", "cycle">>) : t \in tas}

ClassShaper(port, s) == IF s.class = 1 THEN port.cbs_a ELSE port.cbs_b

Defects(rule, topo, s, Of(_)) ==
    UNION {{AtPort(d[1], rule, s, h, d[2]) : d \in Of(topo.port[h])} : h \in SwitchPorts(topo, s)}

TSN001(topo) ==
    UNION {NoPath("TSN001", topo, s)
             \cup Defects("TSN001", topo, s, LAMBDA port : CbsDefects(ClassShaper(port, s)))
           : s \in {t \in Streams(topo) : t.class \in {1, 2}}}

TSN002(topo) ==
    UNION {NoPath("TSN002", topo, s)
             \cup Defects("TSN002", topo, s, LAMBDA port : TasDefects(port.tas))
           : s \in {t \in Streams(topo) : t.class = 3}}

-----------------------------------------------------------------------------
(* BW001: every class-A stream is added once per stream id and port, by    *)
(* the first stream with that id that uses the port.                       *)

ClassA(topo) == {i \in 1..Len(topo.streams) : /\ topo.streams[i].class = 1
                                              /\ topo.streams[i].bandwidth # 0}

Uses(topo, i, h) == h \in OnPath(topo, topo.streams[i])

(* The bug: a port is counted once, whichever stream uses it.              *)
CountedOnce(topo, h) ==
    {i \in ClassA(topo) :
        /\ Uses(topo, i, h)
        /\ \A j \in ClassA(topo) : j < i => ~Uses(topo, j, h)}

Counted(topo, h) ==
    {i \in ClassA(topo) :
        /\ Uses(topo, i, h)
        /\ \A j \in ClassA(topo) :
             j < i /\ topo.streams[j].id = topo.streams[i].id => ~Uses(topo, j, h)}

Kbps(topo)        == [i \in 1..Len(topo.streams) |-> topo.streams[i].bandwidth]
Reserved(topo, I) == MapThenSumSet(LAMBDA i : Kbps(topo)[i], I)

PortBandwidth(topo, h) == Reserved(topo, Counted(topo, h))
PortLimit(port)        == (port.rate * Config.limit.num) \div Config.limit.den

BW001(topo) ==
    {Violation("ERROR", "BW001", NoName, h.node, h.port, PortBandwidth(topo, h)) :
        h \in {g \in DOMAIN topo.port : /\ Named(g)
                                        /\ IsSwitch(topo, g.node)
                                        /\ PortBandwidth(topo, g) > PortLimit(topo.port[g])}}

-----------------------------------------------------------------------------
(* LAT001: the delay of a path is summed over the first port of every node *)
(* that is not a known ECU; a path with an unusable shaper is given up.    *)

Relevant(topo, h) == Named(h) /\ ~IsEcu(topo, h.node)

FirstPorts(topo, p) ==
    {Hops(p)[k] : k \in {i \in 1..(2 * Len(p)) :
                           /\ Relevant(topo, Hops(p)[i])
                           /\ \A j \in 1..(i - 1) :
                                Relevant(topo, Hops(p)[j]) => Hops(p)[j].node # Hops(p)[i].node}}

TimedPorts(topo, p) == {h \in FirstPorts(topo, p) : Known(topo, h)}
Shaped(port)        == \E c \in port.cbs_a : c.idle > 0
Coherent(topo, p)   == \A h \in TimedPorts(topo, p) : Shaped(topo.port[h])

HopDelay(port) ==
    LET c == CHOOSE c \in port.cbs_a : TRUE
    IN  Config.frame_ns_kbps \div c.idle + Config.prop_delay_ns

(* The sum is kept in an unsigned word.                                    *)
SumOfDelays(port, hs) == MapThenSumSet(LAMBDA h : HopDelay(port[h]), hs)

DelayNs(topo, p) == SumOfDelays(topo.port, TimedPorts(topo, p))
DelayUs(topo, p) == (DelayNs(topo, p) % Config.word) \div Config.ns_per_us

Budgeted(topo) == {s \in Streams(topo) : s.class = 1 /\ s.budget_us # 0}

LAT001(topo) ==
    UNION {{Violation("ERROR", "LAT001", s.id, NoName, NoName, DelayUs(topo, p)) :
              p \in {r \in AllPaths(topo, s) : Coherent(topo, r) /\ DelayUs(topo, r) > s.budget_us}}
           : s \in Budgeted(topo)}

-----------------------------------------------------------------------------
(* Shape of the network.                                                   *)

TOPO001(topo) ==
    UNION {{Violation("WARN", "TOPO001", s.id, NoName, NoName, d) :
              d \in {e \in s.dsts : Cardinality(Routes(topo.links, s.src, e)) < 2}}
           : s \in {t \in Streams(topo) : t.safety # 0}}

SwitchHops(topo, p) == Cardinality({k \in 1..(2 * Len(p)) : IsSwitch(topo, Hops(p)[k].node)}) \div 2

TOPO002(topo) ==
    UNION {{Violation("WARN", "TOPO002", s.id, NoName, NoName, SwitchHops(topo, p)) :
              p \in {r \in AllPaths(topo, s) : SwitchHops(topo, r) > Config.max_hops}}
           : s \in Streams(topo)}

Linked(topo) == {topo.links[i].src.node : i \in 1..Len(topo.links)}
                  \cup {topo.links[i].dst.node : i \in 1..Len(topo.links)}

ORPH001(topo) ==
    {Violation("INFO", "ORPH001", NoName, n, NoName, "isolated") : n \in DOMAIN topo.type \ Linked(topo)}
      \cup UNION {{Violation("ERROR", "ORPH001", s.id, NoName, NoName, n) :
                     n \in ({s.src} \cup s.dsts) \ DOMAIN topo.type} : s \in Streams(topo)}

-----------------------------------------------------------------------------
(* SEC001: a crossing between two nodes of different domains, on a path of *)
(* a stream whose two ends are in different domains.                       *)

(* A domain whose id is empty is none.                                     *)
HasDomain(topo, n) == n \in DOMAIN topo.domain /\ topo.domain[n] # NoName

Apart(topo, m, n) == /\ HasDomain(topo, m)
                     /\ HasDomain(topo, n)
                     /\ topo.domain[m] # topo.domain[n]

Secured(topo, h) == Known(topo, h) /\ topo.port[h].macsec

(* The bug: one protected end is taken to be enough.                       *)
ExposedBothEnds(topo, p) == {p[k] : k \in {i \in 1..Len(p) :
                        /\ Apart(topo, p[i].exit.node, p[i].entry.node)
                        /\ ~Secured(topo, p[i].exit)
                        /\ ~Secured(topo, p[i].entry)}}

Exposed(topo, p) == {p[k] : k \in {i \in 1..Len(p) :
                        /\ Apart(topo, p[i].exit.node, p[i].entry.node)
                        /\ ~(Secured(topo, p[i].exit) /\ Secured(topo, p[i].entry))}}

SEC001(topo) ==
    UNION {UNION {{AtPort("ERROR", "SEC001", s, c.exit, c.entry) : c \in Exposed(topo, p)} :
                     p \in UNION {Paths(topo, s, d) : d \in {e \in s.dsts : Apart(topo, s.src, e)}}}
           : s \in Streams(topo)}

-----------------------------------------------------------------------------
(* SD001: each service is compared with the first provider of its id, and  *)
(* with the ports its ECU already uses.                                    *)

SameId(a, b)   == a.service = b.service /\ a.instance = b.instance
SamePort(a, b) == a.ecu = b.ecu /\ a.port = b.port

(* Services whose id an earlier service of another ECU was first to claim. *)
ClaimedElsewhere(svc) ==
    {j \in 1..Len(svc) :
        \E i \in 1..(j - 1) : /\ SameId(svc[i], svc[j])
                              /\ \A k \in 1..(i - 1) : ~SameId(svc[k], svc[j])
                              /\ svc[i].ecu # svc[j].ecu}

(* The bug: only neighbours in the file are compared.                      *)
PortTakenByNeighbour(svc) == {j \in 2..Len(svc) : SamePort(svc[j - 1], svc[j])}

PortTaken(svc) == {j \in 1..Len(svc) : \E i \in 1..(j - 1) : SamePort(svc[i], svc[j])}

SD001(topo) ==
    LET svc == topo.services
        AtService(j, what) == Violation("ERROR", "SD001", NoName, svc[j].ecu, NoName, <<what, j>>)
    IN  {AtService(j, "id") : j \in ClaimedElsewhere(svc)}
          \cup {AtService(j, "port") : j \in PortTaken(svc)}
=============================================================================
