----------------------------- MODULE RuleEngine -----------------------------
(***************************************************************************)
(* The registry (src/rules/rule_registry.cpp, builtin_rules.cpp) running   *)
(* the rules over one topology, or over two in turn as --diff does         *)
(* (run_validation in src/cli/main.cpp): every registered rule in          *)
(* registration order, or the tokens of --rules in the order given, an     *)
(* unknown token being an exception.                                       *)
(*                                                                         *)
(* The rules share nothing but the topology, so what can go wrong between  *)
(* them is that each relies on another to report what it passes over.  The *)
(* properties below are about that, and about what an edit of the file     *)
(* does to the verdict.                                                    *)
(***************************************************************************)
EXTENDS Rules, SequencesExt

CONSTANTS Topologies,     \* the topologies a first file may declare
          Edits(_),       \* what the second file of --diff may declare
          Filters         \* the values of --rules: <<>> is none

(* Topologies are what the parser makes of files: records with a field for *)
(* every key, numbers of an unsigned type natural, and every port part of  *)
(* a declared node.                                                        *)
IsStream(s) == /\ s.src \in Nodes
               /\ s.dsts \subseteq Nodes
               /\ s.bandwidth \in Nat
               /\ s.budget_us \in Nat

IsShaper(c) == c.idle \in Nat /\ c.send \in Int /\ c.hi \in Int /\ c.lo \in Int

IsPort(c) == /\ \A x \in c.cbs_a \cup c.cbs_b : IsShaper(x)
             /\ \A x \in c.tas : x.gcl \in BOOLEAN /\ x.cycle \in Nat
             /\ c.rate \in Nat

IsTopology(t) == /\ t.links \in LinkLists
                 /\ \A i \in 1..Len(t.streams) : IsStream(t.streams[i])
                 /\ Len(t.streams) \in Nat
                 /\ DOMAIN t.type \subseteq Nodes
                 /\ \A n \in DOMAIN t.type : t.type[n] \in {"ECU", "SWITCH"}
                 /\ \A h \in DOMAIN t.port : /\ h \in Hop
                                              /\ h.node \in DOMAIN t.type
                                              /\ IsPort(t.port[h])
                 /\ Len(t.services) \in Nat
                 /\ \A j \in 1..Len(t.services) : t.services[j].ecu \in Nodes

ASSUME TopologiesType ==
    \A t \in Topologies : IsTopology(t) /\ \A u \in Edits(t) : IsTopology(u)

ASSUME FiltersType == Filters \subseteq Seq(STRING)

VARIABLES topo,           \* the topology under validation
          file,           \* 1 or 2: which input file it comes from
          diff_mode,      \* --diff
          rules_filter,   \* the tokens of --rules
          todo,           \* rules still to be run
          violations,     \* what they have returned so far (v)
          baseline,       \* what the first file gave (v1)
          status          \* "running", "done" or "threw"

options == <<diff_mode, rules_filter>>
vars == <<topo, file, options, todo, violations, baseline, status>>

Registry == <<"VLAN001", "VLAN002", "MC001", "TSN001", "TSN002", "FW001", "BW001",
              "SD001", "TOPO001", "TOPO002", "ORPH001", "SEC001", "LAT001", "VLAN003">>

Registered == ToSet(Registry)

Check(rule, t) ==
    CASE rule = "VLAN001" -> VLAN001(t) [] rule = "VLAN002" -> VLAN002(t)
      [] rule = "VLAN003" -> VLAN003(t) [] rule = "MC001"   -> MC001(t)
      [] rule = "TSN001"  -> TSN001(t)  [] rule = "TSN002"  -> TSN002(t)
      [] rule = "FW001"   -> FW001(t)   [] rule = "BW001"   -> BW001(t)
      [] rule = "SD001"   -> SD001(t)   [] rule = "TOPO001" -> TOPO001(t)
      [] rule = "TOPO002" -> TOPO002(t) [] rule = "ORPH001" -> ORPH001(t)
      [] rule = "SEC001"  -> SEC001(t)  [] rule = "LAT001"  -> LAT001(t)

Plan == IF rules_filter = <<>> THEN Registry ELSE rules_filter

-----------------------------------------------------------------------------
Init == /\ topo \in Topologies
        /\ file = 1
        /\ diff_mode \in BOOLEAN
        /\ rules_filter \in Filters
        /\ todo = Plan
        /\ violations = {}
        /\ baseline = {}
        /\ status = "running"

RunRule == /\ status = "running"
           /\ todo # <<>>
           /\ Head(todo) \in Registered
           /\ todo' = Tail(todo)
           /\ violations' = violations \cup Check(Head(todo), topo)
           /\ UNCHANGED <<topo, file, options, baseline, status>>

UnknownRule == /\ status = "running"
               /\ todo # <<>>
               /\ Head(todo) \notin Registered
               /\ status' = "threw"
               /\ UNCHANGED <<topo, file, options, todo, violations, baseline>>

(* --diff: the first file is done, the second is parsed.                   *)
NextFile == /\ status = "running"
            /\ todo = <<>>
            /\ diff_mode
            /\ file = 1
            /\ file' = 2
            /\ topo' \in Edits(topo)
            /\ todo' = Plan
            /\ baseline' = violations
            /\ violations' = {}
            /\ UNCHANGED <<options, status>>

Report == /\ status = "running"
          /\ todo = <<>>
          /\ diff_mode => file = 2
          /\ status' = "done"
          /\ UNCHANGED <<topo, file, options, todo, violations, baseline>>

Ended == status # "running" /\ UNCHANGED vars

Next == RunRule \/ UnknownRule \/ NextFile \/ Report \/ Ended

Spec == Init /\ [][Next]_vars

-----------------------------------------------------------------------------
(* Severities and keys are of the kinds the reporters know.                *)
ViolationType ==
    [severity : {"ERROR", "WARN", "INFO"}, rule_id : Registered,
     stream_id : {s.id : s \in Streams(topo)} \cup {NoName},
     node_id : Nodes \cup {NoName}, port_id : Ports \cup {NoName}]

KeyFields(v) == [severity |-> v.severity, rule_id |-> v.rule_id, stream_id |-> v.stream_id,
                 node_id |-> v.node_id, port_id |-> v.port_id]

TypeOK == /\ file \in {1, 2}
          /\ diff_mode \in BOOLEAN
          /\ rules_filter \in Filters
          /\ IsSuffix(todo, Plan)
          /\ \A v \in violations : KeyFields(v) \in ViolationType
          /\ status \in {"running", "done", "threw"}

Errors(vs)   == {v \in vs : v.severity = "ERROR"}
FullRun      == status = "done" /\ rules_filter = <<>>
Clean        == FullRun /\ \A v \in violations : v.severity = "INFO"
Said(rule, s) == \E v \in violations : v.rule_id = rule /\ v.stream_id = s.id

(* An edit of the file that only adds links, anywhere.                     *)
AddsLinks(t, u) ==
    /\ u.type = t.type /\ u.port = t.port /\ u.domain = t.domain
    /\ u.groups = t.groups /\ u.streams = t.streams /\ u.services = t.services
    /\ \A i \in 1..Len(t.links) : \E j \in 1..Len(u.links) : u.links[j] = t.links[i]

EditsAddLinks == \A t \in Topologies : \A u \in Edits(t) : AddsLinks(t, u)

UniqueIds == \A i, j \in 1..Len(topo.streams) : topo.streams[i].id = topo.streams[j].id => i = j

(* Adding a link to a topology never makes an error go away: every rule    *)
(* quantifies over all the paths, and a path stays one when a link is      *)
(* added.  So --diff cannot call an error FIXED because of a new link.     *)
(* (What is said of a broken bandwidth or latency bound may change with    *)
(* the paths, the place may not: hence the comparison of keys.  It needs   *)
(* unique stream ids: of two streams with one id BW001 counts at a port    *)
(* the first to use it, and a new link can make that the smaller one.)     *)
LinksFixNoError ==
    status = "done" /\ file = 2 /\ UniqueIds =>
      {KeyFields(v) : v \in Errors(baseline)} \subseteq {KeyFields(v) : v \in Errors(violations)}

(* LAT001 gives a path up without a word when the shaper of a port cannot  *)
(* be timed ("we can't calculate latency reliably", latency_budget.cpp:69):*)
(* whenever it does, TSN001 has reported an error for that stream, so the  *)
(* missing latency verdict is never mistaken for a kept budget.            *)
NoSilentLatencyGap ==
    FullRun =>
      \A s \in Budgeted(topo) :
        (\E p \in AllPaths(topo, s) : ~Coherent(topo, p)) =>
          \E v \in Errors(violations) : v.rule_id = "TSN001" /\ v.stream_id = s.id

(* What a clean report is worth to a stream: every destination has a path, *)
(* and a frame of the stream crosses every switch of every path.  Its      *)
(* group is configured there, and at the port it enters by as at the one   *)
(* it leaves by it is a member of the VLAN, an entry of the firewall that  *)
(* names this stream or its group permits it, and a shaper of its class is *)
(* there -- if the file declares the port: no rule looks at one it does    *)
(* not.  (Deny entries are not looked at either.)                          *)
Permitted(port, s) ==
    \E e \in port.firewall : e.action = "permit" /\ (e.stream = s.id \/ e.ip = s.mcast)

Passes(s, h) ==
    LET port == topo.port[h] IN
      /\ s.vlan # 0 => s.vlan \in port.vlans
      /\ s.mcast # 0 => Permitted(port, s)
      /\ s.class = 1 => \E c \in port.cbs_a : c.idle > 0 /\ c.send < 0
      /\ s.class = 2 => \E c \in port.cbs_b : c.idle > 0 /\ c.send < 0
      /\ s.class = 3 => \E t \in port.tas : t.gcl /\ t.cycle > 0

Watched(s) == s.vlan # 0 \/ s.mcast # 0 \/ s.class \in {1, 2, 3}

CleanMeansCarried ==
    Clean =>
      \A s \in Streams(topo) : Watched(s) =>
        \A d \in s.dsts :
          LET ps == SimplePaths(topo.links, s.src, d) IN
            /\ ps # {}
            /\ \A p \in ps : \A k \in 1..(Len(p) - 1) :
                 LET switch == p[k].entry.node IN
                   IsSwitch(topo, switch) =>
                     /\ s.mcast # 0 => [switch |-> switch, ip |-> s.mcast] \in topo.groups
                     /\ \A h \in {p[k].entry, p[k + 1].exit} :
                          Named(h) /\ Known(topo, h) => Passes(s, h)

(* A clean run bounds the load: on a declared switch port the class-A      *)
(* streams that can reach it reserve no more than the limit, if stream ids *)
(* are unique.                                                             *)
Demand(h) == Reserved(topo, {i \in 1..Len(topo.streams) :
                               topo.streams[i].class = 1 /\ Uses(topo, i, h)})

WithinLimit ==
    \A h \in DOMAIN topo.port :
      Named(h) /\ IsSwitch(topo, h.node) => Demand(h) <= PortLimit(topo.port[h])

CleanMeansWithinLimit == Clean /\ UniqueIds => WithinLimit

(* Whatever way a cross-domain stream takes through nodes that all have a  *)
(* domain (one whose id is not empty), a clean report means that some link *)
(* of it is protected at both ends: the domain has to change somewhere     *)
(* along the way.  A node without a domain may hide the change.            *)
CrossDomain(s, d) == Apart(topo, s.src, d)

Protected(p) == \E k \in 1..Len(p) : Secured(topo, p[k].exit) /\ Secured(topo, p[k].entry)

AllInDomains(p) == \A h \in PathHops(p) : HasDomain(topo, h.node)

CrossDomainProtected ==
    Clean =>
      \A s \in Streams(topo) : \A d \in s.dsts : CrossDomain(s, d) =>
        \A p \in Paths(topo, s, d) : AllInDomains(p) => Protected(p)

(* A clean report means that no two services of the file collide: SD001    *)
(* compares with the first provider only, and that is enough to notice.    *)
CollisionFree ==
    \A i, j \in 1..Len(topo.services) :
      i # j => /\ SameId(topo.services[i], topo.services[j])
                     => topo.services[i].ecu = topo.services[j].ecu
               /\ ~SamePort(topo.services[i], topo.services[j])

CleanMeansCollisionFree == Clean => CollisionFree
=============================================================================
