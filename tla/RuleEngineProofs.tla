--------------------------- MODULE RuleEngineProofs ---------------------------
(***************************************************************************)
(* Proofs about RuleEngine, for every collection of topologies, edits and  *)
(* filters.  The inductive invariant is Progress: what has been found is   *)
(* the verdict of the rules that have been run.  The rest is about what a  *)
(* complete verdict says of a topology, rule by rule.                      *)
(***************************************************************************)
EXTENDS RuleEngine, TopologyProofs, Sums

-----------------------------------------------------------------------------
(* The registry.                                                           *)

(* What the first n rules of the plan find in a topology.                  *)
Verdict(t, n) == UNION {Check(Plan[i], t) : i \in 1..n}

Ran == Len(Plan) - Len(todo)

(* Whatever may stand in a plan.                                           *)
Tokens == STRING \cup Registered

(* The rules that are still to be run are the last of the plan; those that *)
(* have been run are registered, and violations is their verdict.  When    *)
(* the second file is looked at, baseline is the verdict of all of them on *)
(* a topology that the second is an edit of.                               *)
Progress ==
    /\ file \in {1, 2}
    /\ diff_mode \in BOOLEAN
    /\ rules_filter \in Filters
    /\ status \in {"running", "done", "threw"}
    /\ todo \in Seq(Tokens)
    /\ Ran \in 0..Len(Plan)
    /\ \A k \in 1..Len(todo) : todo[k] = Plan[Ran + k]
    /\ \A i \in 1..Ran : Plan[i] \in Registered
    /\ violations = Verdict(topo, Ran)
    /\ file = 1 => topo \in Topologies
    /\ file = 2 => \E t \in Topologies : topo \in Edits(t) /\ baseline = Verdict(t, Len(Plan))
    /\ status = "done" => todo = <<>>

(* The registry names fourteen rules, each once.                           *)
LEMMA RegistryType ==
    /\ Len(Registry) = 14
    /\ Registered = {"VLAN001", "VLAN002", "MC001", "TSN001", "TSN002", "FW001", "BW001",
                     "SD001", "TOPO001", "TOPO002", "ORPH001", "SEC001", "LAT001", "VLAN003"}
    /\ Registry \in Seq(Registered)
    /\ Registered = {Registry[i] : i \in 1..14}
<1> DEFINE R == {"VLAN001", "VLAN002", "MC001", "TSN001", "TSN002", "FW001", "BW001",
                 "SD001", "TOPO001", "TOPO002", "ORPH001", "SEC001", "LAT001", "VLAN003"}
<1>1. Len(Registry) = 14 /\ DOMAIN Registry = 1..14 /\ Registry \in Seq(R)
  BY DEF Registry
<1>2. Registered = {Registry[i] : i \in 1..14}
  BY <1>1 DEF Registered, ToSet
<1>3. Registered = R
  <2>1. Registered \subseteq R
    BY <1>1, <1>2, ElementOfSeq
  <2>2. R \subseteq {Registry[i] : i \in 1..14}
    <3>1. /\ Registry[1] = "VLAN001" /\ Registry[2] = "VLAN002" /\ Registry[3] = "MC001"
          /\ Registry[4] = "TSN001" /\ Registry[5] = "TSN002" /\ Registry[6] = "FW001"
          /\ Registry[7] = "BW001" /\ Registry[8] = "SD001" /\ Registry[9] = "TOPO001"
          /\ Registry[10] = "TOPO002" /\ Registry[11] = "ORPH001" /\ Registry[12] = "SEC001"
          /\ Registry[13] = "LAT001" /\ Registry[14] = "VLAN003"
      BY DEF Registry
    <3> QED
      BY <3>1
  <2> QED
    BY <1>2, <2>1, <2>2
<1> QED
  BY <1>1, <1>2, <1>3

(* The plan is a list of names.                                            *)
LEMMA PlanType == ASSUME rules_filter \in Filters PROVE Plan \in Seq(Tokens)
<1>1. CASE rules_filter = <<>>
  <2>1. Plan \in Seq(Registered)
    BY <1>1, RegistryType DEF Plan
  <2> QED
    BY <2>1 DEF Tokens
<1>2. CASE rules_filter # <<>>
  <2>1. Plan = rules_filter /\ rules_filter \in Seq(STRING)
    BY <1>2, FiltersType DEF Plan
  <2> QED
    BY <2>1 DEF Tokens
<1> QED
  BY <1>1, <1>2

(* At first no rule has been run.                                          *)
LEMMA InitProgress == Init => Progress
<1> SUFFICES ASSUME Init PROVE Progress
  OBVIOUS
<1>1. Plan \in Seq(Tokens) /\ Len(Plan) \in Nat
  BY PlanType, LenProperties DEF Init
<1>2. Ran = 0 /\ todo = Plan
  BY <1>1 DEF Init, Ran
<1>3. Verdict(topo, 0) = {}
  BY DEF Verdict
<1> QED
  BY <1>1, <1>2, <1>3 DEF Init, Progress

(* The plan does not change.                                               *)
LEMMA PlanStays == UNCHANGED options => Plan' = Plan
  BY DEF options, Plan

(* The next rule is run.                                                   *)
LEMMA RunRuleProgress == ASSUME Progress, RunRule PROVE Progress'
<1> USE DEF Progress
<1>1. Plan' = Plan /\ Plan \in Seq(Tokens) /\ Len(Plan) \in Nat
  BY PlanStays, PlanType, LenProperties DEF RunRule
<1>2. /\ todo # <<>> /\ Len(todo) \in Nat \ {0}
      /\ Head(todo) = todo[1] /\ todo' \in Seq(Tokens) /\ Len(todo') = Len(todo) - 1
      /\ \A k \in 1..Len(todo') : todo'[k] = todo[k + 1]
  BY HeadTailProperties, EmptySeq, LenProperties DEF RunRule
<1>3. Ran' = Ran + 1 /\ Ran + 1 \in 0..Len(Plan)
  BY <1>1, <1>2 DEF Ran
<1>4. Plan[Ran + 1] = Head(todo) /\ Head(todo) \in Registered
  BY <1>2 DEF RunRule
<1>5. Verdict(topo, Ran)' = Verdict(topo, Ran) \cup Check(Head(todo), topo)
  <2>1. topo' = topo
    BY DEF RunRule
  <2>2. 1..(Ran + 1) = 1..Ran \cup {Ran + 1}
    BY <1>3
  <2> QED
    BY <1>1, <1>3, <1>4, <2>1, <2>2 DEF Verdict
<1>6. \A k \in 1..Len(todo') : todo'[k] = Plan'[Ran' + k]
  BY <1>1, <1>2, <1>3
<1>7. \A i \in 1..Ran' : Plan'[i] \in Registered
  BY <1>1, <1>3, <1>4
<1>8. \A t : Verdict(t, Len(Plan))' = Verdict(t, Len(Plan))
  BY <1>1 DEF Verdict
<1> QED
  BY <1>1, <1>2, <1>3, <1>5, <1>6, <1>7, <1>8 DEF RunRule, options

(* The second file is begun.                                               *)
LEMMA NextFileProgress == ASSUME Progress, NextFile PROVE Progress'
<1> USE DEF Progress
<1>1. Plan' = Plan /\ Plan \in Seq(Tokens) /\ Len(Plan) \in Nat
  BY PlanStays, PlanType, LenProperties DEF NextFile
<1>2. Ran = Len(Plan) /\ Ran' = 0 /\ todo' = Plan
  BY <1>1 DEF NextFile, Ran
<1>3. Verdict(topo, Ran)' = {}
  BY <1>2 DEF Verdict
<1>4. /\ topo \in Topologies
      /\ topo' \in Edits(topo)
      /\ baseline' = Verdict(topo, Len(Plan))
  BY <1>2 DEF NextFile
<1>5. Verdict(topo, Len(Plan)) = UNION {Check(Plan'[i], topo) : i \in 1..Len(Plan')}
  BY <1>1 DEF Verdict
<1>6. \A k \in 1..Len(todo') : todo'[k] = Plan'[Ran' + k]
  BY <1>1, <1>2
<1>7. \A i \in 1..Ran' : Plan'[i] \in Registered
  BY <1>2
<1>8. Ran' \in 0..Len(Plan') /\ todo' \in Seq(Tokens)
  BY <1>1, <1>2
<1>9. /\ violations' = {} /\ file' = 2 /\ status' = "running"
      /\ diff_mode' = diff_mode /\ rules_filter' = rules_filter
  BY DEF NextFile, options
<1>10. \E t \in Topologies : topo' \in Edits(t) /\ baseline' = Verdict(t, Len(Plan))'
  BY <1>4, <1>5 DEF Verdict
<1> QED
  BY <1>3, <1>6, <1>7, <1>8, <1>9, <1>10

(* Every step keeps Progress; all but two leave what it speaks of alone.   *)
LEMMA NextProgress == Progress /\ [Next]_vars => Progress'
<1> SUFFICES ASSUME Progress, [Next]_vars PROVE Progress'
  OBVIOUS
<1>1. CASE RunRule
  BY <1>1, RunRuleProgress
<1>2. CASE NextFile
  BY <1>2, NextFileProgress
<1>3. CASE UnknownRule \/ Report \/ UNCHANGED vars
  <2>1. UNCHANGED <<topo, file, options, todo, violations, baseline>>
    BY <1>3 DEF UnknownRule, Report, vars
  <2>2. Plan' = Plan /\ Ran' = Ran
    BY <2>1, PlanStays DEF Ran
  <2>3. \A t, n : Verdict(t, n)' = Verdict(t, n)
    BY <2>2 DEF Verdict
  <2>4. Verdict(topo, Ran)' = Verdict(topo, Ran)
    BY <2>1, <2>2 DEF Verdict
  <2>5. status' \in {"running", "done", "threw"} /\ (status' = "done" => todo' = <<>>)
    BY <1>3, <2>1 DEF UnknownRule, Report, vars, Progress
  <2> QED
    BY <2>1, <2>2, <2>3, <2>4, <2>5 DEF Progress, options
<1> QED
  BY <1>1, <1>2, <1>3 DEF Next, Ended

(* What has been found is, at any time, the verdict of what has been run.  *)
LEMMA AlwaysProgress == Spec => []Progress
  BY InitProgress, NextProgress, PTL DEF Spec

-----------------------------------------------------------------------------
(* A complete verdict.                                                     *)

(* Every topology under validation is one the parser can make.             *)
LEMMA TopologyAtHand == ASSUME Progress PROVE IsTopology(topo)
  BY TopologiesType DEF Progress

(* The name of a rule stands for that rule.                                *)
LEMMA CheckIs ==
    ASSUME NEW t
    PROVE  /\ Check("VLAN001", t) = VLAN001(t) /\ Check("VLAN002", t) = VLAN002(t)
           /\ Check("VLAN003", t) = VLAN003(t) /\ Check("MC001", t) = MC001(t)
           /\ Check("TSN001", t) = TSN001(t) /\ Check("TSN002", t) = TSN002(t)
           /\ Check("FW001", t) = FW001(t) /\ Check("BW001", t) = BW001(t)
           /\ Check("SD001", t) = SD001(t) /\ Check("TOPO001", t) = TOPO001(t)
           /\ Check("TOPO002", t) = TOPO002(t) /\ Check("ORPH001", t) = ORPH001(t)
           /\ Check("SEC001", t) = SEC001(t) /\ Check("LAT001", t) = LAT001(t)
  BY DEF Check

(* A run without --rules that is done has what every rule finds.           *)
LEMMA FullVerdict ==
    ASSUME Progress, FullRun, NEW r \in Registered
    PROVE  Check(r, topo) \subseteq violations
<1>1. Plan = Registry /\ Len(Plan) = 14 /\ Ran = 14
  BY RegistryType DEF FullRun, Plan, Progress, Ran
<1>2. PICK i \in 1..14 : r = Plan[i]
  BY <1>1, RegistryType
<1> QED
  BY <1>1, <1>2 DEF Progress, Verdict

(* The same for a clean run.                                               *)
LEMMA CleanVerdict ==
    ASSUME Progress, Clean, NEW r \in Registered, NEW v \in Check(r, topo)
    PROVE  v.severity = "INFO"
  BY FullVerdict DEF Clean

-----------------------------------------------------------------------------
(* Paths of a stream.                                                      *)

(* The ends of a stream are nodes, and its paths are the simple paths      *)
(* between them.                                                           *)
LEMMA StreamPaths ==
    ASSUME NEW t, IsTopology(t), NEW s \in Streams(t)
    PROVE  /\ t.links \in Seq(Link)
           /\ s.src \in Nodes /\ s.dsts \subseteq Nodes
           /\ s.bandwidth \in Nat /\ s.budget_us \in Nat
           /\ \A d \in s.dsts : Paths(t, s, d) = SimplePaths(t.links, s.src, d)
<1>1. t.links \in LinkLists /\ t.links \in Seq(Link)
  BY LinkListsType DEF IsTopology
<1>2. /\ s.src \in Nodes
      /\ s.dsts \subseteq Nodes
      /\ s.bandwidth \in Nat
      /\ s.budget_us \in Nat
  BY DEF Streams, IsTopology, IsStream
<1>3. \A d \in s.dsts : Paths(t, s, d) = SimplePaths(t.links, s.src, d)
  BY <1>1, <1>2 DEF Paths, PathTable
<1> QED
  BY <1>1, <1>2, <1>3

(* Both ends of a crossing of a path are hops on the way of the stream.    *)
LEMMA CrossingHops ==
    ASSUME NEW t, IsTopology(t), NEW s \in Streams(t), NEW d \in s.dsts,
           NEW p \in Paths(t, s, d), NEW k \in 1..Len(p)
    PROVE  /\ p[k].exit \in OnPath(t, s) /\ p[k].entry \in OnPath(t, s)
           /\ p[k].exit \in Hop /\ p[k].entry \in Hop
<1>1. p \in SimplePaths(t.links, s.src, d) /\ d \in Nodes
  BY StreamPaths
<1>2. p[k].exit \in Hop /\ p[k].entry \in Hop
  BY <1>1, StreamPaths, SimplePathHops
<1>3. p[k].exit \in PathHops(p) /\ p[k].entry \in PathHops(p)
  BY DEF PathHops
<1> QED
  BY <1>2, <1>3 DEF OnPath, AllPaths

(* The ways of a stream are made of hops.                                  *)
LEMMA OnPathType ==
    ASSUME NEW t, IsTopology(t), NEW s \in Streams(t)
    PROVE  OnPath(t, s) \subseteq Hop
<1> SUFFICES ASSUME NEW h \in OnPath(t, s) PROVE h \in Hop
  OBVIOUS
<1>1. PICK d \in s.dsts : \E p \in Paths(t, s, d) : h \in PathHops(p)
  BY DEF OnPath, AllPaths
<1>2. PICK p \in Paths(t, s, d) : h \in PathHops(p)
  BY <1>1
<1> QED
  BY <1>2, CrossingHops DEF PathHops

-----------------------------------------------------------------------------
(* Type correctness.                                                       *)

(* A violation whose key names only what there is.                         *)
Keyed(t, v) ==
    /\ v.severity \in {"ERROR", "WARN", "INFO"}
    /\ v.rule_id \in Registered
    /\ v.stream_id \in {s.id : s \in Streams(t)} \cup {NoName}
    /\ v.node_id \in Nodes \cup {NoName}
    /\ v.port_id \in Ports \cup {NoName}

(* A rule that reports a port on a stream's way, or its node, has a good   *)
(* key.                                                                    *)
LEMMA KeyedAtPort ==
    ASSUME NEW t, IsTopology(t), NEW s \in Streams(t), NEW h \in OnPath(t, s),
           NEW r \in Registered, NEW sev \in {"ERROR", "WARN"}, NEW what
    PROVE  /\ Keyed(t, AtPort(sev, r, s, h, what))
           /\ Keyed(t, Violation(sev, r, s.id, h.node, NoName, what))
<1>1. h.node \in Nodes /\ h.port \in Ports
  BY OnPathType DEF Hop
<1> QED
  BY <1>1 DEF Keyed, AtPort, Violation

(* So has one that reports a stream, ...                                   *)
LEMMA KeyedOfStream ==
    ASSUME NEW t, NEW s \in Streams(t),
           NEW r \in Registered, NEW sev \in {"ERROR", "WARN"}, NEW what
    PROVE  Keyed(t, Violation(sev, r, s.id, NoName, NoName, what))
  BY DEF Keyed, Violation

(* ... one that reports a node, ...                                        *)
LEMMA KeyedOfNode ==
    ASSUME NEW t, NEW n \in Nodes, NEW p \in Ports \cup {NoName},
           NEW r \in Registered, NEW sev \in {"ERROR", "INFO"}, NEW what
    PROVE  Keyed(t, Violation(sev, r, NoName, n, p, what))
  BY DEF Keyed, Violation

(* ... and a stream without a path.                                        *)
LEMMA KeyedNoPath ==
    ASSUME NEW t, NEW s \in Streams(t), NEW r \in Registered, NEW v \in NoPath(r, t, s)
    PROVE  Keyed(t, v)
<1>1. PICK d \in s.dsts : v = Violation("WARN", r, s.id, NoName, NoName, d)
  BY DEF NoPath
<1> QED
  BY <1>1, KeyedOfStream

(* The keys of the rules that look at the ports of a stream one by one.    *)
LEMMA PortRulesKeyed ==
    ASSUME NEW t, IsTopology(t),
           NEW v \in VLAN001(t) \cup VLAN002(t) \cup VLAN003(t) \cup MC001(t) \cup FW001(t)
    PROVE  Keyed(t, v)
<1>1. {"VLAN001", "VLAN002", "VLAN003", "MC001", "FW001"} \subseteq Registered
  BY RegistryType
<1>2. CASE v \in VLAN001(t)
  <2>1. PICK s \in Streams(t) :
          \/ v \in NoPath("VLAN001", t, s)
          \/ \E h \in OnPath(t, s) : v = AtPort("ERROR", "VLAN001", s, h, s.vlan)
    BY <1>2 DEF VLAN001, Tagged
  <2> QED
    BY <1>1, <2>1, KeyedNoPath, KeyedAtPort
<1>3. CASE v \in VLAN002(t)
  <2>1. PICK s \in Streams(t) :
          \E h \in OnPath(t, s) : v = AtPort("WARN", "VLAN002", s, h, t.port[h].pvid)
    BY <1>3 DEF VLAN002, Tagged
  <2> QED
    BY <1>1, <2>1, KeyedAtPort
<1>4. CASE v \in VLAN003(t)
  <2>1. PICK s \in Streams(t) :
          \E h \in OnPath(t, s) : v = AtPort("WARN", "VLAN003", s, h, s.vlan)
    BY <1>4 DEF VLAN003, SwitchPorts
  <2> QED
    BY <1>1, <2>1, KeyedAtPort
<1>5. CASE v \in MC001(t)
  <2>1. PICK s \in Streams(t) :
          \/ v \in NoPath("MC001", t, s)
          \/ \E h \in OnPath(t, s) : v = Violation("ERROR", "MC001", s.id, h.node, NoName, s.mcast)
    BY <1>5 DEF MC001
  <2> QED
    BY <1>1, <2>1, KeyedNoPath, KeyedAtPort
<1>6. CASE v \in FW001(t)
  <2>1. PICK s \in Streams(t) :
          \/ v \in NoPath("FW001", t, s)
          \/ \E h \in OnPath(t, s) : v = AtPort("ERROR", "FW001", s, h, s.mcast)
    BY <1>6 DEF FW001, SwitchPorts
  <2> QED
    BY <1>1, <2>1, KeyedNoPath, KeyedAtPort
<1> QED
  BY <1>2, <1>3, <1>4, <1>5, <1>6

(* What is wrong with a shaper is an error or a warning.                   *)
LEMMA DefectSeverity ==
    /\ \A c : \A x \in CbsDefects(c) : x[1] \in {"ERROR", "WARN"}
    /\ \A c : \A x \in TasDefects(c) : x[1] \in {"ERROR", "WARN"}
<1>1. ASSUME NEW c, NEW x \in CbsDefects(c) PROVE x[1] \in {"ERROR", "WARN"}
  <2>1. x \in {<<"ERROR", "absent">>, <<"ERROR", "idleSlope">>, <<"ERROR", "sendSlope">>,
                <<"WARN", "hiCredit">>, <<"WARN", "loCredit">>}
    BY DEF CbsDefects, When
  <2> QED
    BY <2>1
<1>2. ASSUME NEW c, NEW x \in TasDefects(c) PROVE x[1] \in {"ERROR", "WARN"}
  <2>1. x \in {<<"ERROR", "absent">>, <<"ERROR", "gcl">>, <<"WARN", "cycle">>}
    BY DEF TasDefects, When
  <2> QED
    BY <2>1
<1> QED
  BY <1>1, <1>2

(* The keys of the rules about shapers.                                    *)
LEMMA ShaperRulesKeyed ==
    ASSUME NEW t, IsTopology(t), NEW v \in TSN001(t) \cup TSN002(t)
    PROVE  Keyed(t, v)
<1>1. {"TSN001", "TSN002"} \subseteq Registered
  BY RegistryType
<1>2. CASE v \in TSN001(t)
  <2>1. PICK s \in Streams(t) :
          \/ v \in NoPath("TSN001", t, s)
          \/ \E h \in OnPath(t, s) : \E x \in CbsDefects(ClassShaper(t.port[h], s)) :
               v = AtPort(x[1], "TSN001", s, h, x[2])
    BY <1>2 DEF TSN001, Defects, SwitchPorts
  <2> QED
    BY <1>1, <2>1, KeyedNoPath, KeyedAtPort, DefectSeverity
<1>3. CASE v \in TSN002(t)
  <2>1. PICK s \in Streams(t) :
          \/ v \in NoPath("TSN002", t, s)
          \/ \E h \in OnPath(t, s) : \E x \in TasDefects(t.port[h].tas) :
               v = AtPort(x[1], "TSN002", s, h, x[2])
    BY <1>3 DEF TSN002, Defects, SwitchPorts
  <2> QED
    BY <1>1, <2>1, KeyedNoPath, KeyedAtPort, DefectSeverity
<1> QED
  BY <1>2, <1>3

(* The keys of the rules that name a stream only.                          *)
LEMMA StreamRulesKeyed ==
    ASSUME NEW t, IsTopology(t), NEW v \in LAT001(t) \cup TOPO001(t) \cup TOPO002(t)
    PROVE  Keyed(t, v)
<1>1. {"LAT001", "TOPO001", "TOPO002"} \subseteq Registered
  BY RegistryType
<1>2. CASE v \in LAT001(t)
  <2>1. PICK s \in Streams(t) :
         \E what : v = Violation("ERROR", "LAT001", s.id, NoName, NoName, what)
    BY <1>2 DEF LAT001, Budgeted
  <2> QED
    BY <1>1, <2>1, KeyedOfStream
<1>3. CASE v \in TOPO001(t)
  <2>1. PICK s \in Streams(t) :
         \E what : v = Violation("WARN", "TOPO001", s.id, NoName, NoName, what)
    BY <1>3 DEF TOPO001
  <2> QED
    BY <1>1, <2>1, KeyedOfStream
<1>4. CASE v \in TOPO002(t)
  <2>1. PICK s \in Streams(t) :
         \E what : v = Violation("WARN", "TOPO002", s.id, NoName, NoName, what)
    BY <1>4 DEF TOPO002
  <2> QED
    BY <1>1, <2>1, KeyedOfStream
<1> QED
  BY <1>2, <1>3, <1>4

(* The keys of the rules that name a node.                                 *)
LEMMA NodeRulesKeyed ==
    ASSUME NEW t, IsTopology(t), NEW v \in BW001(t) \cup SD001(t) \cup ORPH001(t) \cup SEC001(t)
    PROVE  Keyed(t, v)
<1>1. {"BW001", "SD001", "ORPH001", "SEC001"} \subseteq Registered
  BY RegistryType
<1>2. CASE v \in BW001(t)
  <2>1. PICK h \in DOMAIN t.port :
          v = Violation("ERROR", "BW001", NoName, h.node, h.port, PortBandwidth(t, h))
    BY <1>2 DEF BW001
  <2>2. h.node \in Nodes /\ h.port \in Ports
    BY DEF IsTopology, Hop
  <2> QED
    BY <1>1, <2>1, <2>2, KeyedOfNode
<1>3. CASE v \in SD001(t)
  <2>1. PICK j \in 1..Len(t.services) :
          \E what : v = Violation("ERROR", "SD001", NoName, t.services[j].ecu, NoName, what)
    BY <1>3 DEF SD001, ClaimedElsewhere, PortTaken
  <2>2. t.services[j].ecu \in Nodes
    BY DEF IsTopology
  <2> QED
    BY <1>1, <2>1, <2>2, KeyedOfNode
<1>4. CASE v \in ORPH001(t)
  <2>1. \/ \E n \in DOMAIN t.type : v = Violation("INFO", "ORPH001", NoName, n, NoName, "isolated")
        \/ \E s \in Streams(t) : \E n : v = Violation("ERROR", "ORPH001", s.id, NoName, NoName, n)
    BY <1>4 DEF ORPH001
  <2>2. DOMAIN t.type \subseteq Nodes
    BY DEF IsTopology
  <2> QED
    BY <1>1, <2>1, <2>2, KeyedOfStream, KeyedOfNode
<1>5. CASE v \in SEC001(t)
  <2>1. PICK s \in Streams(t) :
         \E d \in s.dsts : \E p \in Paths(t, s, d) : \E c \in Exposed(t, p) :
          v = AtPort("ERROR", "SEC001", s, c.exit, c.entry)
    BY <1>5 DEF SEC001
  <2>2. PICK d \in s.dsts : \E p \in Paths(t, s, d) : \E c \in Exposed(t, p) :
          v = AtPort("ERROR", "SEC001", s, c.exit, c.entry)
    BY <2>1
  <2>3. PICK p \in Paths(t, s, d) : \E c \in Exposed(t, p) :
          v = AtPort("ERROR", "SEC001", s, c.exit, c.entry)
    BY <2>2
  <2>4. PICK k \in 1..Len(p) :
         v = AtPort("ERROR", "SEC001", s, p[k].exit, p[k].entry)
    BY <2>3 DEF Exposed
  <2>5. p[k].exit \in OnPath(t, s)
    BY CrossingHops
  <2> QED
    BY <1>1, <2>4, <2>5, KeyedAtPort
<1> QED
  BY <1>2, <1>3, <1>4, <1>5

(* No rule makes up a name.                                                *)
LEMMA ChecksKeyed ==
    ASSUME NEW t, IsTopology(t), NEW r \in Registered, NEW v \in Check(r, t)
    PROVE  Keyed(t, v)
<1>1. CASE r \in {"VLAN001", "VLAN002", "VLAN003", "MC001", "FW001"}
  BY <1>1, CheckIs, PortRulesKeyed
<1>2. CASE r \in {"TSN001", "TSN002"}
  BY <1>2, CheckIs, ShaperRulesKeyed
<1>3. CASE r \in {"LAT001", "TOPO001", "TOPO002"}
  BY <1>3, CheckIs, StreamRulesKeyed
<1>4. CASE r \in {"BW001", "SD001", "ORPH001", "SEC001"}
  BY <1>4, CheckIs, NodeRulesKeyed
<1> QED
  BY <1>1, <1>2, <1>3, <1>4, RegistryType

(* What is left to be done is the end of the plan.                         *)
LEMMA SuffixOfPlan == ASSUME Progress PROVE IsSuffix(todo, Plan)
<1>1. Plan \in Seq(Tokens) /\ todo \in Seq(Tokens)
  BY PlanType DEF Progress
<1> DEFINE n == Len(todo)
           m == Len(Plan)
<1>2. n \in Nat /\ m \in Nat /\ n <= m /\ \A k \in 1..n : todo[k] = Plan[(m - n) + k]
  BY <1>1, LenProperties DEF Progress, Ran
<1> HIDE DEF n, m
<1>3. Reverse(todo) = [i \in 1..n |-> todo[(n - i) + 1]] /\ Reverse(Plan) = [i \in 1..m |-> Plan[(m - i) + 1]]
  BY DEF Reverse, n, m
<1>4. Len(Reverse(todo)) = n /\ Len(Reverse(Plan)) = m
  BY <1>2, <1>3
<1>5. \A i \in 1..n : Reverse(todo)[i] = Reverse(Plan)[i]
  BY <1>2, <1>3
<1>6. SubSeq(Reverse(todo), 1, n) = SubSeq(Reverse(Plan), 1, n)
  BY <1>2, <1>4, <1>5
<1> QED
  BY <1>2, <1>4, <1>6 DEF IsSuffix, IsPrefix

(* The variables of the registry keep their types: of the topologies at    *)
(* hand only, every rule names nodes, ports and streams that are there,    *)
(* under an id and a severity the reporters know.                          *)
THEOREM TypeCorrect == Spec => []TypeOK
<1>1. Progress => TypeOK
  <2> SUFFICES ASSUME Progress PROVE TypeOK
    OBVIOUS
  <2>1. ASSUME NEW v \in violations PROVE KeyFields(v) \in ViolationType
    <3>1. PICK i \in 1..Ran : v \in Check(Plan[i], topo)
      BY DEF Progress, Verdict
    <3>2. Keyed(topo, v)
      BY <3>1, TopologyAtHand, ChecksKeyed DEF Progress
    <3> QED
      BY <3>2 DEF Keyed, KeyFields, ViolationType
  <2> QED
    BY <2>1, SuffixOfPlan DEF Progress, TypeOK
<1> QED
  BY <1>1, AlwaysProgress, PTL

-----------------------------------------------------------------------------
(* A path LAT001 gives up has been reported by TSN001.                     *)

(* A shaper that cannot be timed is one TSN001 finds fault with.           *)
LEMMA UnshapedIsDefect ==
    ASSUME NEW c, IsPort(c), ~Shaped(c)
    PROVE  \E x \in CbsDefects(c.cbs_a) : x[1] = "ERROR"
<1>1. CASE c.cbs_a = {}
  <2>1. <<"ERROR", "absent">> \in CbsDefects(c.cbs_a)
    BY <1>1 DEF CbsDefects
  <2> QED
    BY <2>1
<1>2. CASE c.cbs_a # {}
  <2>1. PICK x \in c.cbs_a : TRUE
    BY <1>2
  <2>2. x.idle = 0
    BY <2>1 DEF IsPort, IsShaper, Shaped
  <2>3. <<"ERROR", "idleSlope">> \in CbsDefects(c.cbs_a)
    BY <1>2, <2>1, <2>2 DEF CbsDefects, When
  <2> QED
    BY <2>3
<1> QED
  BY <1>1, <1>2

(* TSN001 looks at every switch port on the way of a class-A stream.       *)
LEMMA ShaperIsChecked ==
    ASSUME NEW t, NEW s \in Streams(t), s.class = 1, NEW h \in SwitchPorts(t, s),
           NEW x \in CbsDefects(t.port[h].cbs_a)
    PROVE  AtPort(x[1], "TSN001", s, h, x[2]) \in TSN001(t)
  BY DEF TSN001, Defects, ClassShaper

(* A port whose delay is added up is a switch port on the way.             *)
LEMMA TimedAreSwitchPorts ==
    ASSUME NEW t, IsTopology(t), NEW s \in Streams(t), NEW d \in s.dsts,
           NEW p \in Paths(t, s, d)
    PROVE  TimedPorts(t, p) \subseteq SwitchPorts(t, s)
<1> SUFFICES ASSUME NEW h \in TimedPorts(t, p) PROVE h \in SwitchPorts(t, s)
  OBVIOUS
<1>1. PICK k \in 1..(2 * Len(p)) : h = Hops(p)[k] /\ Relevant(t, h)
  BY DEF TimedPorts, FirstPorts
<1>2. Known(t, h) /\ h \in DOMAIN t.port
  BY DEF TimedPorts, Known
<1>3. h.node \in DOMAIN t.type /\ t.type[h.node] \in {"ECU", "SWITCH"}
  BY <1>2 DEF IsTopology
<1>4. Named(h) /\ IsSwitch(t, h.node)
  BY <1>1, <1>3 DEF Relevant, IsEcu, IsSwitch
<1>5. h \in OnPath(t, s)
  <2>1. Len(p) \in Nat
    BY StreamPaths, SimplePathType
  <2>2. PICK c \in 1..Len(p) : h \in {p[c].exit, p[c].entry}
    BY <1>1, <2>1, HopsAre
  <2> QED
    BY <2>2, CrossingHops
<1> QED
  BY <1>2, <1>4, <1>5 DEF SwitchPorts

(* LAT001 gives up on a path without a word only where TSN001 has reported *)
(* an error for the same stream.                                           *)
THEOREM NoGap == Spec => []NoSilentLatencyGap
<1>1. Progress => NoSilentLatencyGap
  <2> SUFFICES ASSUME Progress, FullRun, NEW s \in Budgeted(topo),
                      NEW p \in AllPaths(topo, s), ~Coherent(topo, p)
               PROVE  \E v \in Errors(violations) : v.rule_id = "TSN001" /\ v.stream_id = s.id
    BY DEF NoSilentLatencyGap
  <2>1. IsTopology(topo) /\ s \in Streams(topo) /\ s.class = 1
    BY TopologyAtHand DEF Budgeted
  <2>2. PICK d \in s.dsts : p \in Paths(topo, s, d)
    BY DEF AllPaths
  <2>3. PICK h \in TimedPorts(topo, p) : ~Shaped(topo.port[h])
    BY DEF Coherent
  <2>4. h \in SwitchPorts(topo, s) /\ IsPort(topo.port[h])
    BY <2>1, <2>2, <2>3, TimedAreSwitchPorts DEF SwitchPorts, Known, IsTopology
  <2>5. PICK x \in CbsDefects(topo.port[h].cbs_a) : x[1] = "ERROR"
    BY <2>3, <2>4, UnshapedIsDefect
  <2>6. AtPort(x[1], "TSN001", s, h, x[2]) \in violations
    BY <2>1, <2>4, <2>5, ShaperIsChecked, CheckIs, RegistryType, FullVerdict
  <2> QED
    BY <2>5, <2>6 DEF Errors, AtPort, Violation
<1> QED
  BY <1>1, AlwaysProgress, PTL

-----------------------------------------------------------------------------
(* A clean report: no two services collide.                                *)

(* If ids collide, some service is not where its id was claimed first: the *)
(* later of two, or the earlier one.                                       *)
LEMMA FirstClaimSuffices ==
    ASSUME NEW svc, Len(svc) \in Nat, ClaimedElsewhere(svc) = {},
           NEW i \in 1..Len(svc), NEW j \in 1..Len(svc), i < j, SameId(svc[i], svc[j])
    PROVE  svc[i].ecu = svc[j].ecu
<1> DEFINE C == {k \in 1..Len(svc) : SameId(svc[k], svc[j])}
<1>1. PICK m \in C : \A k \in C : m <= k
  <2>1. C \subseteq Nat /\ i \in C
    OBVIOUS
  <2> HIDE DEF C
  <2> QED
    BY <2>1, SmallestOf
<1>2. m \in 1..Len(svc) /\ m <= i /\ \A k \in 1..(m - 1) : ~SameId(svc[k], svc[j])
  BY <1>1
<1>3. svc[m].ecu = svc[j].ecu
  BY <1>1, <1>2 DEF ClaimedElsewhere
<1>4. SameId(svc[m], svc[i]) /\ \A k \in 1..(m - 1) : ~SameId(svc[k], svc[i])
  BY <1>1, <1>2 DEF SameId
<1>5. svc[m].ecu = svc[i].ecu
  BY <1>2, <1>4 DEF ClaimedElsewhere
<1> QED
  BY <1>3, <1>5

(* A clean report means that no two services collide, although SD001       *)
(* compares each with the first claimer of its id only.                    *)
THEOREM NoCollision == Spec => []CleanMeansCollisionFree
<1>1. Progress => CleanMeansCollisionFree
  <2> SUFFICES ASSUME Progress, Clean PROVE CollisionFree
    BY DEF CleanMeansCollisionFree
  <2> DEFINE svc == topo.services
  <2>1. Len(svc) \in Nat
    BY TopologyAtHand DEF IsTopology
  <2>2. \A v \in SD001(topo) : v.severity = "INFO"
    BY CheckIs, RegistryType, CleanVerdict
  <2>3. ASSUME NEW j, NEW what,
               Violation("ERROR", "SD001", NoName, svc[j].ecu, NoName, <<what, j>>) \in SD001(topo)
        PROVE  FALSE
    BY <2>2, <2>3 DEF Violation
  <2>4. ClaimedElsewhere(svc) = {} /\ PortTaken(svc) = {}
    BY <2>3 DEF SD001
  <2>5. ASSUME NEW i \in 1..Len(svc), NEW j \in 1..Len(svc), i < j
        PROVE  /\ SameId(svc[i], svc[j]) => svc[i].ecu = svc[j].ecu
               /\ ~SamePort(svc[i], svc[j])
    <3>1. SameId(svc[i], svc[j]) => svc[i].ecu = svc[j].ecu
      BY <2>1, <2>4, <2>5, FirstClaimSuffices
    <3>2. ~SamePort(svc[i], svc[j])
      BY <2>1, <2>4, <2>5 DEF PortTaken
    <3> QED
      BY <3>1, <3>2
  <2>6. ASSUME NEW i \in 1..Len(svc), NEW j \in 1..Len(svc), i # j
        PROVE  /\ SameId(svc[i], svc[j]) => svc[i].ecu = svc[j].ecu
               /\ ~SamePort(svc[i], svc[j])
    <3>1. i < j \/ j < i
      BY <2>1, <2>6
    <3>2. /\ SameId(svc[i], svc[j]) <=> SameId(svc[j], svc[i])
          /\ SamePort(svc[i], svc[j]) <=> SamePort(svc[j], svc[i])
      BY DEF SameId, SamePort
    <3> QED
      BY <2>5, <3>1, <3>2
  <2> QED
    BY <2>6 DEF CollisionFree
<1> QED
  BY <1>1, AlwaysProgress, PTL

-----------------------------------------------------------------------------
(* What the rules find, one violation at a time.                           *)

(* VLAN001: a stream without a path, or a port that is not in its VLAN.    *)
LEMMA VLAN001Finds ==
    ASSUME NEW t, NEW v
    PROVE  v \in VLAN001(t) <=>
             \E s \in Streams(t) :
               /\ s.vlan # 0
               /\ \/ v \in NoPath("VLAN001", t, s)
                  \/ \E h \in OnPath(t, s) : /\ Named(h) /\ ~IsEcu(t, h.node) /\ Known(t, h)
                                             /\ s.vlan \notin t.port[h].vlans
                                             /\ v = AtPort("ERROR", "VLAN001", s, h, s.vlan)
  BY DEF VLAN001, Tagged

(* MC001: a stream without a path, or a switch that does not know its      *)
(* group.                                                                  *)
LEMMA MC001Finds ==
    ASSUME NEW t, NEW v
    PROVE  v \in MC001(t) <=>
             \E s \in Streams(t) :
               /\ s.mcast # 0
               /\ \/ v \in NoPath("MC001", t, s)
                  \/ \E h \in OnPath(t, s) : /\ IsSwitch(t, h.node)
                                             /\ [switch |-> h.node, ip |-> s.mcast] \notin t.groups
                                             /\ v = Violation("ERROR", "MC001", s.id, h.node, NoName, s.mcast)
<1> DEFINE Missing(s) ==
      {Violation("ERROR", "MC001", s.id, h.node, NoName, s.mcast) :
         h \in {g \in OnPath(t, s) : /\ IsSwitch(t, g.node)
                                     /\ [switch |-> g.node, ip |-> s.mcast] \notin t.groups}}
<1>1. \A s : v \in Missing(s) <=>
        \E h \in OnPath(t, s) : /\ IsSwitch(t, h.node)
                                /\ [switch |-> h.node, ip |-> s.mcast] \notin t.groups
                                /\ v = Violation("ERROR", "MC001", s.id, h.node, NoName, s.mcast)
  OBVIOUS
<1>2. MC001(t) = UNION {NoPath("MC001", t, s) \cup Missing(s) : s \in {x \in Streams(t) : x.mcast # 0}}
  BY DEF MC001
<1>3. v \in MC001(t) <=> \E s \in Streams(t) : s.mcast # 0 /\ v \in NoPath("MC001", t, s) \cup Missing(s)
  <2> HIDE DEF Missing
  <2> QED
    BY <1>2
<1> QED
  <2> HIDE DEF Missing
  <2> QED
    BY <1>1, <1>3

(* FW001: a stream without a path, or a port whose firewall does not pass  *)
(* it.                                                                     *)
LEMMA FW001Finds ==
    ASSUME NEW t, NEW v
    PROVE  v \in FW001(t) <=>
             \E s \in Streams(t) :
               /\ s.mcast # 0 \/ StrictUnicastFw
               /\ \/ v \in NoPath("FW001", t, s)
                  \/ \E h \in SwitchPorts(t, s) : /\ ~Covered(t.port[h], s)
                                                  /\ v = AtPort("ERROR", "FW001", s, h, s.mcast)
  BY DEF FW001

(* TSN001: a stream without a path, or a defect of a credit-based shaper.  *)
LEMMA TSN001Finds ==
    ASSUME NEW t, NEW v
    PROVE  v \in TSN001(t) <=>
             \E s \in Streams(t) :
               /\ s.class \in {1, 2}
               /\ \/ v \in NoPath("TSN001", t, s)
                  \/ \E h \in SwitchPorts(t, s) : \E x \in CbsDefects(ClassShaper(t.port[h], s)) :
                       v = AtPort(x[1], "TSN001", s, h, x[2])
  BY DEF TSN001, Defects

(* TSN002: a stream without a path, or a defect of a time-aware shaper.    *)
LEMMA TSN002Finds ==
    ASSUME NEW t, NEW v
    PROVE  v \in TSN002(t) <=>
             \E s \in Streams(t) :
               /\ s.class = 3
               /\ \/ v \in NoPath("TSN002", t, s)
                  \/ \E h \in SwitchPorts(t, s) : \E x \in TasDefects(t.port[h].tas) :
                       v = AtPort(x[1], "TSN002", s, h, x[2])
  BY DEF TSN002, Defects

(* SEC001: a crossing between domains that is not protected.               *)
LEMMA SEC001Finds ==
    ASSUME NEW t, NEW v
    PROVE  v \in SEC001(t) <=>
             \E s \in Streams(t) : \E d \in s.dsts :
               /\ Apart(t, s.src, d)
               /\ \E p \in Paths(t, s, d) : \E c \in Exposed(t, p) :
                    v = AtPort("ERROR", "SEC001", s, c.exit, c.entry)
  BY DEF SEC001

(* LAT001: a path that can be timed and takes longer than the budget.      *)
LEMMA LAT001Finds ==
    ASSUME NEW t, NEW v
    PROVE  v \in LAT001(t) <=>
             \E s \in Streams(t) :
               /\ s.class = 1 /\ s.budget_us # 0
               /\ \E p \in AllPaths(t, s) : /\ Coherent(t, p) /\ DelayUs(t, p) > s.budget_us
                                            /\ v = Violation("ERROR", "LAT001", s.id, NoName, NoName, DelayUs(t, p))
  BY DEF LAT001, Budgeted

-----------------------------------------------------------------------------
(* A clean report: every stream is carried.                                *)

(* In a clean run no rule has found anything of weight.                    *)
LEMMA Quiet ==
    ASSUME Progress, Clean, NEW sev \in {"ERROR", "WARN"}, NEW s, NEW n, NEW q, NEW what
    PROVE  \A r \in Registered : Violation(sev, r, s, n, q, what) \notin Check(r, topo)
  BY CleanVerdict DEF Violation

(* A switch port on the way lets the stream pass.                          *)
LEMMA CleanPasses ==
    ASSUME Progress, Clean, NEW s \in Streams(topo), NEW h \in SwitchPorts(topo, s)
    PROVE  Passes(s, h)
<1> DEFINE port == topo.port[h]
<1>1. /\ h \in OnPath(topo, s) /\ Named(h) /\ IsSwitch(topo, h.node) /\ Known(topo, h)
      /\ ~IsEcu(topo, h.node)
  BY DEF SwitchPorts, IsSwitch, IsEcu
<1>2. IsPort(port)
  BY <1>1, TopologyAtHand DEF Known, IsTopology
<1>3. s.vlan # 0 => s.vlan \in port.vlans
  <2> SUFFICES ASSUME s.vlan # 0, s.vlan \notin port.vlans PROVE FALSE
    OBVIOUS
  <2>1. AtPort("ERROR", "VLAN001", s, h, s.vlan) \in VLAN001(topo)
    BY <1>1 DEF VLAN001, Tagged
  <2> QED
    BY <2>1, Quiet, CheckIs, RegistryType DEF AtPort
<1>5. s.mcast # 0 => Permitted(port, s)
  <2> SUFFICES ASSUME s.mcast # 0, ~Covered(port, s) PROVE FALSE
    BY DEF Covered, Permitted
  <2>1. AtPort("ERROR", "FW001", s, h, s.mcast) \in FW001(topo)
    BY DEF FW001
  <2> QED
    BY <2>1, Quiet, CheckIs, RegistryType DEF AtPort
<1>6. ASSUME s.class \in {1, 2}
      PROVE \E c \in ClassShaper(port, s) : c.idle > 0 /\ c.send < 0
  <2>1. ASSUME NEW x \in CbsDefects(ClassShaper(port, s)) PROVE FALSE
    <3>1. AtPort(x[1], "TSN001", s, h, x[2]) \in TSN001(topo)
      BY <1>6 DEF TSN001, Defects
    <3> QED
      BY <3>1, DefectSeverity, Quiet, CheckIs, RegistryType DEF AtPort
  <2>2. ClassShaper(port, s) # {}
    BY <2>1 DEF CbsDefects
  <2>3. PICK c \in ClassShaper(port, s) : TRUE
    BY <2>2
  <2>4. c.idle \in Nat /\ c.send \in Int
    BY <1>2 DEF IsPort, IsShaper, ClassShaper
  <2>5. c.idle # 0
    <3> SUFFICES ASSUME c.idle = 0 PROVE FALSE
      OBVIOUS
    <3>1. <<"ERROR", "idleSlope">> \in CbsDefects(ClassShaper(port, s))
      BY DEF CbsDefects, When
    <3> QED
      BY <2>1, <3>1
  <2>6. ~(c.send >= 0)
    <3> SUFFICES ASSUME c.send >= 0 PROVE FALSE
      OBVIOUS
    <3>1. <<"ERROR", "sendSlope">> \in CbsDefects(ClassShaper(port, s))
      BY DEF CbsDefects, When
    <3> QED
      BY <2>1, <3>1
  <2> QED
    BY <2>4, <2>5, <2>6
<1>7. ASSUME s.class = 3 PROVE \E x \in port.tas : x.gcl /\ x.cycle > 0
  <2>1. ASSUME NEW x \in TasDefects(port.tas) PROVE FALSE
    <3>1. AtPort(x[1], "TSN002", s, h, x[2]) \in TSN002(topo)
      BY <1>7 DEF TSN002, Defects
    <3> QED
      BY <3>1, DefectSeverity, Quiet, CheckIs, RegistryType DEF AtPort
  <2>2. port.tas # {}
    BY <2>1 DEF TasDefects
  <2>3. PICK c \in port.tas : TRUE
    BY <2>2
  <2>4. c.gcl \in BOOLEAN /\ c.cycle \in Nat
    BY <1>2 DEF IsPort
  <2>5. c.gcl
    <3> SUFFICES ASSUME ~c.gcl PROVE FALSE
      OBVIOUS
    <3>1. <<"ERROR", "gcl">> \in TasDefects(port.tas)
      BY DEF TasDefects, When
    <3> QED
      BY <2>1, <3>1
  <2>6. c.cycle # 0
    <3> SUFFICES ASSUME c.cycle = 0 PROVE FALSE
      OBVIOUS
    <3>1. <<"WARN", "cycle">> \in TasDefects(port.tas)
      BY DEF TasDefects, When
    <3> QED
      BY <2>1, <3>1
  <2> QED
    BY <2>4, <2>5, <2>6
<1>8. /\ s.class = 1 => \E c \in port.cbs_a : c.idle > 0 /\ c.send < 0
      /\ s.class = 2 => \E c \in port.cbs_b : c.idle > 0 /\ c.send < 0
  BY <1>6 DEF ClassShaper
<1> QED
  BY <1>3, <1>5, <1>7, <1>8 DEF Passes

(* Every destination of a stream that some rule looks after is reached.    *)
LEMMA CleanReaches ==
    ASSUME Progress, Clean, NEW s \in Streams(topo), Watched(s), NEW d \in s.dsts
    PROVE  Paths(topo, s, d) # {}
<1> SUFFICES ASSUME Paths(topo, s, d) = {} PROVE FALSE
  OBVIOUS
<1>1. ASSUME NEW r \in Registered, NoPath(r, topo, s) \subseteq Check(r, topo)
      PROVE FALSE
  <2>1. Violation("WARN", r, s.id, NoName, NoName, d) \in NoPath(r, topo, s)
    BY DEF NoPath
  <2> QED
    BY <1>1, <2>1, Quiet
<1>2. CASE s.vlan # 0
  <2>1. NoPath("VLAN001", topo, s) \subseteq VLAN001(topo)
    BY <1>2, VLAN001Finds
  <2> QED
    BY <1>1, <2>1, CheckIs, RegistryType
<1>3. CASE s.mcast # 0
  <2>1. NoPath("MC001", topo, s) \subseteq MC001(topo)
    BY <1>3, MC001Finds
  <2> QED
    BY <1>1, <2>1, CheckIs, RegistryType
<1>4. CASE s.class \in {1, 2}
  <2>1. NoPath("TSN001", topo, s) \subseteq TSN001(topo)
    BY <1>4, TSN001Finds
  <2> QED
    BY <1>1, <2>1, CheckIs, RegistryType
<1>5. CASE s.class = 3
  <2>1. NoPath("TSN002", topo, s) \subseteq TSN002(topo)
    BY <1>5, TSN002Finds
  <2> QED
    BY <1>1, <2>1, CheckIs, RegistryType
<1> QED
  BY <1>2, <1>3, <1>4, <1>5 DEF Watched

(* Every switch on the way of a multicast stream knows its group.          *)
LEMMA CleanGroups ==
    ASSUME Progress, Clean, NEW s \in Streams(topo), s.mcast # 0,
           NEW h \in OnPath(topo, s), IsSwitch(topo, h.node)
    PROVE  [switch |-> h.node, ip |-> s.mcast] \in topo.groups
<1> SUFFICES ASSUME [switch |-> h.node, ip |-> s.mcast] \notin topo.groups PROVE FALSE
  OBVIOUS
<1>1. Violation("ERROR", "MC001", s.id, h.node, NoName, s.mcast) \in MC001(topo)
  BY MC001Finds
<1> QED
  BY <1>1, Quiet, CheckIs, RegistryType

(* After a clean run every destination of every stream that some rule      *)
(* looks after is reached, and every switch on every path has the group of *)
(* the stream and lets it in and out by the ports the file declares.       *)
THEOREM Carried == Spec => []CleanMeansCarried
<1>1. Progress => CleanMeansCarried
  <2> SUFFICES ASSUME Progress, Clean, NEW s \in Streams(topo), Watched(s), NEW d \in s.dsts
               PROVE  /\ SimplePaths(topo.links, s.src, d) # {}
                      /\ \A p \in SimplePaths(topo.links, s.src, d) : \A k \in 1..(Len(p) - 1) :
                           IsSwitch(topo, p[k].entry.node) =>
                             /\ s.mcast # 0 =>
                                  [switch |-> p[k].entry.node, ip |-> s.mcast] \in topo.groups
                             /\ \A h \in {p[k].entry, p[k + 1].exit} :
                                  Named(h) /\ Known(topo, h) => Passes(s, h)
    BY DEF CleanMeansCarried
  <2>1. IsTopology(topo)
    BY TopologyAtHand
  <2>2. /\ Paths(topo, s, d) = SimplePaths(topo.links, s.src, d)
        /\ d \in Nodes
        /\ s.src \in Nodes
        /\ topo.links \in Seq(Link)
    BY <2>1, StreamPaths
  <2>3. ASSUME NEW p \in SimplePaths(topo.links, s.src, d), NEW k \in 1..(Len(p) - 1),
               IsSwitch(topo, p[k].entry.node)
        PROVE  /\ s.mcast # 0 => [switch |-> p[k].entry.node, ip |-> s.mcast] \in topo.groups
               /\ \A h \in {p[k].entry, p[k + 1].exit} :
                    Named(h) /\ Known(topo, h) => Passes(s, h)
    <3>1. Len(p) \in Nat /\ k \in 1..Len(p) /\ k + 1 \in 1..Len(p)
      BY <2>2, SimplePathType
    <3>2. p[k + 1].exit.node = p[k].entry.node
      BY <2>2, <3>1, SimplePathHops DEF NodeAt
    <3>3. p[k].entry \in OnPath(topo, s) /\ p[k + 1].exit \in OnPath(topo, s)
      BY <2>1, <2>2, <3>1, CrossingHops
    <3>4. s.mcast # 0 => [switch |-> p[k].entry.node, ip |-> s.mcast] \in topo.groups
      BY <2>3, <3>3, CleanGroups
    <3>5. ASSUME NEW h \in {p[k].entry, p[k + 1].exit}, Named(h), Known(topo, h)
          PROVE  Passes(s, h)
      <4>1. h \in SwitchPorts(topo, s)
        BY <2>3, <3>2, <3>3, <3>5 DEF SwitchPorts
      <4> QED
        BY <4>1, CleanPasses
    <3> QED
      BY <3>4, <3>5
  <2> QED
    BY <2>2, <2>3, CleanReaches
<1> QED
  BY <1>1, AlwaysProgress, PTL

-----------------------------------------------------------------------------
(* A clean report: boundaries between domains are protected.               *)

(* A walk between two domains, through nodes that all have one, crosses    *)
(* from one domain into another somewhere: where it first has left the     *)
(* domain it began in.                                                     *)
LEMMA DomainChanges ==
    ASSUME NEW t, IsTopology(t), NEW s \in Streams(t), NEW d \in s.dsts,
           NEW p \in Paths(t, s, d), Apart(t, s.src, d),
           \A h \in PathHops(p) : HasDomain(t, h.node)
    PROVE  \E k \in 1..Len(p) : Apart(t, p[k].exit.node, p[k].entry.node)
<1> DEFINE at(k) == NodeAt(s.src, p, k)
           Out == {k \in 0..Len(p) : t.domain[at(k)] # t.domain[s.src]}
<1>1. /\ p \in SimplePaths(t.links, s.src, d) /\ s.src \in Nodes /\ d \in Nodes
      /\ t.links \in Seq(Link)
  BY StreamPaths
<1>2. Len(p) \in Nat /\ IsSimplePath(t.links, s.src, d, p)
  BY <1>1, SimplePathType
<1>3. at(0) = s.src /\ at(Len(p)) = d
  BY <1>2 DEF IsSimplePath, NodeAt
<1>4. Len(p) \in Out
  BY <1>2, <1>3 DEF Apart
<1>5. PICK k \in Out : \A m \in Out : k <= m
  <2>1. Out \subseteq Nat /\ Out # {}
    BY <1>4
  <2> HIDE DEF Out
  <2> QED
    BY <2>1, SmallestOf
<1>6. k # 0 /\ k \in 1..Len(p) /\ k - 1 \in 0..Len(p)
  BY <1>2, <1>3, <1>5
<1>7. t.domain[at(k - 1)] = t.domain[s.src]
  <2>1. k - 1 \notin Out
    BY <1>5, <1>6
  <2> QED
    BY <1>6, <2>1
<1>8. p[k].exit.node = at(k - 1) /\ p[k].entry.node = at(k)
  BY <1>1, <1>6, SimplePathHops DEF NodeAt
<1>9. HasDomain(t, p[k].exit.node) /\ HasDomain(t, p[k].entry.node)
  BY <1>6 DEF PathHops
<1> QED
  BY <1>5, <1>6, <1>7, <1>8, <1>9 DEF Apart

(* After a clean run every way of a cross-domain stream through nodes that *)
(* all have a domain takes a link that is protected at both ends.          *)
THEOREM BoundaryProtected == Spec => []CrossDomainProtected
<1>1. Progress => CrossDomainProtected
  <2> SUFFICES ASSUME Progress, Clean, NEW s \in Streams(topo), NEW d \in s.dsts, CrossDomain(s, d),
                      NEW p \in Paths(topo, s, d), AllInDomains(p)
               PROVE  Protected(p)
    BY DEF CrossDomainProtected
  <2>1. PICK k \in 1..Len(p) : Apart(topo, p[k].exit.node, p[k].entry.node)
    BY TopologyAtHand, DomainChanges DEF CrossDomain, AllInDomains
  <2>2. Secured(topo, p[k].exit) /\ Secured(topo, p[k].entry)
    <3> SUFFICES ASSUME ~(Secured(topo, p[k].exit) /\ Secured(topo, p[k].entry))
                 PROVE FALSE
      OBVIOUS
    <3>1. p[k] \in Exposed(topo, p)
      BY <2>1 DEF Exposed
    <3>2. AtPort("ERROR", "SEC001", s, p[k].exit, p[k].entry) \in SEC001(topo)
      BY <3>1, SEC001Finds DEF CrossDomain
    <3> QED
      BY <3>2, Quiet, CheckIs, RegistryType DEF AtPort
  <2> QED
    BY <2>2 DEF Protected
<1> QED
  BY <1>1, AlwaysProgress, PTL

-----------------------------------------------------------------------------
(* A clean report: no port is promised too much.                           *)

(* What streams reserve is a sum of natural numbers.                       *)
LEMMA ReservedIs ==
    ASSUME NEW t, NEW I
    PROVE  Reserved(t, I) = Total(Kbps(t), I)
  BY DEF Reserved, Total, MapThenSumSet, MapThenFoldSet

(* Bandwidths are natural numbers, and there are finitely many.            *)
LEMMA KbpsType ==
    ASSUME NEW t, IsTopology(t)
    PROVE  /\ IsFiniteSet(1..Len(t.streams))
           /\ \A i \in 1..Len(t.streams) : Kbps(t)[i] \in Nat /\ Kbps(t)[i] = t.streams[i].bandwidth
<1>1. Len(t.streams) \in Nat /\ \A i \in 1..Len(t.streams) : t.streams[i].bandwidth \in Nat
  BY DEF IsTopology, IsStream
<1>2. IsFiniteSet(1..Len(t.streams))
  <2>1. \A n \in Nat : IsFiniteSet(1..n)
    BY FS_Interval
  <2> QED
    BY <1>1, <2>1
<1> QED
  BY <1>1, <1>2 DEF Kbps

(* Where stream ids are unique, every stream is counted at every port it   *)
(* uses.                                                                   *)
LEMMA UniqueCounted ==
    ASSUME NEW t, Len(t.streams) \in Nat, NEW h,
           \A i, j \in 1..Len(t.streams) : t.streams[i].id = t.streams[j].id => i = j
    PROVE  Counted(t, h) = {i \in ClassA(t) : Uses(t, i, h)}
<1>1. \A i, j \in ClassA(t) : t.streams[i].id = t.streams[j].id => i = j
  BY DEF ClassA
<1>2. \A i, j \in ClassA(t) : j < i => i # j
  BY DEF ClassA
<1> QED
  BY <1>1, <1>2 DEF Counted

(* Streams that reserve nothing add nothing to a port's demand.            *)
LEMMA DemandIsCounted ==
    ASSUME IsTopology(topo), UniqueIds, NEW h
    PROVE  Demand(h) = PortBandwidth(topo, h)
<1> DEFINE D == {i \in 1..Len(topo.streams) : topo.streams[i].class = 1 /\ Uses(topo, i, h)}
           C == Counted(topo, h)
<1>1. C = {i \in ClassA(topo) : Uses(topo, i, h)}
  BY UniqueCounted DEF UniqueIds, IsTopology
<1>2. C \subseteq D /\ \A i \in D \ C : Kbps(topo)[i] = 0
  BY <1>1, KbpsType DEF ClassA
<1>3. IsFiniteSet(D) /\ \A i \in D : Kbps(topo)[i] \in Nat
  BY KbpsType, FS_Subset
<1> HIDE DEF C, D
<1>4. Total(Kbps(topo), D) = Total(Kbps(topo), C)
  BY <1>2, <1>3, TotalOfNothing
<1> QED
  BY <1>4, ReservedIs DEF Demand, PortBandwidth, C, D

(* After a clean run the class-A streams that can reach a declared switch  *)
(* port reserve no more than its limit, if stream ids are unique.          *)
THEOREM LimitKept == Spec => []CleanMeansWithinLimit
<1>1. Progress => CleanMeansWithinLimit
  <2> SUFFICES ASSUME Progress, Clean, UniqueIds, NEW h \in DOMAIN topo.port,
                      Named(h), IsSwitch(topo, h.node)
               PROVE  Demand(h) <= PortLimit(topo.port[h])
    BY DEF CleanMeansWithinLimit, WithinLimit
  <2>1. IsTopology(topo)
    BY TopologyAtHand
  <2>2. PortBandwidth(topo, h) \in Nat
    <3>1. Counted(topo, h) \in SUBSET (1..Len(topo.streams))
      BY DEF Counted, ClassA
    <3> QED
      BY <2>1, <3>1, KbpsType, TotalType, ReservedIs DEF PortBandwidth
  <2>3. PortLimit(topo.port[h]) \in Int
    <3>1. topo.port[h].rate \in Nat
      BY <2>1 DEF IsTopology, IsPort
    <3>2. Config.limit.num \in Nat /\ Config.limit.den \in Nat \ {0}
      BY ConfigType
    <3> QED
      BY <3>1, <3>2 DEF PortLimit
  <2>4. ~(PortBandwidth(topo, h) > PortLimit(topo.port[h]))
    <3> SUFFICES ASSUME PortBandwidth(topo, h) > PortLimit(topo.port[h])
                 PROVE FALSE
      OBVIOUS
    <3>1. Violation("ERROR", "BW001", NoName, h.node, h.port, PortBandwidth(topo, h)) \in BW001(topo)
      BY DEF BW001
    <3> QED
      BY <3>1, Quiet, CheckIs, RegistryType
  <2> QED
    BY <2>1, <2>2, <2>3, <2>4, DemandIsCounted
<1> QED
  BY <1>1, AlwaysProgress, PTL

-----------------------------------------------------------------------------
(* A new link fixes no error.                                              *)

(* The ways a stream has, it keeps.                                        *)
LEMMA WaysStay ==
    ASSUME NEW t, NEW u, IsTopology(t), IsTopology(u), AddsLinks(t, u), NEW s \in Streams(t)
    PROVE  /\ s \in Streams(u)
           /\ \A d \in s.dsts : Paths(t, s, d) \subseteq Paths(u, s, d)
           /\ AllPaths(t, s) \subseteq AllPaths(u, s)
           /\ OnPath(t, s) \subseteq OnPath(u, s)
           /\ SwitchPorts(t, s) \subseteq SwitchPorts(u, s)
<1>1. s \in Streams(u)
  BY DEF AddsLinks, Streams
<1>2. ASSUME NEW d \in s.dsts PROVE Paths(t, s, d) \subseteq Paths(u, s, d)
  <2>1. /\ Paths(t, s, d) = SimplePaths(t.links, s.src, d)
        /\ Paths(u, s, d) = SimplePaths(u.links, s.src, d)
        /\ t.links \in Seq(Link) /\ u.links \in Seq(Link) /\ s.src \in Nodes /\ d \in Nodes
    BY <1>1, StreamPaths
  <2> QED
    BY <2>1, MoreLinks DEF AddsLinks
<1>3. AllPaths(t, s) \subseteq AllPaths(u, s)
  BY <1>2 DEF AllPaths
<1>4. OnPath(t, s) \subseteq OnPath(u, s)
  BY <1>3 DEF OnPath
<1>5. SwitchPorts(t, s) \subseteq SwitchPorts(u, s)
  BY <1>4 DEF SwitchPorts, IsSwitch, Known, AddsLinks
<1> QED
  BY <1>1, <1>2, <1>3, <1>4, <1>5

(* An error of t that u has in the same place.                             *)
Kept(v, vs) == \E w \in vs : w.severity = "ERROR" /\ KeyFields(w) = KeyFields(v)

(* An error that is found again is kept.                                   *)
LEMMA KeptItself ==
    ASSUME NEW vs, NEW v \in vs, v.severity = "ERROR"
    PROVE  Kept(v, vs)
  BY DEF Kept

(* A missing path is a warning, never an error.                            *)
LEMMA NoPathWarns ==
    ASSUME NEW r, NEW t, NEW s, NEW v \in NoPath(r, t, s)
    PROVE  v.severity # "ERROR"
  BY DEF NoPath, Violation

(* Rules that judge every port on the way by itself.                       *)
LEMMA PortErrorsStay ==
    ASSUME NEW t, NEW u, IsTopology(t), IsTopology(u), AddsLinks(t, u),
           NEW v, v.severity = "ERROR"
    PROVE  /\ v \in VLAN001(t) => v \in VLAN001(u)
           /\ v \in MC001(t) => v \in MC001(u)
           /\ v \in FW001(t) => v \in FW001(u)
           /\ v \in TSN001(t) => v \in TSN001(u)
           /\ v \in TSN002(t) => v \in TSN002(u)
<1>1. ASSUME v \in VLAN001(t) PROVE v \in VLAN001(u)
  <2>1. PICK s \in Streams(t) :
          /\ s.vlan # 0
          /\ \E h \in OnPath(t, s) : /\ Named(h) /\ ~IsEcu(t, h.node) /\ Known(t, h)
                                     /\ s.vlan \notin t.port[h].vlans
                                     /\ v = AtPort("ERROR", "VLAN001", s, h, s.vlan)
    BY <1>1, VLAN001Finds, NoPathWarns
  <2>2. PICK h \in OnPath(t, s) : /\ Named(h) /\ ~IsEcu(t, h.node) /\ Known(t, h)
                                  /\ s.vlan \notin t.port[h].vlans
                                  /\ v = AtPort("ERROR", "VLAN001", s, h, s.vlan)
    BY <2>1
  <2>3. h \in OnPath(u, s) /\ s \in Streams(u)
    BY WaysStay
  <2>4. ~IsEcu(u, h.node) /\ Known(u, h) /\ s.vlan \notin u.port[h].vlans
    BY <2>2 DEF IsEcu, Known, AddsLinks
  <2> QED
    BY <2>1, <2>2, <2>3, <2>4, VLAN001Finds
<1>2. ASSUME v \in MC001(t) PROVE v \in MC001(u)
  <2>1. PICK s \in Streams(t) :
          /\ s.mcast # 0
          /\ \E h \in OnPath(t, s) : /\ IsSwitch(t, h.node)
                                     /\ [switch |-> h.node, ip |-> s.mcast] \notin t.groups
                                     /\ v = Violation("ERROR", "MC001", s.id, h.node, NoName, s.mcast)
    BY <1>2, MC001Finds, NoPathWarns
  <2>2. PICK h \in OnPath(t, s) : /\ IsSwitch(t, h.node)
                                  /\ [switch |-> h.node, ip |-> s.mcast] \notin t.groups
                                  /\ v = Violation("ERROR", "MC001", s.id, h.node, NoName, s.mcast)
    BY <2>1
  <2>3. h \in OnPath(u, s) /\ s \in Streams(u)
    BY WaysStay
  <2>4. IsSwitch(u, h.node) /\ [switch |-> h.node, ip |-> s.mcast] \notin u.groups
    BY <2>2 DEF IsSwitch, AddsLinks
  <2> QED
    BY <2>1, <2>2, <2>3, <2>4, MC001Finds
<1>3. ASSUME v \in FW001(t) PROVE v \in FW001(u)
  <2>1. PICK s \in Streams(t) :
          /\ s.mcast # 0 \/ StrictUnicastFw
          /\ \E h \in SwitchPorts(t, s) : /\ ~Covered(t.port[h], s)
                                          /\ v = AtPort("ERROR", "FW001", s, h, s.mcast)
    BY <1>3, FW001Finds, NoPathWarns
  <2>2. PICK h \in SwitchPorts(t, s) :
         ~Covered(t.port[h], s) /\ v = AtPort("ERROR", "FW001", s, h, s.mcast)
    BY <2>1
  <2>3. h \in SwitchPorts(u, s) /\ s \in Streams(u) /\ u.port = t.port
    BY WaysStay DEF AddsLinks
  <2> QED
    BY <2>1, <2>2, <2>3, FW001Finds
<1>4. ASSUME v \in TSN001(t) PROVE v \in TSN001(u)
  <2>1. PICK s \in Streams(t) :
          /\ s.class \in {1, 2}
          /\ \E h \in SwitchPorts(t, s) : \E x \in CbsDefects(ClassShaper(t.port[h], s)) :
               v = AtPort(x[1], "TSN001", s, h, x[2])
    BY <1>4, TSN001Finds, NoPathWarns
  <2>2. PICK h \in SwitchPorts(t, s) :
         \E x \in CbsDefects(ClassShaper(t.port[h], s)) :
               v = AtPort(x[1], "TSN001", s, h, x[2])
    BY <2>1
  <2>3. h \in SwitchPorts(u, s) /\ s \in Streams(u) /\ u.port = t.port
    BY WaysStay DEF AddsLinks
  <2> QED
    BY <2>1, <2>2, <2>3, TSN001Finds
<1>5. ASSUME v \in TSN002(t) PROVE v \in TSN002(u)
  <2>1. PICK s \in Streams(t) :
          /\ s.class = 3
          /\ \E h \in SwitchPorts(t, s) : \E x \in TasDefects(t.port[h].tas) :
               v = AtPort(x[1], "TSN002", s, h, x[2])
    BY <1>5, TSN002Finds, NoPathWarns
  <2>2. PICK h \in SwitchPorts(t, s) : \E x \in TasDefects(t.port[h].tas) :
               v = AtPort(x[1], "TSN002", s, h, x[2])
    BY <2>1
  <2>3. h \in SwitchPorts(u, s) /\ s \in Streams(u) /\ u.port = t.port
    BY WaysStay DEF AddsLinks
  <2> QED
    BY <2>1, <2>2, <2>3, TSN002Finds
<1> QED
  BY <1>1, <1>2, <1>3, <1>4, <1>5

(* Rules that judge a path as a whole: its delay and its crossings are     *)
(* what they were.                                                         *)
LEMMA PathErrorsStay ==
    ASSUME NEW t, NEW u, IsTopology(t), IsTopology(u), AddsLinks(t, u), NEW v
    PROVE  /\ v \in SEC001(t) => v \in SEC001(u)
           /\ v \in LAT001(t) => v \in LAT001(u)
<1>1. ASSUME v \in SEC001(t) PROVE v \in SEC001(u)
  <2>0. PICK s \in Streams(t) : \E d \in s.dsts :
          /\ Apart(t, s.src, d)
          /\ \E p \in Paths(t, s, d) : \E c \in Exposed(t, p) :
               v = AtPort("ERROR", "SEC001", s, c.exit, c.entry)
    BY <1>1, SEC001Finds
  <2>1. PICK d \in s.dsts :
          /\ Apart(t, s.src, d)
          /\ \E p \in Paths(t, s, d) : \E c \in Exposed(t, p) :
               v = AtPort("ERROR", "SEC001", s, c.exit, c.entry)
    BY <2>0
  <2>2. PICK p \in Paths(t, s, d) : \E c \in Exposed(t, p) :
          v = AtPort("ERROR", "SEC001", s, c.exit, c.entry)
    BY <2>1
  <2>3. p \in Paths(u, s, d) /\ s \in Streams(u)
    BY WaysStay
  <2>4. Apart(u, s.src, d) /\ Exposed(u, p) = Exposed(t, p)
    BY <2>1 DEF Apart, HasDomain, Exposed, Secured, Known, AddsLinks
  <2> QED
    BY <2>2, <2>3, <2>4, SEC001Finds
<1>2. ASSUME v \in LAT001(t) PROVE v \in LAT001(u)
  <2>1. PICK s \in Streams(t) :
          /\ s.class = 1 /\ s.budget_us # 0
          /\ \E p \in AllPaths(t, s) : /\ Coherent(t, p) /\ DelayUs(t, p) > s.budget_us
                                       /\ v = Violation("ERROR", "LAT001", s.id, NoName, NoName, DelayUs(t, p))
    BY <1>2, LAT001Finds
  <2>2. PICK p \in AllPaths(t, s) : /\ Coherent(t, p) /\ DelayUs(t, p) > s.budget_us
                                    /\ v = Violation("ERROR", "LAT001", s.id, NoName, NoName, DelayUs(t, p))
    BY <2>1
  <2>3. p \in AllPaths(u, s) /\ s \in Streams(u)
    BY WaysStay
  <2>4. TimedPorts(u, p) = TimedPorts(t, p)
    <3>1. \A h : Relevant(u, h) = Relevant(t, h) /\ Known(u, h) = Known(t, h)
      BY DEF Relevant, IsEcu, Known, AddsLinks
    <3>2. FirstPorts(u, p) = FirstPorts(t, p)
      BY <3>1 DEF FirstPorts
    <3> QED
      BY <3>1, <3>2 DEF TimedPorts
  <2>5. Coherent(u, p) /\ DelayUs(u, p) = DelayUs(t, p)
    BY <2>2, <2>4 DEF Coherent, DelayUs, DelayNs, AddsLinks
  <2> QED
    BY <2>1, <2>2, <2>3, <2>5, LAT001Finds
<1> QED
  BY <1>1, <1>2

(* Rules that do not look at links.                                        *)
LEMMA OtherErrorsStay ==
    ASSUME NEW t, NEW u, AddsLinks(t, u), NEW v, v.severity = "ERROR"
    PROVE  /\ v \in SD001(t) => v \in SD001(u)
           /\ v \in ORPH001(t) => v \in ORPH001(u)
           /\ v \notin VLAN002(t) /\ v \notin VLAN003(t) /\ v \notin TOPO001(t) /\ v \notin TOPO002(t)
<1>1. v \in SD001(t) => v \in SD001(u)
  BY DEF SD001, AddsLinks
<1>2. ASSUME v \in ORPH001(t) PROVE v \in ORPH001(u)
  <2>1. PICK s \in Streams(t) :
         \E n \in ({s.src} \cup s.dsts) \ DOMAIN t.type :
          v = Violation("ERROR", "ORPH001", s.id, NoName, NoName, n)
    BY <1>2 DEF ORPH001, Violation
  <2>2. s \in Streams(u) /\ u.type = t.type
    BY DEF AddsLinks, Streams
  <2> QED
    BY <2>1, <2>2 DEF ORPH001
<1>3. v \notin VLAN002(t) /\ v \notin VLAN003(t)
  BY DEF VLAN002, VLAN003, AtPort, Violation
<1>4. v \notin TOPO001(t) /\ v \notin TOPO002(t)
  BY DEF TOPO001, TOPO002, Violation
<1> QED
  BY <1>1, <1>2, <1>3, <1>4

(* BW001: where ids are unique, a port's load can only grow.               *)
LEMMA LoadErrorsStay ==
    ASSUME NEW t, NEW u, IsTopology(t), IsTopology(u), AddsLinks(t, u),
           \A i, j \in 1..Len(t.streams) : t.streams[i].id = t.streams[j].id => i = j,
           NEW v \in BW001(t)
    PROVE  Kept(v, BW001(u))
<1>1. PICK h \in DOMAIN t.port :
        /\ Named(h) /\ IsSwitch(t, h.node) /\ PortBandwidth(t, h) > PortLimit(t.port[h])
        /\ v = Violation("ERROR", "BW001", NoName, h.node, h.port, PortBandwidth(t, h))
  BY DEF BW001
<1> DEFINE C == Counted(t, h)
           D == Counted(u, h)
<1>2. /\ u.streams = t.streams
      /\ Len(t.streams) \in Nat
      /\ u.port = t.port
      /\ u.type = t.type
  BY DEF AddsLinks, IsTopology
<1>3. /\ C = {i \in ClassA(t) : Uses(t, i, h)}
      /\ D = {i \in ClassA(u) : Uses(u, i, h)}
  BY <1>2, UniqueCounted
<1>4. C \subseteq D
  <2>1. ClassA(u) = ClassA(t) /\ \A i \in ClassA(t) : t.streams[i] \in Streams(t)
    BY <1>2 DEF ClassA, Streams
  <2>2. \A i \in ClassA(t) : Uses(t, i, h) => Uses(u, i, h)
    BY <1>2, <2>1, WaysStay DEF Uses
  <2> HIDE DEF C, D
  <2> QED
    BY <1>3, <2>1, <2>2
<1>5. Kbps(u) = Kbps(t)
  BY <1>2 DEF Kbps
<1>6. IsFiniteSet(D) /\ \A i \in D : Kbps(t)[i] \in Nat
  <2>1. D \subseteq 1..Len(t.streams)
    BY <1>2 DEF Counted, ClassA
  <2> HIDE DEF D
  <2> QED
    BY <2>1, KbpsType, FS_Subset
<1>7. /\ Total(Kbps(t), C) <= Total(Kbps(t), D)
      /\ Total(Kbps(t), C) \in Nat /\ Total(Kbps(t), D) \in Nat
  <2> HIDE DEF C, D
  <2> QED
    BY <1>4, <1>6, TotalMonotonic, TotalType
<1>8. /\ PortBandwidth(t, h) = Total(Kbps(t), C)
      /\ PortBandwidth(u, h) = Total(Kbps(t), D)
  BY <1>5, ReservedIs DEF PortBandwidth
<1>9. PortLimit(t.port[h]) \in Int
  <2>1. /\ t.port[h].rate \in Nat
        /\ Config.limit.num \in Nat
        /\ Config.limit.den \in Nat \ {0}
    BY ConfigType DEF IsTopology, IsPort
  <2> QED
    BY <2>1 DEF PortLimit
<1>10. PortBandwidth(u, h) > PortLimit(u.port[h])
  <2> HIDE DEF C, D
  <2> QED
    BY <1>1, <1>2, <1>7, <1>8, <1>9
<1>11. Violation("ERROR", "BW001", NoName, h.node, h.port, PortBandwidth(u, h)) \in BW001(u)
  BY <1>1, <1>2, <1>10 DEF BW001, IsSwitch
<1> QED
  BY <1>1, <1>11 DEF Kept, KeyFields, Violation

(* No rule loses an error to a new link.                                   *)
LEMMA ErrorsStay ==
    ASSUME NEW t, NEW u, IsTopology(t), IsTopology(u), AddsLinks(t, u),
           \A i, j \in 1..Len(t.streams) : t.streams[i].id = t.streams[j].id => i = j,
           NEW r \in Registered, NEW v \in Check(r, t), v.severity = "ERROR"
    PROVE  Kept(v, Check(r, u))
<1>1. CASE r \in {"VLAN001", "MC001", "FW001", "TSN001", "TSN002"}
  BY <1>1, CheckIs, PortErrorsStay, KeptItself
<1>2. CASE r \in {"SEC001", "LAT001"}
  BY <1>2, CheckIs, PathErrorsStay, KeptItself
<1>3. CASE r = "BW001"
  BY <1>3, CheckIs, LoadErrorsStay
<1>4. CASE r \in {"SD001", "ORPH001", "VLAN002", "VLAN003", "TOPO001", "TOPO002"}
  BY <1>4, CheckIs, OtherErrorsStay, KeptItself
<1> QED
  BY <1>1, <1>2, <1>3, <1>4, RegistryType

(* If all the second file of --diff does is declare more links, every      *)
(* error of the first is there again, in the same place: --diff can call   *)
(* none of them FIXED.  Stream ids are unique.                             *)
THEOREM NothingFixed ==
    ASSUME EditsAddLinks
    PROVE  Spec => []LinksFixNoError
<1>1. Progress => LinksFixNoError
  <2> SUFFICES ASSUME Progress, status = "done", file = 2, UniqueIds, NEW v \in Errors(baseline)
               PROVE  \E w \in Errors(violations) : KeyFields(w) = KeyFields(v)
    BY DEF LinksFixNoError
  <2>1. PICK t \in Topologies :
         topo \in Edits(t) /\ baseline = Verdict(t, Len(Plan))
    BY DEF Progress
  <2>2. IsTopology(t) /\ IsTopology(topo) /\ AddsLinks(t, topo)
    BY <2>1, EditsAddLinks, TopologiesType DEF EditsAddLinks
  <2>3. Ran = Len(Plan) /\ Len(Plan) \in Nat
    BY PlanType, LenProperties DEF Progress, Ran
  <2>4. PICK i \in 1..Len(Plan) : v \in Check(Plan[i], t)
    BY <2>1 DEF Errors, Verdict
  <2>5. Plan[i] \in Registered /\ v.severity = "ERROR"
    BY <2>3, <2>4 DEF Progress, Errors
  <2>6. \A j, k \in 1..Len(t.streams) : t.streams[j].id = t.streams[k].id => j = k
    BY <2>2 DEF UniqueIds, AddsLinks
  <2>7. Kept(v, Check(Plan[i], topo))
    BY <2>2, <2>4, <2>5, <2>6, ErrorsStay
  <2>8. Check(Plan[i], topo) \subseteq violations
    BY <2>3, <2>4 DEF Progress, Verdict
  <2> QED
    BY <2>7, <2>8 DEF Kept, Errors
<1> QED
  BY <1>1, AlwaysProgress, PTL
=============================================================================
