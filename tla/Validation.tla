------------------------------ MODULE Validation ------------------------------
(***************************************************************************)
(* run_validation (src/cli/main.cpp) of one file, step by step: the file   *)
(* is loaded (Loader), then the rules that keep state while they loop are  *)
(* run one after the other over what was loaded, as --rules asks for them. *)
(* It is shown to implement RuleEngine, where the same rules are sets      *)
(* defined at one stroke over what the file declares: no pointers, keys,   *)
(* loops or machine words.                                                 *)
(***************************************************************************)
EXTENDS BandwidthLoop, LatencyLoop, ServiceLoop

VARIABLE reported          \* every rule has been run

rules == <<todo, returned, violations, walk, bandwidth, latency, services, reported>>
vars  == <<loader, rules>>

(* --rules BW001,SD001,LAT001                                              *)
Asked == <<"BW001", "SD001", "LAT001">>

(* The local variables of a check() that has just been called.             *)
Fresh == /\ violations = {}
         /\ at = 0
         /\ paths = {}
         /\ path = <<>>
         /\ hop = 0
         /\ port_bandwidth = <<>>
         /\ counted = {}
         /\ checked = {}
         /\ total_delay_ns = 0
         /\ path_coherent = TRUE
         /\ counted_switches = {}
         /\ service_instance_map = <<>>
         /\ ecu_port_map = {}

(* The same once the next rule is called.                                  *)
CallNext == /\ violations' = {}
            /\ at' = 0
            /\ paths' = {}
            /\ path' = <<>>
            /\ hop' = 0
            /\ port_bandwidth' = <<>>
            /\ counted' = {}
            /\ checked' = {}
            /\ total_delay_ns' = 0
            /\ path_coherent' = TRUE
            /\ counted_switches' = {}
            /\ service_instance_map' = <<>>
            /\ ecu_port_map' = {}

Init == /\ LoadInit
        /\ Fresh
        /\ todo = Asked
        /\ returned = {}
        /\ reported = FALSE

Load == LoadStep /\ UNCHANGED rules

CheckBandwidth == BandwidthStep /\ UNCHANGED <<loader, todo, returned, latency, services, reported>>
CheckServices  == ServiceStep /\ UNCHANGED <<loader, todo, returned, bandwidth, latency, reported>>
CheckLatency   == LatencyStep /\ UNCHANGED <<loader, todo, returned, bandwidth, services, reported>>

Return == /\ BandwidthDone \/ ServiceDone \/ LatencyDone
          /\ returned' = returned \cup violations
          /\ todo' = Tail(todo)
          /\ CallNext
          /\ UNCHANGED <<loader, reported>>

Report == /\ stage = "loaded"
          /\ todo = <<>>
          /\ reported' = TRUE
          /\ UNCHANGED <<loader, todo, returned, violations, walk, bandwidth, latency, services>>

Ended == (stage = "threw" \/ reported) /\ UNCHANGED vars

Work == Load \/ CheckBandwidth \/ CheckServices \/ CheckLatency \/ Return \/ Report
Next == Work \/ Ended

(* One thread runs the program, and nothing it calls blocks.               *)
Spec == Init /\ [][Next]_vars /\ WF_vars(Work)

-----------------------------------------------------------------------------
(* The variables have their types: what an index holds are positions in    *)
(* the vectors, what a sum holds fits the word.                            *)
TypeOK ==
    /\ file \in DOMAIN Documents
    /\ stage \in {"read", "nodes", "domains", "loaded", "threw"}
    /\ IsSuffix(unread, Sections)
    /\ DOMAIN parsed = Vectors
    /\ Range(node_index) \subseteq DOMAIN parsed.nodes
    /\ \A k \in DOMAIN port_index :
         /\ port_index[k].node \in DOMAIN parsed.nodes
         /\ port_index[k].port \in DOMAIN parsed.nodes[port_index[k].node].ports
    /\ IsSuffix(todo, Asked)
    /\ hop \in 0..(Len(path) + 1)
    /\ Range(path) \subseteq Hop
    /\ checked \subseteq DOMAIN port_bandwidth
    /\ total_delay_ns \in 0..(Config.word - 1)
    /\ reported => stage = "loaded"

(* Every node and every port of a file that is loaded answers to its own   *)
(* name, whatever the names are: no later one has taken its place in an    *)
(* index.                                                                  *)
NothingShadowed ==
    stage = "loaded" =>
      \A i \in DOMAIN parsed.nodes :
        LET n == parsed.nodes[i] IN
          /\ node_index[n.id] = i
          /\ \A j \in DOMAIN n.ports : port_index[Key(n.id, n.ports[j].id)] = [node |-> i, port |-> j]

(* A file is loaded when it is legal and only then; and what the rules     *)
(* find through joined keys and pointers is what it declares, as long as   *)
(* the separator is part of no node's name.                                *)
LookupsFindDeclared ==
    /\ stage = "loaded" => file \in Legal
    /\ stage = "loaded" /\ file \in PlainNodes => PlainLookups(Indexed) = Declared[file]
    /\ stage = "threw" => file \notin PlainNodes

(* What has been indexed is pointed at: from then on the vector of nodes   *)
(* does not change any more.                                               *)
PointersStay == [][node_index # <<>> => UNCHANGED parsed.nodes]_vars

(* LAT001 is not to be relied on with a negative propagation delay, whose  *)
(* sums wrap; but it errs on one side.  Of every path whose switches       *)
(* really take longer than the budget there is a report that says how long *)
(* it takes, however the sum has wrapped on the way, if all of its ports   *)
(* are named and declared and those of switches can be timed.  (The        *)
(* reference adds up exact numbers, switch by switch; one that does not    *)
(* fit the word is out of reach of any network.  Two paths of a stream     *)
(* that take as long are one report here: what tells them apart in the     *)
(* message is left out.)                                                   *)
Timeable(p) ==
    \A h \in PathHops(p) : /\ Named(h)
                           /\ HasPort(h)
                           /\ TypeFound(h.node) = {"ECU"} \/ Timed(PortOf(h))

VisitedBy(p) == {h.node : h \in PathHops(p)} \ {n \in Nodes : TypeFound(n) = {"ECU"}}

(* Where a path meets a node first.                                        *)
FirstHop(p, n) ==
    Hops(p)[CHOOSE k \in 1..Len(Hops(p)) :
              Hops(p)[k].node = n /\ \A j \in 1..(k - 1) : Hops(p)[j].node # n]

DelayAt(h) == LET c == CHOOSE x \in PortOf(h).cbs_a : TRUE
              IN  Config.frame_ns_kbps \div c.idle + Config.prop_delay_ns

Delays(p) == [n \in VisitedBy(p) |-> DelayAt(FirstHop(p, n))]

ExactDelay(p) == LET delay == Delays(p) IN MapThenSumSet(LAMBDA n : delay[n], VisitedBy(p))

TooLate(s, p) ==
    ExactDelay(p) \in ((s.budget_us + 1) * Config.ns_per_us)..(Config.word - 1)

Lateness(s, p) ==
    Violation("ERROR", "LAT001", s.id, NoName, NoName, ExactDelay(p) \div Config.ns_per_us)

LateIsReported ==
    reported =>
      \A s \in WithBudget : \A p \in AllPaths(Indexed, s) :
        Timeable(p) /\ TooLate(s, p) => Lateness(s, p) \in returned

-----------------------------------------------------------------------------
(* The refinement.  A file whose names do not keep the joined keys apart   *)
(* (LookupsFindDeclared), or that is not loaded, maps to a run that has    *)
(* not begun.                                                              *)
PlainNames(f) ==
    /\ \A s \in Range(Declared[f].streams) : Plain(s.id)
    /\ \A l \in Range(Declared[f].links) : Plain(l.src.node) /\ Plain(l.dst.node)

Comparable == {f \in PlainNodes : PlainNames(f)}

NoTopology == [links |-> <<>>, streams |-> <<>>, type |-> <<>>, port |-> <<>>, domain |-> <<>>,
               groups |-> {}, services |-> <<>>]

Meaning  == Tabulated([f \in DOMAIN Documents |-> IF f \in Comparable THEN Declared[f] ELSE NoTopology])
Meanings == Range(Meaning)

Unedited(topo) == {topo}

Engine == INSTANCE RuleEngine
            WITH Topologies   <- Meanings,
                 Edits        <- Unedited,
                 Filters      <- {Asked},
                 topo         <- Meaning[file],
                 file         <- 1,
                 diff_mode    <- FALSE,
                 rules_filter <- Asked,
                 todo         <- IF file \in Comparable THEN todo ELSE Asked,
                 violations   <- IF file \in Comparable THEN returned ELSE {},
                 baseline     <- {},
                 status       <- IF file \in Comparable /\ reported THEN "done" ELSE "running"

(* Turn by turn, the rules return what RuleEngine says they do.            *)
RefinesRuleEngine == Engine!Spec

(* Every file is rejected or its rules are run to the end, whatever it     *)
(* holds and whichever way the loops go.                                   *)
ValidationEnds == <>(stage = "threw" \/ reported)

(* yaml_parser.cpp:3: "Fails fast on schema violations via descriptive     *)
(* exceptions".  README.md:197 has the destinations of a stream in a list; *)
(* a file is not loaded if they are written as anything else.              *)
FailsFast ==
    stage = "loaded" =>
      \A s \in Range(Items(Documents[file], "streams")) : Field(s, "dst").kind \in {"undefined", "null", "list"}
=============================================================================
