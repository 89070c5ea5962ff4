# switchlint in TLA+

Switchlint reads a description of an automotive Ethernet network (YAML) and
checks it: 14 rules about VLANs, firewalls, shapers, bandwidth, latency,
redundancy and domains look at every path a stream can take and return
violations, which the command line program filters, reports and turns into an
exit code for CI. This directory models that program in TLA+: the loading of a
file, the path search the rules rest on, the rules, the engine that runs them,
the reporters, and the program as a whole. TLC checks small instances; TLAPS
proves for every network, configuration, file and command line all safety
properties of the path search, of the rules together, of loading and of the
program. That the loops of three rules implement the rules is model-checked.

## 1. The system

| Component | Source | State it keeps | Operations | How it interacts |
|---|---|---|---|---|
| Data model, index builder | `include/topology.hpp`, `src/topology/graph.cpp` | vectors of nodes, links, streams, services, domains; `node_index` and `port_index` (by `"node::port"`) hold pointers into the vector of nodes; `node_to_domain` | `build_indexes` | filled by the parser, read by every rule |
| YAML parser | `src/parser/yaml_parser.cpp` | none | `parse_yaml`, `parse_suppressions` | called by `main`; failure is an exception, or an empty list |
| Path resolver | `src/topology/path_resolver.cpp` | `visited`, `current_path`, `results`, shared by all activations of a recursion | `resolve_paths`, `resolve_stream_paths` | called by twelve rules for each stream and destination |
| 14 rules | `src/rules/*.cpp` | local to a `check`; three of them remember something while they loop: BW001 (what has been counted), SD001 (who was first), LAT001 (the sum and the switches of a path) | `check` | independent of each other; read the topology, return violations |
| Registry | `src/rules/rule_registry.cpp`, `builtin_rules.cpp` | the rules in registration order | `run_all`, `run`, `list_rules`, `explain` | called by `main`; an unknown id is an exception |
| Command line program | `src/cli/main.cpp` | options, thresholds, results, output | one pass from options to exit code in single, `--diff` or `--batch` mode | files of the working directory; its report may be an input of a later run |
| Reporters | `src/report/*.cpp` | none (SARIF: the rules seen; diff: two maps by key) | text, JSON, SARIF, diff | called by `main` with a stream or a file |
| Python wrapper, bindings | `switchlint_ci.py`, `bindings/` | none | start the program; expose the API | |
| Tests, build | `tests/`, `CMakeLists.txt`, `.github/` | | | read for what they expect |

The program has one thread. What is hard about it is not interleaving but
recursion over shared state, loops that remember something from one turn to
the next, pointers into a vector that must not move, names joined into keys,
fourteen rules that each rely on another to report what they pass over,
exceptions that are caught in some modes only, and files that one invocation
writes and another reads.

What makes each part correct:

* *Loader*: a file is rejected or loaded as a whole; what the rules look up
  through pointers and keys is what the file declares.
* *Path resolver*: it ends on every graph, returns simple paths only, misses
  none, returns a path once per way of taking it, in file order, and leaves
  the shared references as it found them.
* *Rules*: nothing falls between two rules; a report without warnings and
  errors is worth something to each stream; a new link hides nothing; what a
  loop remembers does not change the result.
* *Engine, diff*: the verdict of a run is that of all its rules on one file;
  a diff does not lose what is new.
* *Program, reporters*: exit code, report and files tell one story, in every
  mode and format and after every failure, and a report tells all of it.

## 2. Modules

| Module | Models | State and actions |
|---|---|---|
| `Topology` | links, hops and the reference definition of a simple path (`SimplePaths`) and of a way to take it (`Routes`) | none; parameters `Nodes`, `Ports` |
| `PathSearch` | the promise of `path_resolver.hpp:22-26` | `found`, `finished`; `Report`, `Complete` |
| `PathResolver` | `resolve_paths` and `dfs` | the call stack (`current` and the loop index of every activation), `visited`, `current_path`, `results`; `Hit` (target reached), `Visit`, `SkipLink` (both `continue`s), `Descend` (two pushes and the call), `ExitLoop` (erase), `Return` (two pops and the next link), `Finish` |
| `TopologyProofs` | lemmas about crossings, hops, simple paths and routes | |
| `PathResolverProofs` | theorems about `PathResolver` | |
| `Yaml` | yaml-cpp as the parser uses it: looking up a key, iterating, `as<T>` with a default, a failure or (for `IP4`) the parser's own conversion | none. A conversion is the set of values it may give, empty when it throws |
| `Loader` | `parse_yaml` and `build_indexes` | the vectors, the three indexes, `stage`, `unread` (sections to come), `next`; `ReadSection`, `ReadThrows`, `BuildIndexes`, `IndexNode`, `IndexThrows` (duplicates), `NodesIndexed`, `IndexDomain`, `Loaded` |
| `StreamWalk` | the nested loops over streams, paths and hops that the rules share, over the loaded topology | `at`, `paths`, `path`, `hop`, `violations`, `todo`, `returned` |
| `BandwidthLoop`, `LatencyLoop`, `ServiceLoop` | `check` of BW001, LAT001 and SD001 turn by turn | `port_bandwidth`, `counted`, `checked`; `total_delay_ns`, `path_coherent`, `counted_switches`; `service_instance_map`, `ecu_port_map` |
| `Validation` | `run_validation` of one file: `Loader`, then those three rules one after the other | `Load`, `CheckBandwidth`, `CheckServices`, `CheckLatency`, `Return`, `Report`; refines `RuleEngine` |
| `ValidationProofs` | theorems about `Validation` | |
| `Rules` | the 14 `check` functions as sets of violations | none; thresholds are `Config` |
| `RuleEngine` | registry and `run_validation`, for one file or the two of `--diff` | `topo`, `todo`, `violations`, `baseline`, `status`; `RunRule`, `UnknownRule`, `NextFile`, `Report` |
| `RuleEngineProofs` | theorems about `RuleEngine` | |
| `RuleClaims` | what texts in the repository say of the rules and the rules do not do | |
| `Reporters`, `DiffReporter` | the documents the four reporters make of violations, and (for the properties) what a reader makes of them | none |
| `Cli` | `main`, one invocation after another over one directory | `disk`, `before` (the disk when the run began), `args`, `phase`, `thresholds`, `pending`, `results`, `violations`, `out`, `status`; one action per phase and per way of failing in it: `ParseArgs`, `Configure`, `Validate`, `ValidateThrows`, `Suppress`, `Report`, `ReportFails` (output cannot be opened), `ReportThrows` (the document cannot be made), `Finish`; `Invoke` is the user |
| `CliProofs`, `ReportersProofs` | theorems about `Cli`, and the lemmas about `Reporters` they rest on | |
| `Sums`, `Flattening` | lemmas about the operators `MapThenSumSet` and `FlattenSeq` of the community modules | |
| `MC*` | instances for TLC | |

How they fit. `Cli` leaves out what a topology holds and keeps what each rule
finds in it; `RuleEngine` has the rules and leaves out how a file becomes a
topology and how a rule goes about its work; `Validation` has both and is shown
to implement `RuleEngine`. `Rules` and the loops use `SimplePaths` where the
code calls `resolve_stream_paths`, and `Routes` where it counts the results;
that the resolver returns them is what `PathResolver` shows.

Definitions whose comment begins with *The bug* are not part of the model: each
is the definition after it with a mistake the code could plausibly contain. In
its place, it makes the property listed with it in `PROJECT.json` fail, which
shows that the property says something about that code.

### Abstractions

* Names are model values or short strings, IP addresses and VLANs small
  numbers. In `Loader` names are strings, because it joins them. Two PathHops
  are pushed and popped together and form one crossing; `Hops` gives the flat
  vector back where a rule iterates over it.
* In `Rules` a rule returns a set: the order and the repetition of violations
  are left out there, and so `RefinesRuleEngine` compares sets and says nothing
  of the order in which a rule reports. `StreamWalk` likewise has a set of
  paths: one that the resolver returns twice, or for two entries of a list of
  destinations, is walked once. `Cli` has violations as vectors, in the order
  of the plan. A message is reduced to what it is about (`what`).
* A domain whose id is empty is none, as in SEC001 (`HasDomain`).
* How one field of a file is converted (`Reading` in `Loader`) is written down
  once, for the parser and for what `LookupsFindDeclared` compares it with: the
  property is about what becomes of the values, not about the conversion.
* A YAML scalar is the set of texts, numbers and flags it can be read as; the
  value of a conversion that throws is the empty set. The largest value of
  each integer type is `Largest`; a number beyond it throws, as yaml-cpp does.
* LAT001 adds in an unsigned word (`Config.word`); a signed propagation delay
  wraps in it. `Rules` has the same arithmetic, at one stroke.
* `utilization_limit` is a fraction and its product with the line rate is
  truncated, as the cast does; rounding of the double is left out, and so is a
  negative limit, whose conversion is undefined. `max_hops` fits an int.
* A file in `Cli` is one of: a topology, an empty file, a report, an ignore
  list, an ignore list with fields of other types, malformed, absent. Whether
  a text report happens to be YAML is left open (`yaml`), since it depends on
  its first lines. A list read as a topology is an empty one, as in the
  parser. A file that has been opened can be written.
* What is printed on stderr, line numbers of the source and the wording,
  colours and layout of reports are left out.
* `StrictUnicastFw` is a parameter of `Rules`; the instances have it FALSE,
  the default of the program.

## 3. Runs

Every passing run is complete: TLC visits all states of the instance.

| Run | Instance | What it shows |
|---|---|---|
| `resolver` | all lists of up to 3 links among 3 one-port nodes, of up to 2 links between 2 nodes of 2 ports each, and all 64 subgraphs of the complete graph of 4 nodes, with every source and destination (about 155 000 states) | stacks and calls match (`StackDiscipline`, `NoReentry`), only simple paths (`Soundness`), none is ever lost (`NothingLost`, `Completeness`), one result per route (`CountsRoutes`), in file order (`InLinkOrder`), it ends (`Termination`) and keeps its promise (`RefinesPathSearch`) |
| `rules` | two ECUs and two switches: 4 wirings, 4 sets of streams, each in order and with each of 63 defects; all lists of up to 3 services over 2 ids, 2 ECUs and 2 ports; `--rules` filters, one with an unknown rule; then the same with one more link (about 167 000 states) | the rules together, below |
| `validation` | 1881 files: one with every field once; the same with each field left out or replaced by each kind of value, at every depth (1029); lists of nodes with equal, empty, null and separator-bearing names (456) and of domains (40); streams over parallel, undeclared and nameless ports (200); lists of services (156) (about 40 000 states) | loading and the loops, below |
| `cli_runs` | two topology files, a report file, an output path that cannot be opened, a file whose name is no UTF-8, the ignore file as input and output, 3 rules, findings of every severity, one with a name that is no UTF-8; 56 command lines in any order (about 432 000 states) | the program, below |

*Rules together.* `NoSilentLatencyGap`: whenever LAT001 gives a path up
without a message, TSN001 has reported an error for that stream.
`CleanMeansCarried`: after a run without warnings and errors every destination
is reachable, every switch on every path is configured for the stream's group,
and the ports it enters and leaves the switch by, where they are declared, are
members of its VLAN, have a firewall entry that permits this stream or this
group, and a shaper of its class. (No rule looks at an undeclared port, and
none at deny entries.) `CleanMeansWithinLimit`: no declared switch port is
promised more class-A bandwidth than the limit, if stream ids are unique.
`CrossDomainProtected`: every way a cross-domain stream can take, through
nodes that have a domain with a name, crosses a link with MACsec at both ends;
the instance has files in which a switch without a domain, or with an empty
one, hides the boundary. `CleanMeansCollisionFree`: SD001 compares with the
first provider of an id only, and that suffices. `LinksFixNoError`: adding a
link removes no error key, again if stream ids are unique; without that
condition it is false, because BW001 counts the first stream of an id that
uses a port and a new link may put a smaller one first. None of these is
vacuous: the instance has clean runs with streams of every kind, and a defect
for each way to break them.

*Loading and the loops.* `NothingShadowed`: in a file that is loaded every
node and port answers to its own name, whatever the names are; joined keys
that meet make the file a duplicate instead. `LookupsFindDeclared`: a file is
loaded only if all its fields can be read and no id is there twice, and what
the rules find through keys and pointers is what it declares, if no node's
name holds the separator. (If one does, a legal file may be rejected, and a
lookup of an undeclared port may find another's.) `PointersStay`: once the
indexes hold a pointer the vector of nodes does not change. `LateIsReported`:
for each path whose switches really take longer than the budget LAT001 reports
a violation with the true delay of that path, also when the sum has wrapped on
the way with a negative propagation delay, if all ports of the path are named
and declared, those of its switches have a shaper with a slope, and the true
delay fits the word (2^64 ns are 584 years); the converse is false, a wrapped
sum is reported too. `RefinesRuleEngine`: turn by turn the three loops return
what `RuleEngine` says at one stroke. The map takes a file to what it declares
and `returned` to `violations`; a rule's last turn is `RunRule`, loading and
all other turns stutter. Files whose names hold the separator map to a run
that has not begun, since `BW001` cuts the joined key at its first `::`.
`ValidationEnds`: every file is rejected or its rules run to the end.

*The program.* `ZeroMeansExcused`: exit code 0 of a plain run means that
every finding that counts is named by an entry of the ignore file.
`FailureLeavesNothing`: a run that ends with 2 or by an uncaught exception has
printed nothing and changed no file, with one exception: a JSON, SARIF or
batch document that cannot be made because a name is no UTF-8 leaves the
output file empty.
`ReportAgrees`: the exit code is 1 exactly when the document that was written
shows something that counts, wherever it was written, over an input file
included. `ReportTellsAll`: the document has, in order, all that was found and
not suppressed; a JSON report can be read back to the last field, and a SARIF
log has each rule once however often `--rules` names it.
`BatchAccountsForAll`: a batch exits 0 only if every file could be read and
has no error, and has one entry for each in order. `DiffZeroMeansNoNewPlace`: a
diff that exits 0 found no error in a place where the first file had nothing.
(A warning that becomes an error has the same key and is no new violation;
README.md:138 may be read otherwise.) `RunsEnd`: every invocation ends.

Why the bounds are enough. A mistake in the handling of the shared path or of
`visited` shows when an activation returns and its caller goes on, which takes
a branch and a dead end (3 nodes), and when two branches meet again (4 nodes).
Two parallel links show what duplicates do. The rules look at one stream, one
path and one port at a time, except BW001, SD001 and the diff, which need two
streams, three services and two files. The parser reads every field apart from
the others, so one changed field at a time reaches each of its failures. The
largest integers are 3, 7 and 40 and the word holds 256 values, so that
numbers beyond each type occur and sums wrap; thresholds are scaled so that two
streams on one port exceed the limit, a path of two switches is too long and
one slow shaper breaks a budget. In `Cli` two files and three rules separate
first from second, and a third file is output of one run and input of another;
`Tidied` puts reports away when there are two of them, which keeps the state
space finite. `MCLinkLists`, `MCTopologies`, `MCEdits`, `MCDocuments`,
`MCDisks`, `MCCommandLines` and `Tidied` are all the bounds there are: no guard
of a module counts.

### Fairness

`PathResolver!FairSpec` has weak fairness of `Next`, `Validation!Spec` of
`Work` and `Cli!Spec` of `Main`: the program is one thread that never waits for
anything, so a step it can take is taken. Nothing is assumed of the user
(`Invoke`). The other specifications state safety only.

### Where texts and code disagree

Eight runs check one statement each that the repository makes and the code
does not keep. Each is listed under `findings` with both lines.

| Run | Statement | What the code does |
|---|---|---|
| `claim_spof` | TOPO001 finds single points of failure | counts paths; two paths may share a link |
| `claim_hops` | every switch on a path appears twice | one that is an end of the path appears once and is rounded away |
| `claim_fails_fast` | the parser fails fast on schema violations (`yaml_parser.cpp:3`) | a destination written as a scalar is no destination (`yaml_parser.cpp:171`) |
| `claim_baseline` | a JSON report is a baseline for `--diff` | it is parsed as a topology without content |
| `claim_fatal` | exit code 2 for a file that cannot be parsed | 1 in a batch, an uncaught exception in a diff |
| `claim_warn` | `--fail-on-warn` makes warnings fail | in single mode only |
| `claim_ignore` | invalid ignore files are ignored (`yaml_parser.cpp:235`): a run that comes to look at one goes on to its report | a field of another type ends the program there |
| `claim_report_written` | `--output` writes the report to a file (`main.cpp:7`) | a batch does not look whether it could be opened (`main.cpp:239`) |

Further limits of the rules appear as preconditions of the passing properties:
unique stream ids (BW001 counts by id, `bandwidth_oversubscription.cpp:60`),
declared ports (no rule reports a link to an undeclared port), domains with a
non-empty id for all nodes (SEC001 does not see a boundary across a node
without one). VLAN001
leaves out ECU ports, although README.md:62 speaks of every port.

## 4. Proofs

The proofs hold for every value of the constants that meets the assumptions.
TLC evaluates each assumption on the instance of every run that uses it.

| Assumption | Module | Why the code justifies it |
|---|---|---|
| `NodesFinite`, `LinkListsType` | `Topology`, `Rules`, `PathResolver` | a file mentions finitely many nodes; links are read into a vector of `Link` |
| `ConfigType` | `Rules` | the members of `ThresholdsConfig` and their types, `limit` not negative |
| `TopologiesType`, `FiltersType` | `RuleEngine` | unsigned members are naturals, a port is indexed with the node that declares it, `--rules` is split into strings. That the parser makes such topologies only is `ParserMakesTopologies` (`MCValidation`), which TLC evaluates on all its files |
| `DocumentsType`, `LargestType` | `Loader` | yaml-cpp numbers the items of a list; the largest value of an integer type is a natural |
| `ReadOneWay` | `Loader` | a conversion is a function: what it gives is one value, or an exception |
| `KeysTellApart` | `Loader` | a fact about text: if neither of two names holds `::` (or ends in `:`), the first `::` in a joined key is the one that was put there. The prover has strings without characters |
| `MulticastType` | `Yaml` | a range of addresses |
| `NamesType` | `StreamWalk` | none of the program: `Nodes` and `LinkLists`, the parameters of `Rules`, cover what the files mention |
| `FilesHaveNames`, `RegistryIsList`, `CommandLinesType`, `DisksType` | `Cli` | a path that is opened is no empty string; the registry is a vector; CLI11 converts the options; what is on disk is one of the kinds of file |

### Path search

| Theorem of `PathResolverProofs` | States |
|---|---|
| `TypeCorrect` | `Spec => []TypeOK` |
| `Disciplined`, `NeverReenters` | `Spec => [](StackDiscipline /\ NoReentry)` |
| `Sound` | `Spec => []Soundness` |
| `NeverLost` | `Spec => []NothingLost` |
| `Complete` | `Spec => []Completeness` |
| `InOrder` | `Spec => []InLinkOrder` |
| `CountsEach` | `Spec => []CountsRoutes` |
| `Implements` | `Spec => RefinesPathSearch` |

The inductive invariant is `Discipline /\ Soundness /\ Logged`. `Soundness`
needs that `current_path` is a simple walk from the source to the innermost
activation when `Hit` records it: that is `StackDiscipline` (the path is the
list of choices the frames on the stack have made) with `NoReentry` (no two
frames have one node, because `visited` is exactly the set of nodes whose loops
run, and `Descend` looks at it); both are in `Discipline`, which is inductive by
itself. What is not lost, how often and in which order it comes is said at once
by `Logged`: there is a log of routes (a route is a sequence of link positions),
one for each result, in which each route comes after those whose links come
earlier in the file, and nothing lies between the log and what the frames on
the stack have still to try. `Visit` turns "about to be entered" into "every link
untried"; `SkipLink` loses nothing because a link that leads to a visited node
continues no simple path with this prefix; `Descend` hands the routes through
its link to the callee; `Hit` takes the first of those to come and logs it;
`Return` finds the callee with nothing untried. Therefore every simple path is in
`results` or ahead of some activation (`NothingLost`), with an empty stack nothing
is ahead (`Completeness`), no route is logged twice and every one is in the end
(`CountsRoutes`), and the log is in file order (`InLinkOrder`). `Implements` maps
`found` to the set of results and `finished` to `mode = "done"`: `Hit` is
`Report` by soundness, `Finish` is `Complete` by completeness, every other step
stutters.

### Rules

| Theorem of `RuleEngineProofs` | States |
|---|---|
| `TypeCorrect` | `Spec => []TypeOK` |
| `NoGap` | `Spec => []NoSilentLatencyGap` |
| `NoCollision` | `Spec => []CleanMeansCollisionFree` |
| `Carried` | `Spec => []CleanMeansCarried` |
| `BoundaryProtected` | `Spec => []CrossDomainProtected` |
| `LimitKept` | `Spec => []CleanMeansWithinLimit` |
| `NothingFixed` | `EditsAddLinks => (Spec => []LinksFixNoError)` |

The inductive invariant is `Progress`: `todo` is a suffix of the plan and
`violations` is the union of the checks of the rules before it, on the
topology at hand; in a diff `baseline` is the verdict on the first file. Once
nothing is left to do, a report is a full verdict (`FullVerdict`,
`CleanVerdict`), and what remains is about the rules. `NoGap`: LAT001 gives up
at a shaper that cannot be timed, `UnshapedIsDefect` and `ShaperIsChecked`
show that TSN001 looks at the same shaper for the same stream. `Carried` has
one lemma for each rule that must speak up (`VLAN001Finds` and so on);
`CleanGroups` and `CleanPasses` put them together for a switch and for a port,
where the permit entry is the one `Covered` found for this very stream.
`BoundaryProtected`: between two nodes of different domains the domain changes
somewhere on the way (`DomainChanges`, by a smallest element). `NoCollision`:
if two services collide, one of them collides with the first claimer
(`FirstClaimSuffices`). `LimitKept` compares two sums, one over streams and
one over what BW001 has counted (`DemandIsCounted`). `NothingFixed` shows rule
by rule that an error stays when links are added: ways stay (`WaysStay`), sums
over more of them are no smaller (`LoadErrorsStay`), and a rule that reports a
missing path turns it into nothing else than a warning (`NoPathWarns`).
`EditsAddLinks` says that the second file differs from the first by its links
only; `MCRuleEngine` assumes it of its instance (`LinksAreAdded`).

### Program and reporters

| Theorem of `CliProofs` | States |
|---|---|
| `TypeCorrect` | `Spec => []TypeOK` |
| `NothingLeft` | `Spec => []FailureLeavesNothing` |
| `ZeroIsExcused` | `Spec => []ZeroMeansExcused` |
| `StoriesAgree` | `Spec => []ReportAgrees` |
| `TellsAll` | `Spec => []ReportTellsAll` |
| `BatchAccounts` | `Spec => []BatchAccountsForAll` |
| `NoNewPlace` | `Spec => []DiffZeroMeansNoNewPlace` |

These are all safety properties of the program, whatever the user does between
two invocations. The invariants, in the order in which they are proved:

* `Untouched`: in every phase up to the report the directory is as the run found
  it and nothing has been printed. Each way to end with 2 or an exception leaves
  from such a phase, and only `ReportThrows` touches a file (`NothingLeft`).
* `Accounted`: `results` are the verdicts on the first inputs as the files were
  when the run began and `pending` are the others; a failure is among the results
  of a batch only. It needs `Untouched`, since `Validate` reads `disk` and the
  properties speak of `before`. With `OnlyFinish` (no other step gives 0 to a run
  that has results) it gives `NoNewPlace`.
* `Typed`: the types, and that each result is a verdict or a failure.
* `Told`: in the report phase `violations` are those of the verdict that the
  ignore file leaves (`Filtered`); at the end the document is the one the
  format asks for, and it is on stdout or in the file `--output` names
  (`InPlace`), and the exit code is that of `Rejected` on the same vector
  (`Coded`).

What a reader makes of a document is a fact about `Reporters`: `JsonReadsBack`
(a report of any vector of violations reads back to it), `SarifOrdered` (each
rule once, none without a result), `SeveritiesAddUp`. They rest on `Flattening`
(what `FlattenSeq` puts together has the members of all pieces, once if the
pieces are disjoint) and `Sums`.

### Loading and the loops

| Theorem of `ValidationProofs` | States |
|---|---|
| `NothingIsShadowed` | `Spec => []NothingShadowed` |
| `PointersValid` | `Spec => PointersStay` |
| `FindsDeclared` | `Spec => []LookupsFindDeclared` |
| `TypeCorrect` | `Spec => []TypeOK` |
| `ReportsLate` | `Spec => []LateIsReported` |

The invariants, in the order in which they are proved:

* `SectionsRead`: `unread` is an end of `Sections`, and the vectors are lists of
  what the conversions give (a port with at most one class-A shaper, a budget
  that is a natural).
* `IndexedSoFar`: the indexes are those of the nodes before `next` and of their
  ports, and an entry that is there has not moved. It is inductive over
  `IndexNode` because of the test for duplicates alone, whatever the names are;
  with all nodes indexed it is `NothingShadowed`.
* `NotIndexed`: the indexes are empty while sections are read. `OnlySections`:
  nothing else changes the vectors. Together they are `PointersStay`.
* `ReadInOrder`: the vectors hold what the sections before the next one declare,
  so that once all are read they are the declarations (`VectorsAreDeclared`).
  With `IndexedSoFar` a file that is loaded is legal (`LoadedIsLegal`).
* `DomainsSoFar`: of the domains before `next` the last that lists a node has it.
* `RejectedRightly`: a file that is rejected is not legal, or a name in it holds
  the separator. For such names only, two keys can be equal that were joined
  from different parts (`DuplicateIsDeclared`, from `KeysTellApart`). With the
  two before, each field of what the rules look up is the one that is declared
  (`TypesAreDeclared`, `PortsAreDeclared`, `DomainsAreDeclared`), which is
  `LookupsFindDeclared`.
* `Walking`, `Tallied`, `InOrder`: what the loops go through is a path of the
  topology, what they count stays in its word, and the rules are called in
  order (`TypeCorrect`).
* `Summing`: while LAT001 is on a path that can be timed, `total_delay_ns` and
  the exact sum over the switches before `hop` differ by whole words, and
  `counted_switches` are these switches.
* `Pending`: for each stream LAT001 has come to, each path is still ahead,
  under way, or settled, that is, reported with its delay if it is late.
  `Behind`: once LAT001 has returned, each late path is among what was
  returned.

The heart of `ReportsLate` is that at the end of a path a sum that is equal to
the exact one up to whole words, and lies in the word like it, is the exact one
(`WordOnce`, `ExactIs`), however often it has wrapped before. The first form of
`LateIsReported` could not be proved because it was false outside the instance:
it said nothing of a declared port without a name, of ports found through a
joined key that two names share, and of an exact delay beyond the word. It is
now about one path at a time and the report of that path, under the conditions
given in section 3.

### Induction over data

The library's induction theorems take an operator as a parameter and cannot be
used. Where a proof needs induction, it is stated for a set and follows from
the order of the natural numbers: `Inductively` and `FiniteInduction` (`Sums`)
are about the set of numbers, or of subsets of a finite set, for which a claim
holds. In this way `Sums` proves of `MapThenSumSet` what sums need (adding a
member, monotonicity) and `Flattening` what `FlattenSeq` returns.

### Checked by TLC only

* `Termination`, `ValidationEnds`, `RunsEnd`: liveness is beyond the prover.
* `RefinesRuleEngine`: by `FindsDeclared` its map takes a file to what the rules
  look up, but it needs in addition that each loop returns its set of violations:
  sums per port in BW001, the first provider of an id in SD001, and what
  `ReportsLate` has of LAT001 for paths that cannot be timed as well.

## 5. Not modelled

* Wording, colours and layout of reports, what goes to stderr, the texts of
  `list_rules` and `explain`: data without control. That they end the program
  early is in `Cli`.
* Source lines and columns of YAML nodes: carried from parser to report, and
  only read where `Reporters` has them (`line`).
* A negative `utilization_limit`, a `max_hops` beyond an int, rounding of
  doubles: no text says what they should mean; listed under `hazards`.
* Python wrapper: starts the program once and passes its exit code on.
  Bindings: declarations. Tests, build: no state of their own.

## 6. Plan

Done: path search, loader, loops, rules, engine, reporters and program are
modelled and model-checked; proved are all safety properties, and the refinement
of the path search. Left is the proof of `RefinesRuleEngine`, loop by loop:

1. `ServiceLoop`: `service_instance_map` and `ecu_port_map` are those of the
   services before `at`, and `IdKey` tells ids apart because an instance fits 16
   bits; hence SD001.
2. `LatencyLoop`: `Summing` for every path, with the shapers that are missing;
   hence LAT001.
3. `BandwidthLoop`: `port_bandwidth` is the sum over the streams counted so far,
   hence BW001; it needs that a key is cut where it was joined, as
   `KeysTellApart` does.
4. The steps: loading and all turns but a rule's last stutter, `Return` is
   `RunRule`, `Report` is `Report`.
