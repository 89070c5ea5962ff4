-------------------------------- MODULE Cli --------------------------------
(***************************************************************************)
(* The program (main of src/cli/main.cpp): one invocation after another    *)
(* over the files of a working directory, which the user edits in between. *)
(* An invocation goes through its phases in order: options, rule registry, *)
(* validation of the input files, suppressions, report, exit code.  What   *)
(* it leaves behind is its exit code, its output and the file it wrote,    *)
(* and a later invocation may read that file.                              *)
(*                                                                         *)
(* What a topology holds is left out (RuleEngine has it).  The content of  *)
(* a topology file is the vector of violations each rule finds in it,      *)
(* under the default and under custom thresholds; what the reporters make  *)
(* of violations is in Reporters and DiffReporter.                         *)
(***************************************************************************)
EXTENDS Reporters, DiffReporter

CONSTANTS Files,          \* the files a command line may name (Ignore may be one)
          Unwritable,     \* those that cannot be opened for writing
          Ignore,         \* .switchlintignore
          Registry,       \* the ids of the rules, in registration order
          Garbled,        \* names that are no UTF-8
          CommandLines,   \* the command lines tried: see CommandLine
          Disks,          \* what the directory may hold at first
          Edits(_)        \* what the user may make of it between invocations

ASSUME FilesHaveNames == NoName \notin Files

Registered == Range(Registry)

ASSUME RegistryIsList == Registry \in Seq(Registered)

CommandLine ==
    [options : {"ok", "help", "unknown"},            \* --help, an unknown option
     config  : {NoName, "custom", "unreadable", "mistyped"},
     ask     : {NoName, "list", "explain"},              \* --list-rules, --explain
     inputs  : Seq(Files),
     diff    : BOOLEAN,
     batch   : BOOLEAN,
     format  : {"text", "json", "sarif", "other"},
     output  : Files \cup {NoName},
     rules   : Seq(Registered \cup {"NOPE"}),        \* <<>> without --rules
     fail_on_warn : BOOLEAN]

ASSUME CommandLinesType == CommandLines \subseteq CommandLine

(* What a file may hold: nothing, a topology with what each rule finds in  *)
(* it, an ignore file, a report, or something that is none of these.       *)
IsFile(c) ==
    /\ c.kind \in {"absent", "empty", "malformed", "topology", "report", "ignore", "mistyped"}
    /\ c.kind = "topology" => c.finds \in [{"default", "custom"} -> [Registered -> Seq(Violation)]]

IsDirectory(d) == DOMAIN d = Files \cup {Ignore} /\ \A f \in DOMAIN d : IsFile(d[f])

ASSUME DisksType == \A d \in Disks : IsDirectory(d)

VARIABLES disk,         \* file |-> content
          before,       \* disk when the invocation began
          args,         \* its command line
          phase,        \* where it is
          thresholds,   \* the thresholds the rules were registered with
          pending,      \* input files still to be validated
          results,      \* run_validation of those that have been
          violations,   \* single mode: what is left after the suppressions
          out,          \* what has been printed on stdout
          status        \* the exit code

Phases == {"options", "configure", "validate", "suppress", "report", "exit", "exited"}

Nothing == [kind |-> "absent"]      \* no such file; also: no output
Empty   == [kind |-> "empty"]       \* a file that was opened and not written
Abort   == 134                      \* std::terminate: an exception left main

Mode == IF args.diff THEN "diff" ELSE IF args.batch THEN "batch" ELSE "single"

Inputs == IF Mode = "batch" THEN args.inputs
          ELSE SubSeq(args.inputs, 1, IF Mode = "diff" THEN 2 ELSE 1)

-----------------------------------------------------------------------------
(* What parse_yaml makes of a file.  JSON is YAML, and a report is then a  *)
(* mapping without the keys of a topology, as an empty file is, and a list *)
(* like that of an ignore file has none of them either; whether a text     *)
(* report is YAML depends on its first lines.                              *)
NoFindings == [r \in Registered |-> <<>>]

Parses(c) == \/ c.kind \in {"topology", "empty", "ignore", "mistyped"}
             \/ c.kind = "report" /\ c.yaml

Findings(c) == IF c.kind = "topology" THEN c.finds[thresholds] ELSE NoFindings

(* run_validation: all the rules, or those --rules names, one as often as  *)
(* it is named.                                                            *)
Plan == IF args.rules = <<>> THEN Registry ELSE args.rules

Fails(c) == ~Parses(c) \/ ~(Range(Plan) \subseteq Registered)

Verdict(c) == FlattenSeq([i \in DOMAIN Plan |-> Findings(c)[Plan[i]]])

(* The exception names what is wrong with a malformed file.                *)
Why(c) == IF c.kind = "malformed" THEN c.why ELSE NoName

Result(c) == IF Fails(c) THEN [failed |-> TRUE, found |-> <<>>, why |-> Why(c)]
                         ELSE [failed |-> FALSE, found |-> Verdict(c), why |-> NoName]

Errors(vs) == {v \in Range(vs) : v.severity = "ERROR"}

(* The bug: an entry silences whatever one of its two fields names.        *)
SilencesEither(s, v) == s.rule_id \in {NoName, v.rule_id} \/ s.stream_id \in {NoName, v.stream_id}

(* A suppression with neither rule nor stream silences everything.         *)
Silences(s, v) == s.rule_id \in {NoName, v.rule_id} /\ s.stream_id \in {NoName, v.stream_id}

(* parse_suppressions: a file that is missing, no YAML or no list is an    *)
(* empty list.                                                             *)
Suppressions(d) == IF d[Ignore].kind = "ignore" THEN d[Ignore].entries ELSE {}

Silenced(v, d) == \E s \in Suppressions(d) : Silences(s, v)

Unsuppressed(vs, d) == FlattenSeq([i \in DOMAIN vs |-> IF Silenced(vs[i], d) THEN <<>> ELSE <<vs[i]>>])

-----------------------------------------------------------------------------
Exit(code) == phase' = "exited" /\ status' = code
Go(p)      == phase' = p /\ status' = status

vars == <<disk, before, args, phase, thresholds, pending, results, violations, out, status>>

Init == /\ disk \in Disks
        /\ before = disk
        /\ args \in CommandLines
        /\ phase = "options"
        /\ thresholds = "default"
        /\ pending = <<>>
        /\ results = <<>>
        /\ violations = <<>>
        /\ out = Nothing
        /\ status = 0

ParseArgs == /\ phase = "options"
             /\ \/ args.options = "help"    /\ Exit(0)
                \/ args.options = "unknown" /\ Exit(2)
                \/ args.options = "ok"      /\ Go("configure")
             /\ UNCHANGED <<disk, before, args, thresholds, pending, results, violations, out>>

NoWork == args.inputs = <<>> \/ (args.diff /\ Len(args.inputs) < 2)

(* The exit code, if the program is done before it reads a topology.  A    *)
(* threshold of another type throws from register_builtin_rules, outside   *)
(* every try.                                                              *)
Early == IF args.config = "mistyped" THEN {Abort}
         ELSE IF args.ask # NoName THEN {0}
         ELSE IF NoWork THEN {2}
         ELSE {}

Thresholds == IF args.config = "custom" THEN "custom" ELSE "default"

(* The bug: the output file is opened, and emptied, before the inputs are  *)
(* read.                                                                   *)
ConfigureOpensOutput ==
    /\ phase = "configure"
    /\ thresholds' = Thresholds
    /\ pending' = IF Early = {} THEN Inputs ELSE <<>>
    /\ IF Early = {} THEN Go("validate") ELSE \E c \in Early : Exit(c)
    /\ disk' = IF Early = {} /\ args.output \in Files \ Unwritable
               THEN [disk EXCEPT ![args.output] = Empty] ELSE disk
    /\ UNCHANGED <<before, args, results, violations, out>>

(* An unreadable --config is no more than a warning.                       *)
Configure ==
    /\ phase = "configure"
    /\ thresholds' = Thresholds
    /\ pending' = IF Early = {} THEN Inputs ELSE <<>>
    /\ IF Early = {} THEN Go("validate") ELSE \E c \in Early : Exit(c)
    /\ UNCHANGED <<disk, before, args, results, violations, out>>

AfterValidation == IF Mode = "single" THEN "suppress" ELSE "report"

(* The bug: in a batch, a file that fails is tried again.                  *)
ValidateAgain ==
    /\ phase = "validate"
    /\ LET r == Result(disk[Head(pending)])
       IN  /\ r.failed => Mode = "batch"
           /\ results' = Append(results, r)
           /\ pending' = IF r.failed THEN pending ELSE Tail(pending)
    /\ Go(IF pending' = <<>> THEN AfterValidation ELSE "validate")
    /\ UNCHANGED <<disk, before, args, thresholds, violations, out>>

(* The file is read and validated; in a batch an exception is an entry of  *)
(* the report like another.                                                *)
Validate ==
    /\ phase = "validate"
    /\ LET r == Result(disk[Head(pending)])
       IN  /\ r.failed => Mode = "batch"
           /\ results' = Append(results, r)
    /\ pending' = Tail(pending)
    /\ Go(IF Tail(pending) = <<>> THEN AfterValidation ELSE "validate")
    /\ UNCHANGED <<disk, before, args, thresholds, violations, out>>

(* main catches the exception in single mode only.                         *)
ValidateThrows ==
    /\ phase = "validate"
    /\ Fails(disk[Head(pending)])
    /\ Mode # "batch"
    /\ Exit(IF Mode = "single" THEN 2 ELSE Abort)
    /\ UNCHANGED <<disk, before, args, thresholds, pending, results, violations, out>>

(* A .switchlintignore whose fields are no strings throws outside the try. *)
Suppress ==
    /\ phase = "suppress"
    /\ \/ /\ disk[Ignore].kind = "mistyped"
          /\ Exit(Abort)
          /\ violations' = violations
       \/ /\ disk[Ignore].kind # "mistyped"
          /\ Go("report")
          /\ violations' = Unsuppressed(results[1].found, disk)
    /\ UNCHANGED <<disk, before, args, thresholds, pending, results, out>>

-----------------------------------------------------------------------------
(* The bug: the two files of --diff the wrong way round.                   *)
IntroducedSwapped == NewKeys(results[2].found, results[1].found)

Introduced == NewKeys(results[1].found, results[2].found)

(* One entry of a batch report.                                            *)
BatchEntry(path, r) ==
    IF r.failed THEN [file |-> path, error |-> r.why]
    ELSE [file |-> path, errors |-> Count(r.found, "ERROR"), warnings |-> Count(r.found, "WARN")]

(* The bug: a file that cannot be read is not counted.                     *)
WithErrorsIfRead == Cardinality({k \in DOMAIN results : Count(results[k].found, "ERROR") > 0})

(* topologies_with_errors                                                  *)
WithErrors ==
    Cardinality({k \in DOMAIN results : results[k].failed \/ Count(results[k].found, "ERROR") > 0})

Format == CASE Mode = "diff"  -> "diff"
            [] Mode = "batch" -> "batch"
            [] OTHER          -> IF args.format = "other" THEN "text" ELSE args.format

Document ==
    CASE Format = "text"  -> TextReport(violations)
      [] Format = "json"  -> JsonReport(violations)
      [] Format = "sarif" -> SarifReport(violations)
      [] Format = "diff"  -> DiffReport(results[1].found, results[2].found)
      [] Format = "batch" -> [total      |-> Len(args.inputs),
                              witherrors |-> WithErrors,
                              topologies |-> [k \in DOMAIN results |-> BatchEntry(args.inputs[k], results[k])]]

Reports == {[kind |-> "report", format |-> Format, doc |-> Document, yaml |-> y] :
              y \in IF Format \in {"text", "diff"} THEN BOOLEAN ELSE {TRUE}}

Openable == args.output \in Files \ Unwritable

(* A JSON document holds nothing but UTF-8: dump throws.                   *)
Undumpable ==
    \/ Format = "json"  /\ \E v \in Range(violations) : JsonStrings(v) \cap Garbled # {}
    \/ Format = "sarif" /\ \E v \in Range(violations) : SarifStrings(v) \cap Garbled # {}
    \/ Format = "batch" /\ \E k \in DOMAIN results : {args.inputs[k], results[k].why} \cap Garbled # {}

Report ==
    /\ phase = "report"
    /\ ~Undumpable
    /\ \/ args.output = NoName /\ out' \in Reports /\ disk' = disk
       \/ Openable /\ out' = out /\ \E r \in Reports : disk' = [disk EXCEPT ![args.output] = r]
    /\ Go("exit")
    /\ UNCHANGED <<before, args, thresholds, pending, results, violations>>

(* The document is made after the output file has been opened, and         *)
(* emptied.  A batch makes it even for a file it could not open.           *)
ReportThrows ==
    /\ phase = "report"
    /\ Undumpable
    /\ args.output \notin Unwritable \/ Mode = "batch"
    /\ disk' = IF Openable THEN [disk EXCEPT ![args.output] = Empty] ELSE disk
    /\ Exit(Abort)
    /\ UNCHANGED <<before, args, thresholds, pending, results, violations, out>>

(* The bug: a batch waits until the output file can be opened.             *)
ReportWaits ==
    /\ phase = "report"
    /\ args.output \in Unwritable
    /\ ~(Mode = "batch" /\ Undumpable)
    /\ \/ Mode = "batch" /\ Go("report")
       \/ Format = "json" /\ Exit(Abort)
       \/ Mode # "batch" /\ Format # "json" /\ Exit(2)
    /\ UNCHANGED <<disk, before, args, thresholds, pending, results, violations, out>>

(* The output file cannot be opened: noticed and reported, an exception    *)
(* nobody catches, or not noticed at all, as the mode has it.              *)
ReportFails ==
    /\ phase = "report"
    /\ args.output \in Unwritable
    /\ ~(Mode = "batch" /\ Undumpable)
    /\ \/ Mode = "batch" /\ Go("exit")
       \/ Format = "json" /\ Exit(Abort)
       \/ Mode # "batch" /\ Format # "json" /\ Exit(2)
    /\ UNCHANGED <<disk, before, args, thresholds, pending, results, violations, out>>

(* The bug: the exit code is that of the run before the suppressions.      *)
RejectedBeforeSuppressions ==
    \/ Mode = "single" /\ Count(results[1].found, "ERROR") > 0
    \/ Mode = "single" /\ args.fail_on_warn /\ Count(results[1].found, "WARN") > 0
    \/ Mode = "diff" /\ Introduced # {}
    \/ Mode = "batch" /\ WithErrors > 0

Rejected ==
    \/ Mode = "single" /\ Count(violations, "ERROR") > 0
    \/ Mode = "single" /\ args.fail_on_warn /\ Count(violations, "WARN") > 0
    \/ Mode = "diff" /\ Introduced # {}
    \/ Mode = "batch" /\ WithErrors > 0

Finish == /\ phase = "exit"
          /\ Exit(IF Rejected THEN 1 ELSE 0)
          /\ UNCHANGED <<disk, before, args, thresholds, pending, results, violations, out>>

(* The user edits the directory and runs the program again.                *)
Invoke == /\ phase = "exited"
          /\ disk' \in {d \in Edits(disk) : IsDirectory(d)}
          /\ before' = disk'
          /\ args' \in CommandLines
          /\ phase' = "options"
          /\ thresholds' = "default"
          /\ pending' = <<>>
          /\ results' = <<>>
          /\ violations' = <<>>
          /\ out' = Nothing
          /\ status' = 0

Main == ParseArgs \/ Configure \/ Validate \/ ValidateThrows \/ Suppress \/ Report
          \/ ReportFails \/ ReportThrows \/ Finish

Next == Main \/ Invoke

(* Nothing obliges the user to run the program; a run goes on by itself.   *)
Spec == Init /\ [][Next]_vars /\ WF_vars(Main)

-----------------------------------------------------------------------------
(* The variables have their types.                                         *)
TypeOK == /\ IsDirectory(disk)
          /\ args \in CommandLines
          /\ phase \in Phases
          /\ thresholds \in {"default", "custom"}
          /\ pending \in Seq(Files)
          /\ Len(results) + Len(pending) <= Len(args.inputs)
          /\ out.kind \in {"absent", "report"}
          /\ status \in {0, 1, 2, Abort}

Validated == phase = "exited" /\ results # <<>> /\ status \in {0, 1}

Written == IF args.output = NoName THEN out ELSE disk[args.output]

Counts(v) == v.severity = "ERROR" \/ (args.fail_on_warn /\ v.severity = "WARN")

(* The exit code 0 of a plain run is to be relied on: everything in the    *)
(* file as it was when the program started that should have made the run   *)
(* fail is named, rule and stream, by an entry of the ignore file (an      *)
(* entry that leaves one of them out names them all).                      *)
ZeroMeansExcused ==
    (Validated /\ status = 0 /\ Mode = "single") =>
      \A v \in Range(Verdict(before[args.inputs[1]])) : Counts(v) =>
        \E s \in Suppressions(before) : /\ s.rule_id # NoName   => s.rule_id = v.rule_id
                                        /\ s.stream_id # NoName => s.stream_id = v.stream_id

(* A run that fails leaves nothing behind: no file has changed, nothing    *)
(* has been printed.  The report of an earlier run is not half overwritten *)
(* by one that could not read its input.  The one exception is a report    *)
(* that cannot be made: then, and only then, the output file is left       *)
(* empty.                                                                  *)
FailureLeavesNothing ==
    (phase = "exited" /\ status \in {2, Abort}) =>
      /\ out = Nothing
      /\ \A f \in DOMAIN disk : disk[f] # before[f] =>
           f = args.output /\ disk[f] = Empty /\ Undumpable

(* Exit code and report tell the same story, wherever the report went --   *)
(* over an input file included: the code is 1 exactly when the document    *)
(* shows something that counts.                                            *)
ShowsSomething(r) ==
    CASE r.format = "diff"  -> r.doc.new # {}
      [] r.format = "sarif" -> \E x \in Range(r.doc.results) :
                                 x.level = "error" \/ (args.fail_on_warn /\ x.level = "warning")
      [] OTHER              -> r.doc.errors > 0 \/ (args.fail_on_warn /\ r.doc.warnings > 0)

ReportAgrees ==
    (Validated /\ Mode # "batch") =>
      /\ Written.kind = "report"
      /\ status = 1 <=> ShowsSomething(Written)

(* A report is complete: it has, in order, all that was found in the file  *)
(* as it was when the program started and that no entry of the ignore file *)
(* names.  A JSON report can be read back to the last field, although it   *)
(* leaves empty ones out; a SARIF log is in order however often a rule     *)
(* comes back to it.                                                       *)
ReportTellsAll ==
    (Validated /\ Mode = "single") =>
      LET found == Unsuppressed(Verdict(before[args.inputs[1]]), before)
          doc   == Written.doc
      IN  CASE Written.format = "json"  -> JsonRead(doc) = found
            [] Written.format = "sarif" ->
                 /\ SarifInOrder(doc)
                 /\ [i \in DOMAIN doc.results |-> doc.results[i].message] = [i \in DOMAIN found |-> found[i].what]
            [] Written.format = "text"  ->
                 /\ [i \in DOMAIN doc.lines |-> doc.lines[i].message] = [i \in DOMAIN found |-> found[i].what]
                 /\ doc.errors + doc.warnings + doc.infos = Len(found)

(* A batch goes through every file, whatever is wrong with those before:   *)
(* it exits 0 only if each of them could be read and has no error, and the *)
(* report has an entry for each, in order.                                 *)
BatchAccountsForAll ==
    (Validated /\ Mode = "batch") =>
      LET c(k) == before[args.inputs[k]] IN
        /\ status = 0 <=> \A k \in DOMAIN args.inputs : ~Fails(c(k)) /\ Errors(Verdict(c(k))) = {}
        /\ args.output \notin Unwritable =>
             /\ Len(Written.doc.topologies) = Len(args.inputs)
             /\ \A k \in DOMAIN args.inputs :
                  LET x == Written.doc.topologies[k] IN
                    /\ x.file = args.inputs[k]
                    /\ Fails(c(k)) <=> "error" \in DOMAIN x
                    /\ ~Fails(c(k)) => (x.errors = 0 <=> Errors(Verdict(c(k))) = {})

(* A diff that exits 0 has found no error of the second file in a place    *)
(* where the first had nothing to report.                                  *)
DiffZeroMeansNoNewPlace ==
    (Validated /\ status = 0 /\ Mode = "diff") =>
      {Key(v) : v \in Errors(Verdict(before[args.inputs[2]]))} \subseteq Keys(Verdict(before[args.inputs[1]]))

(* Every invocation comes to an end.                                       *)
RunsEnd == (phase # "exited") ~> (phase = "exited")

-----------------------------------------------------------------------------
(* What the documents say and the code does not do.                        *)

(* README.md:262: "2 = fatal error (parse failure, unknown rule)".  In a   *)
(* batch such a file makes the exit code 1, under --diff the exception     *)
(* leaves main.                                                            *)
FatalMeansTwo ==
    (phase = "exited" /\ args.options = "ok" /\ Early = {}) =>
      ((\E k \in 1..Len(Inputs) : Fails(before[Inputs[k]])) => status = 2)

(* main.cpp:11: "--fail-on-warn Exit 1 on warnings too".  Only a plain run *)
(* looks at the option.                                                    *)
FailOnWarn ==
    (Validated /\ args.fail_on_warn /\ status = 0 /\ Suppressions(before) = {}) =>
      \A k \in DOMAIN Inputs : Count(Verdict(before[Inputs[k]]), "WARN") = 0

(* README.md:126-138: a report written with --format json is a baseline,   *)
(* `switchlint topology.yaml baseline --diff` "allow[s] you to block PRs   *)
(* that introduce new errors".  The baseline is read as a topology.        *)
BaselineBlocks ==
    (Validated /\ Mode = "diff") =>
      LET new  == before[args.inputs[1]]
          base == before[args.inputs[2]]
      IN  (new.kind = "topology" /\ base.kind = "report" /\ base.format = "json") =>
            (status = 0 => {Key(v) : v \in Errors(Verdict(new))} \subseteq Keys(JsonRead(base.doc)))

(* main.cpp:7: "--output <file>         Write output to file instead of    *)
(* stdout".  A run that exits as if all were well has written its report.  *)
(* A batch does not look whether it could open the file.                   *)
ReportIsWritten == (Validated /\ args.output # NoName) => disk[args.output].kind = "report"

(* yaml_parser.cpp:235: "Silently ignore missing or invalid suppression    *)
(* files".  A run that comes to look at the ignore file goes on to its     *)
(* report, whatever it finds there.                                        *)
InvalidIgnoreIsIgnored == [][phase = "suppress" => phase' = "report"]_vars
=============================================================================
