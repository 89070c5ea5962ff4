------------------------------ MODULE Reporters ------------------------------
(***************************************************************************)
(* print_text_report, print_json_report and print_sarif_report             *)
(* (src/report): the document each makes of a vector of violations.  A     *)
(* violation is a record with the fields of Violation                      *)
(* (include/diagnostic.hpp); `what' stands for its message.  Colours,      *)
(* wording and layout are left out, what is counted, left out, replaced or *)
(* written once is not.                                                    *)
(***************************************************************************)
EXTENDS Naturals, SequencesExt

NoName == ""        \* a string that has not been given

Violation == [severity  : {"ERROR", "WARN", "INFO"},
              rule_id   : STRING,
              stream_id : STRING,
              node_id   : STRING,
              port_id   : STRING,
              what      : STRING,
              line      : Nat,
              file      : STRING]

Count(vs, sev) == Cardinality({i \in DOMAIN vs : vs[i].severity = sev})

-----------------------------------------------------------------------------
TextReport(vs) ==
    [lines    |-> [i \in DOMAIN vs |-> [prefix  |-> vs[i].severity,
                                        message |-> vs[i].what,
                                        line    |-> {vs[i].line} \ {0}]],
     errors   |-> Count(vs, "ERROR"),
     warnings |-> Count(vs, "WARN"),
     infos    |-> Count(vs, "INFO")]

-----------------------------------------------------------------------------
severity_str == [ERROR |-> "error", WARN |-> "warning", INFO |-> "info"]

JsonFields(v) ==
    [severity |-> severity_str[v.severity], rule_id |-> v.rule_id, message |-> v.what,
     source_line |-> v.line, stream_id |-> v.stream_id, node_id |-> v.node_id,
     port_id |-> v.port_id, source_file |-> v.file]

(* The bug: a port is written only where there is a stream.                *)
MembersIfStream(v) ==
    {m \in DOMAIN JsonFields(v) :
        /\ m \in {"stream_id", "node_id", "port_id", "source_file"} => JsonFields(v)[m] # NoName
        /\ m = "port_id" => v.stream_id # NoName}

(* Four members are not written when they are empty.                       *)
Members(v) ==
    {m \in DOMAIN JsonFields(v) :
        m \in {"stream_id", "node_id", "port_id", "source_file"} => JsonFields(v)[m] # NoName}

(* violation_to_json                                                       *)
JsonEntry(v) == Restrict(JsonFields(v), Members(v))

JsonReport(vs) ==
    [errors     |-> Count(vs, "ERROR"),
     warnings   |-> Count(vs, "WARN"),
     violations |-> [i \in DOMAIN vs |-> JsonEntry(vs[i])]]

JsonStrings(v) == {v.rule_id, v.what, v.stream_id, v.node_id, v.port_id, v.file}

-----------------------------------------------------------------------------
severity_to_level == [ERROR |-> "error", WARN |-> "warning", INFO |-> "note"]

(* The bug: only the rule seen last is remembered.                         *)
IsChangeOfRule(vs, i) == i = 1 \/ vs[i - 1].rule_id # vs[i].rule_id

(* seen_rules holds the ids of the violations before the i-th.             *)
IsNewRule(vs, i) == \A j \in 1..(i - 1) : vs[j].rule_id # vs[i].rule_id

(* The default of a location no rule has given.                            *)
SarifResult(v) ==
    [ruleId    |-> v.rule_id,
     level     |-> severity_to_level[v.severity],
     message   |-> v.what,
     uri       |-> IF v.file = NoName THEN "topology.yaml" ELSE v.file,
     startLine |-> IF v.line > 0 THEN v.line ELSE 1,
     node      |-> {v.node_id} \ {NoName}]

SarifReport(vs) ==
    [rules   |-> FlattenSeq([i \in DOMAIN vs |-> IF IsNewRule(vs, i) THEN <<vs[i].rule_id>> ELSE <<>>]),
     results |-> [i \in DOMAIN vs |-> SarifResult(vs[i])]]

SarifStrings(v) == {v.rule_id, v.what, v.node_id, v.file}

-----------------------------------------------------------------------------
(* The readers: what a tool that is given only the document makes of it.   *)
Read(entry, key) == IF key \in DOMAIN entry THEN entry[key] ELSE NoName

(* The fields of the violations a JSON report is about.                    *)
JsonRead(doc) ==
    [i \in DOMAIN doc.violations |->
       LET j == doc.violations[i] IN
         [severity  |-> CHOOSE s \in DOMAIN severity_str : severity_str[s] = j.severity,
          rule_id   |-> j.rule_id,
          stream_id |-> Read(j, "stream_id"),
          node_id   |-> Read(j, "node_id"),
          port_id   |-> Read(j, "port_id"),
          what      |-> j.message,
          line      |-> j.source_line,
          file      |-> Read(j, "source_file")]]

(* A SARIF log is in order when every result refers to one rule, and no    *)
(* rule is there without a result.                                         *)
SarifInOrder(doc) ==
    /\ \A r \in Range(doc.results) : Cardinality({i \in DOMAIN doc.rules : doc.rules[i] = r.ruleId}) = 1
    /\ Len(doc.rules) = Cardinality({r.ruleId : r \in Range(doc.results)})
=============================================================================
