---------------------------- MODULE DiffReporter ----------------------------
(***************************************************************************)
(* print_diff_report (src/report/diff_reporter.cpp): two runs compared by  *)
(* the keys of their violations.  Severity and message are not part of a   *)
(* key; of several violations with one key the last is the one whose       *)
(* message is shown.  old and new are the vectors of the two runs.         *)
(***************************************************************************)
EXTENDS SequencesExt

Key(v) == [rule_id |-> v.rule_id, stream_id |-> v.stream_id,
           node_id |-> v.node_id, port_id |-> v.port_id]

Keys(vs) == {Key(v) : v \in Range(vs)}

NewKeys(old, new)       == Keys(new) \ Keys(old)
FixedKeys(old, new)     == Keys(old) \ Keys(new)
UnchangedKeys(old, new) == Keys(old) \cap Keys(new)

Message(vs, k) == vs[Max({i \in DOMAIN vs : Key(vs[i]) = k})].what

Shown(vs, keys) == {[key |-> k, message |-> Message(vs, k)] : k \in keys}

DiffReport(old, new) ==
    [new       |-> Shown(new, NewKeys(old, new)),
     fixed     |-> Shown(old, FixedKeys(old, new)),
     unchanged |-> Shown(new, UnchangedKeys(old, new))]
=============================================================================
