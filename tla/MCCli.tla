------------------------------- MODULE MCCli -------------------------------
(***************************************************************************)
(* Instances of Cli for TLC: two topology files t and u, a report r, a     *)
(* file x in a directory that does not exist, a topology whose name is no  *)
(* UTF-8, the ignore file itself, and three rules.                         *)
(***************************************************************************)
EXTENDS Cli, TLC, FiniteSets

MCFiles      == {"t", "u", "r", "x", "\\xfe", ".switchlintignore"}
MCUnwritable == {"x"}
MCRegistry   == <<"TSN001", "BW001", "ORPH001">>
MCGarbled    == {"\\xff", "\\xfe"}

(* A warning, an error in the same place, an error elsewhere, a remark.    *)
V(sev, rule, stream, what) ==
    [severity |-> sev, rule_id |-> rule, stream_id |-> stream, node_id |-> "s", port_id |-> "p",
     what |-> what, line |-> 3, file |-> "t"]
Warn  == V("WARN", "TSN001", "A", "hiCredit")
Worse == V("ERROR", "TSN001", "A", "idleSlope")
Over  == V("ERROR", "BW001", "", "oversubscribed")
Odd   == V("WARN", "BW001", "\\xff", "\\xff")       \* the stream's name is no UTF-8
Alone == [V("INFO", "ORPH001", "", "isolated") EXCEPT !.port_id = "", !.line = 0, !.file = ""]

Finding(a, b, c) == ("TSN001" :> a @@ "BW001" :> b @@ "ORPH001" :> c)
Topo(a, b, custom_b) ==
    [kind |-> "topology", finds |-> ("default" :> Finding(a, b, <<>>) @@ "custom" :> Finding(a, custom_b, <<>>))]
Remarked == [kind |-> "topology", finds |-> [th \in {"default", "custom"} |->
                                               Finding(<<Warn, Worse>>, <<Over>>, <<Alone>>)]]

Clean     == Topo(<<>>, <<>>, <<>>)
Malformed == [kind |-> "malformed", why |-> "no YAML"]
NotUnique == [kind |-> "malformed", why |-> "\\xff"]     \* that node is declared twice
Topologies == {Clean, Topo(<<Warn>>, <<>>, <<Over>>), Topo(<<Worse>>, <<>>, <<>>), Remarked,
               Topo(<<Warn>>, <<Over>>, <<Over>>), Topo(<<>>, <<Odd>>, <<>>)}

Entry(rule, stream) == [rule_id |-> rule, stream_id |-> stream]
IgnoreFile(es)      == [kind |-> "ignore", entries |-> es]
Ignores == {[kind |-> "mistyped"], IgnoreFile({Entry("BW001", "A")}),
            IgnoreFile({Entry("BW001", ""), Entry("", "A")})}

Directory(ct, cu, ci) ==
    ("t" :> ct @@ "u" :> cu @@ "r" :> Nothing @@ "x" :> Nothing @@ "\\xfe" :> Clean
       @@ ".switchlintignore" :> ci)

MCDisks == {Directory(ct, cu, ci) : ct \in Topologies \cup {Malformed, NotUnique},
                                    cu \in {Topo(<<Warn>>, <<>>, <<Over>>), Nothing}, ci \in Ignores}

-----------------------------------------------------------------------------
Plain == [options |-> "ok", config |-> "", ask |-> "", inputs |-> <<"t">>, diff |-> FALSE,
          batch |-> FALSE, format |-> "text", output |-> "", rules |-> <<>>, fail_on_warn |-> FALSE]

Singles == {[Plain EXCEPT !.format = fm, !.output = o, !.fail_on_warn = w] :
              fm \in {"json", "sarif", "other"}, o \in {"", "r", "x"}, w \in BOOLEAN}
Diffs   == {[Plain EXCEPT !.diff = TRUE, !.inputs = i, !.output = o] :
              i \in {<<"t">>, <<"t", "u">>, <<"u", "t">>, <<"t", "r">>}, o \in {"", "u", "x"}}
Batches == {[Plain EXCEPT !.batch = TRUE, !.inputs = i, !.output = o] :
              i \in {<<>>, <<"t">>, <<"u", "t">>, <<"t", "r", "u">>}, o \in {"", "t", "x"}}
Others  == {[Plain EXCEPT !.options = "help"], [Plain EXCEPT !.options = "unknown"],
            [Plain EXCEPT !.config = "custom"], [Plain EXCEPT !.config = "unreadable"],
            [Plain EXCEPT !.config = "mistyped"], [Plain EXCEPT !.ask = "list"],
            [Plain EXCEPT !.ask = "explain"],
            [Plain EXCEPT !.rules = <<"TSN001", "BW001", "TSN001">>, !.format = "sarif"],
            [Plain EXCEPT !.rules = <<"TSN001", "NOPE">>], [Plain EXCEPT !.output = "t"],
            [Plain EXCEPT !.batch = TRUE, !.inputs = <<"t", "\\xfe">>, !.output = "r"],
            [Plain EXCEPT !.inputs = <<".switchlintignore">>],
            [Plain EXCEPT !.format = "json", !.output = ".switchlintignore"],
            [Plain EXCEPT !.diff = TRUE, !.batch = TRUE, !.inputs = <<"u", "t">>, !.config = "custom"]}

MCCommandLines == Singles \cup Diffs \cup Batches \cup Others

(* Between two invocations the directory stays as it is, unless two files  *)
(* have become reports: then the user puts them away (bound of the runs).  *)
AreReports(d) == {f \in MCFiles : d[f].kind = "report"}
Tidied(d) == IF Cardinality(AreReports(d)) <= 1 THEN {d}
             ELSE {[f \in DOMAIN d |-> IF f \in AreReports(d) THEN Nothing ELSE d[f]]}

(* For the claims: t in order or with a warning, and t gets worse.         *)
ClaimDisks == {Directory(ct, Clean, ci) : ct \in {Clean, Malformed, Topo(<<Warn>>, <<>>, <<>>)},
                                          ci \in {Nothing, [kind |-> "mistyped"]}}
Worsened(d) == {d, [d EXCEPT !["t"] = Topo(<<>>, <<Over>>, <<Over>>)]}
ClaimCommandLines ==
    {Plain, [Plain EXCEPT !.format = "json", !.output = "r"],
     [Plain EXCEPT !.diff = TRUE, !.inputs = <<"t", "r">>],
     [Plain EXCEPT !.batch = TRUE, !.fail_on_warn = TRUE],
     [Plain EXCEPT !.batch = TRUE, !.output = "x"]}
=============================================================================
