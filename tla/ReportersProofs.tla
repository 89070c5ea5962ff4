--------------------------- MODULE ReportersProofs ---------------------------
(***************************************************************************)
(* Proofs about the reporters, for every vector of violations: what each   *)
(* document has of the vector it was made of.                              *)
(***************************************************************************)
EXTENDS Reporters, Flattening

(* What is counted is what is there.                                       *)
LEMMA CountsSeverity ==
    ASSUME NEW S, NEW vs \in Seq(S), NEW sev
    PROVE  /\ Count(vs, sev) \in Nat
           /\ Count(vs, sev) > 0 <=> \E v \in Range(vs) : v.severity = sev
<1> DEFINE C == {i \in DOMAIN vs : vs[i].severity = sev}
<1>1. DOMAIN vs = 1..Len(vs) /\ Len(vs) \in Nat
  BY LenProperties
<1>2. IsFiniteSet(DOMAIN vs)
  BY <1>1, FS_Interval
<1>3. IsFiniteSet(C)
  BY <1>2, FS_Subset
<1>4. Cardinality(C) \in Nat /\ (Cardinality(C) = 0 <=> C = {})
  BY <1>3, FS_CardinalityType, FS_EmptySet
<1>5. C # {} <=> \E v \in Range(vs) : v.severity = sev
  BY DEF Range
<1> HIDE DEF C
<1>6. Count(vs, sev) = Cardinality(C)
  BY DEF Count, C
<1> QED
  BY <1>4, <1>5, <1>6

-----------------------------------------------------------------------------
(* A field that was not written was empty.                                 *)
LEMMA ReadsBack ==
    ASSUME NEW v \in Violation
    PROVE  LET j == JsonEntry(v) IN
           /\ j.severity = severity_str[v.severity]
           /\ j.rule_id = v.rule_id
           /\ j.message = v.what
           /\ j.source_line = v.line
           /\ Read(j, "stream_id") = v.stream_id
           /\ Read(j, "node_id") = v.node_id
           /\ Read(j, "port_id") = v.port_id
           /\ Read(j, "source_file") = v.file
<1> DEFINE f == JsonFields(v)
<1>1. DOMAIN f = {"severity", "rule_id", "message", "source_line", "stream_id", "node_id",
                  "port_id", "source_file"}
  BY DEF JsonFields
<1>2. /\ f["severity"] = severity_str[v.severity] /\ f["rule_id"] = v.rule_id
      /\ f["message"] = v.what /\ f["source_line"] = v.line
      /\ f["stream_id"] = v.stream_id /\ f["node_id"] = v.node_id
      /\ f["port_id"] = v.port_id /\ f["source_file"] = v.file
  BY DEF JsonFields
<1>3. JsonEntry(v) = [m \in Members(v) |-> f[m]]
  BY DEF JsonEntry, Restrict
<1>4. {"severity", "rule_id", "message", "source_line"} \subseteq Members(v)
  BY <1>1 DEF Members
<1>5. \A m \in {"stream_id", "node_id", "port_id", "source_file"} : m \in Members(v) <=> f[m] # NoName
  BY <1>1 DEF Members
<1>6. \A m \in {"stream_id", "node_id", "port_id", "source_file"} : Read(JsonEntry(v), m) = f[m]
  <2> HIDE DEF f
  <2> QED BY <1>3, <1>5 DEF Read
<1> HIDE DEF f
<1> QED
  BY <1>2, <1>3, <1>4, <1>6

(* A severity can be told from its name in a JSON report.                  *)
LEMMA SeverityReadsBack ==
    ASSUME NEW sev \in {"ERROR", "WARN", "INFO"}
    PROVE  (CHOOSE s \in DOMAIN severity_str : severity_str[s] = severity_str[sev]) = sev
<1>1. DOMAIN severity_str = {"ERROR", "WARN", "INFO"}
  BY DEF severity_str
<1>2. \A s, t \in {"ERROR", "WARN", "INFO"} : severity_str[s] = severity_str[t] => s = t
  BY DEF severity_str
<1> QED
  BY <1>1, <1>2

(* A violation is what its fields are.                                     *)
LEMMA ViolationIs ==
    ASSUME NEW v \in Violation
    PROVE  v = [severity |-> v.severity, rule_id |-> v.rule_id, stream_id |-> v.stream_id,
                node_id |-> v.node_id, port_id |-> v.port_id, what |-> v.what, line |-> v.line,
                file |-> v.file]
  BY DEF Violation

(* A JSON report can be read back to the last field.                       *)
LEMMA JsonReadsBack == ASSUME NEW vs \in Seq(Violation) PROVE JsonRead(JsonReport(vs)) = vs
<1> DEFINE doc == JsonReport(vs)
<1>1. DOMAIN doc.violations = DOMAIN vs
      /\ \A i \in DOMAIN vs : doc.violations[i] = JsonEntry(vs[i])
  BY DEF JsonReport
<1>2. vs = [i \in DOMAIN vs |-> vs[i]] /\ \A i \in DOMAIN vs : vs[i] \in Violation
  BY LenProperties
<1>3. ASSUME NEW i \in DOMAIN vs
      PROVE  LET j == doc.violations[i] IN
             vs[i] = [severity  |-> CHOOSE s \in DOMAIN severity_str : severity_str[s] = j.severity,
                      rule_id   |-> j.rule_id,
                      stream_id |-> Read(j, "stream_id"),
                      node_id   |-> Read(j, "node_id"),
                      port_id   |-> Read(j, "port_id"),
                      what      |-> j.message,
                      line      |-> j.source_line,
                      file      |-> Read(j, "source_file")]
  <2>1. PICK v \in Violation : v = vs[i]
    BY <1>2
  <2>2. doc.violations[i] = JsonEntry(v)
    BY <1>1, <2>1
  <2>3. v.severity \in {"ERROR", "WARN", "INFO"}
    BY DEF Violation
  <2> QED
    BY <2>1, <2>2, <2>3, ReadsBack, SeverityReadsBack, ViolationIs
<1> HIDE DEF doc
<1> QED
  BY <1>1, <1>2, <1>3 DEF JsonRead, doc

(* The sizes of two sets without a common element add up.                  *)
LEMMA DisjointSizes ==
    ASSUME NEW A, IsFiniteSet(A), NEW B, IsFiniteSet(B), A \cap B = {}
    PROVE  IsFiniteSet(A \cup B) /\ Cardinality(A \cup B) = Cardinality(A) + Cardinality(B)
<1>1. /\ IsFiniteSet(A \cup B)
      /\ Cardinality(A \cup B) = Cardinality(A) + Cardinality(B) - Cardinality(A \cap B)
  BY FS_Union
<1>2. Cardinality(A \cap B) = 0
  BY FS_EmptySet
<1>3. Cardinality(A) \in Nat /\ Cardinality(B) \in Nat
  BY FS_CardinalityType
<1> QED
  BY <1>1, <1>2, <1>3

(* The three severities add up to the length of the vector.                *)
LEMMA SeveritiesAddUp ==
    ASSUME NEW vs \in Seq(Violation)
    PROVE  Count(vs, "ERROR") + Count(vs, "WARN") + Count(vs, "INFO") = Len(vs)
<1> DEFINE C(sev) == {i \in DOMAIN vs : vs[i].severity = sev}
<1>1. DOMAIN vs = 1..Len(vs) /\ Len(vs) \in Nat
  BY LenProperties
<1>2. IsFiniteSet(DOMAIN vs) /\ Cardinality(DOMAIN vs) = Len(vs)
  BY <1>1, FS_Interval
<1>3. \A i \in DOMAIN vs : vs[i].severity \in {"ERROR", "WARN", "INFO"}
  <2>1. \A i \in DOMAIN vs : vs[i] \in Violation
    BY <1>1, ElementOfSeq
  <2> QED
    BY <2>1 DEF Violation
<1>4. \A sev : IsFiniteSet(C(sev)) /\ Cardinality(C(sev)) \in Nat
  <2> TAKE sev
  <2>1. C(sev) \in SUBSET DOMAIN vs
    OBVIOUS
  <2> HIDE DEF C
  <2> QED
    BY <1>2, <2>1, FS_Subset, FS_CardinalityType
<1>5. /\ C("ERROR") \cap C("WARN") = {}
      /\ (C("ERROR") \cup C("WARN")) \cap C("INFO") = {}
      /\ (C("ERROR") \cup C("WARN")) \cup C("INFO") = DOMAIN vs
  BY <1>3
<1>6. \A sev : Count(vs, sev) = Cardinality(C(sev))
  BY DEF Count
<1> HIDE DEF C
<1>7. /\ IsFiniteSet(C("ERROR") \cup C("WARN"))
      /\ Cardinality(C("ERROR") \cup C("WARN")) = Cardinality(C("ERROR")) + Cardinality(C("WARN"))
  BY <1>4, <1>5, DisjointSizes
<1>8. Cardinality((C("ERROR") \cup C("WARN")) \cup C("INFO"))
        = Cardinality(C("ERROR") \cup C("WARN")) + Cardinality(C("INFO"))
  BY <1>4, <1>5, <1>7, DisjointSizes
<1> QED
  BY <1>2, <1>5, <1>6, <1>7, <1>8

-----------------------------------------------------------------------------
(* A vector without repetition is as long as it has members, and each of   *)
(* them is at one place.                                                   *)
LEMMA DistinctCounts ==
    ASSUME NEW S, NEW t \in Seq(S), Distinct(t)
    PROVE  /\ Cardinality(Range(t)) = Len(t)
           /\ \A x \in Range(t) : Cardinality({i \in DOMAIN t : t[i] = x}) = 1
<1>1. DOMAIN t = 1..Len(t) /\ Len(t) \in Nat
  BY LenProperties
<1>2. IsFiniteSet(1..Len(t)) /\ Cardinality(1..Len(t)) = Len(t)
  BY <1>1, FS_Interval
<1>3. t \in Bijection(1..Len(t), Range(t))
  <2>1. t \in [1..Len(t) -> Range(t)]
    BY <1>1, LenProperties DEF Range
  <2> QED
    BY <1>1, <2>1 DEF Bijection, Injection, Surjection, IsInjective, Distinct, Range
<1>4. ExistsBijection(1..Len(t), Range(t))
  BY <1>3 DEF ExistsBijection
<1>5. Cardinality(Range(t)) = Len(t)
  BY <1>2, <1>4, FS_Bijection
<1>6. ASSUME NEW x \in Range(t) PROVE Cardinality({i \in DOMAIN t : t[i] = x}) = 1
  <2>1. PICK k \in DOMAIN t : t[k] = x
    BY DEF Range
  <2>2. {i \in DOMAIN t : t[i] = x} = {k}
    BY <1>1, <2>1 DEF Distinct
  <2> QED
    BY <2>2, FS_Singleton
<1> QED
  BY <1>5, <1>6

(* Every rule of the vector is listed, and none twice.                     *)
LEMMA RulesListed ==
    ASSUME NEW vs \in Seq(Violation)
    PROVE  LET rules == SarifReport(vs).rules IN
           /\ rules \in Seq(STRING)
           /\ Distinct(rules)
           /\ Range(rules) = {vs[i].rule_id : i \in DOMAIN vs}
<1> DEFINE piece(i) == IF IsNewRule(vs, i) THEN <<vs[i].rule_id>> ELSE <<>>
           pieces == [i \in DOMAIN vs |-> piece(i)]
<1>1. DOMAIN vs = 1..Len(vs) /\ Len(vs) \in Nat
  BY LenProperties
<1>2. \A i \in DOMAIN vs : vs[i].rule_id \in STRING
  <2>1. \A i \in DOMAIN vs : vs[i] \in Violation
    BY <1>1, ElementOfSeq
  <2> QED
    BY <2>1 DEF Violation
<1>3. ASSUME NEW i \in DOMAIN vs
      PROVE  /\ piece(i) \in Seq(STRING)
             /\ Len(piece(i)) <= 1
             /\ Range(piece(i)) = {x \in {vs[i].rule_id} : IsNewRule(vs, i)}
  <2>1. Range(<<>>) = {} /\ Range(<<vs[i].rule_id>>) = {vs[i].rule_id}
    BY DEF Range
  <2>2. CASE IsNewRule(vs, i)
    <3>1. piece(i) = <<vs[i].rule_id>>
      BY <2>2
    <3> QED
      BY <1>2, <2>1, <2>2, <3>1
  <2>3. CASE ~IsNewRule(vs, i)
    <3>1. piece(i) = <<>>
      BY <2>3
    <3> QED
      BY <2>1, <2>3, <3>1
  <2> QED
    BY <2>2, <2>3
<1>4. /\ pieces \in Seq(Seq(STRING)) /\ Len(pieces) = Len(vs)
      /\ \A i \in DOMAIN vs : pieces[i] = piece(i)
  <2> HIDE DEF piece
  <2> QED BY <1>1, <1>3
<1> HIDE DEF piece, pieces
<1>5. ASSUME NEW i \in 1..Len(pieces), NEW j \in 1..Len(pieces), i # j
      PROVE  Range(pieces[i]) \cap Range(pieces[j]) = {}
  <2>1. i < j \/ j < i
    BY <1>1, <1>4, <1>5
  <2>2. ~(IsNewRule(vs, i) /\ IsNewRule(vs, j) /\ vs[i].rule_id = vs[j].rule_id)
    BY <1>1, <1>4, <2>1 DEF IsNewRule
  <2> QED
    BY <1>1, <1>3, <1>4, <2>2
<1>6. Distinct(FlattenSeq(pieces))
  BY <1>1, <1>3, <1>4, <1>5, FlattenedOnce
<1>7. /\ FlattenSeq(pieces) \in Seq(STRING)
      /\ Range(FlattenSeq(pieces)) = UNION {Range(pieces[i]) : i \in 1..Len(pieces)}
  BY <1>4, Flattened
<1>8. ASSUME NEW i \in DOMAIN vs
      PROVE  \E j \in DOMAIN vs : vs[j].rule_id = vs[i].rule_id /\ IsNewRule(vs, j)
  <2> DEFINE J == {j \in DOMAIN vs : vs[j].rule_id = vs[i].rule_id}
  <2>1. J \subseteq Nat /\ J # {}
    BY <1>1
  <2>2. PICK j \in J : \A k \in J : j <= k
    BY <2>1, SmallestOf
  <2>3. IsNewRule(vs, j)
    BY <1>1, <2>2 DEF IsNewRule
  <2> QED
    BY <2>3
<1>9. UNION {Range(pieces[i]) : i \in 1..Len(pieces)} = {vs[i].rule_id : i \in DOMAIN vs}
  <2>1. \A i \in DOMAIN vs : Range(pieces[i]) = {x \in {vs[i].rule_id} : IsNewRule(vs, i)}
    BY <1>3, <1>4
  <2>2. UNION {Range(pieces[i]) : i \in 1..Len(pieces)} = UNION {Range(pieces[i]) : i \in DOMAIN vs}
    BY <1>1, <1>4
  <2>3. ASSUME NEW i \in DOMAIN vs
        PROVE  vs[i].rule_id \in UNION {Range(pieces[k]) : k \in DOMAIN vs}
    <3>1. PICK j \in DOMAIN vs : vs[j].rule_id = vs[i].rule_id /\ IsNewRule(vs, j)
      BY <1>8
    <3>2. vs[i].rule_id \in Range(pieces[j])
      BY <2>1, <3>1
    <3> QED
      BY <3>2
  <2>4. ASSUME NEW i \in DOMAIN vs, NEW x \in Range(pieces[i]) PROVE x = vs[i].rule_id
    BY <2>1
  <2>5. ASSUME NEW x PROVE x \in UNION {Range(pieces[k]) : k \in DOMAIN vs}
                             <=> x \in {vs[i].rule_id : i \in DOMAIN vs}
    BY <2>3, <2>4
  <2> QED
    BY <2>2, <2>5
<1>10. SarifReport(vs).rules = FlattenSeq(pieces)
  BY DEF SarifReport, pieces, piece
<1> QED
  BY <1>6, <1>7, <1>9, <1>10

(* A SARIF log is in order, however often a rule comes back to it.         *)
LEMMA SarifOrdered == ASSUME NEW vs \in Seq(Violation) PROVE SarifInOrder(SarifReport(vs))
<1> DEFINE doc == SarifReport(vs)
<1>1. /\ doc.rules \in Seq(STRING)
      /\ Distinct(doc.rules)
      /\ Range(doc.rules) = {vs[i].rule_id : i \in DOMAIN vs}
  BY RulesListed
<1>2. DOMAIN doc.results = DOMAIN vs /\ \A i \in DOMAIN vs : doc.results[i] = SarifResult(vs[i])
  BY DEF SarifReport
<1>3. \A i \in DOMAIN vs : SarifResult(vs[i]).ruleId = vs[i].rule_id
  BY DEF SarifResult
<1> HIDE DEF doc
<1>4. {r.ruleId : r \in Range(doc.results)} = Range(doc.rules)
  <2>1. Range(doc.results) = {SarifResult(vs[i]) : i \in DOMAIN vs}
    BY <1>2 DEF Range
  <2>2. {r.ruleId : r \in Range(doc.results)} = {SarifResult(vs[i]).ruleId : i \in DOMAIN vs}
    BY <2>1
  <2> QED
    BY <1>1, <1>3, <2>2
<1>5. /\ Cardinality(Range(doc.rules)) = Len(doc.rules)
      /\ \A x \in Range(doc.rules) : Cardinality({i \in DOMAIN doc.rules : doc.rules[i] = x}) = 1
  BY <1>1, DistinctCounts
<1> QED
  BY <1>4, <1>5 DEF SarifInOrder, doc
=============================================================================
