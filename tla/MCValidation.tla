----------------------------- MODULE MCValidation -----------------------------
(***************************************************************************)
(* Instances of Validation for TLC: a small file, the same file with any   *)
(* one field replaced by any kind of value, files made of every list of a  *)
(* few nodes and domains, and files whose streams and services give the    *)
(* loops something to remember.                                            *)
(***************************************************************************)
EXTENDS Validation

Text(x)  == [kind |-> "scalar", text |-> x, number |-> {}, flag |-> {}]
Num(x)   == [kind |-> "scalar", text |-> "number", number |-> {x}, flag |-> {}]
Flag(x)  == [kind |-> "scalar", text |-> "flag", number |-> {}, flag |-> {x}]
Null     == [kind |-> "null"]
Entries(x) == [kind |-> "list", items |-> x]
Fields(x)  == [kind |-> "map", of |-> x]
Texts(x)   == Entries([i \in DOMAIN x |-> Text(x[i])])

MCNodes   == {"e", "s", "t", "s::t", "null"}
MCPorts   == {"p", "q", "t", "t::p", "", "null"}
MCAddress == "1.2.3.4" :> 1 @@ "239.1.1.1" :> 7
MCLargest == [u8 |-> 3, u16 |-> 7, u32 |-> 40, i32 |-> 40]

(* 75 percent of the rate; a frame of 20 bits on shapers of 10 and 2 kbps, *)
(* less 3 ns for a hop; a word of 8 bits.                                  *)
MCConfig == [limit |-> [num |-> 3, den |-> 4], max_hops |-> 1, prop_delay_ns |-> -3,
             frame_ns_kbps |-> 20, ns_per_us |-> 2, word |-> 256]

-----------------------------------------------------------------------------
Cbs(idle) == Fields("idle_slope_kbps" :> Num(idle) @@ "send_slope_kbps" :> Num(-1)
                      @@ "hi_credit" :> Num(1) @@ "lo_credit" :> Num(-1))
Shaped10 == Fields("cbs_class_a" :> Cbs(10))
Slow     == Fields("cbs_class_a" :> Cbs(2))

Port(id, qos) == Fields("id" :> Text(id) @@ "line_rate_kbps" :> Num(24) @@ "qos" :> qos)
Ports2(a, b)  == Entries(<<Port("p", a), Port("q", b)>>)

NodeEntry(id, type, ports) == Fields("id" :> Text(id) @@ "type" :> Text(type) @@ "ports" :> ports)

Wire(a, p, b, q) == Fields("src" :> Text(a) @@ "src_port" :> Text(p)
                             @@ "dst" :> Text(b) @@ "dst_port" :> Text(q))

StreamEntry(id, src, dsts, class, kbps) ==
    Fields("id" :> Text(id) @@ "src" :> Text(src) @@ "dst" :> Texts(dsts) @@ "tsn_class" :> Num(class)
             @@ "bandwidth_kbps" :> Num(kbps) @@ "max_latency_us" :> Num(2))

Service(s, i, p, ecu) == Fields("service_id" :> Num(s) @@ "instance_id" :> Num(i) @@ "port" :> Num(p)
                                  @@ "provider_ecu" :> Text(ecu))

DomainEntry(id, ns) == Fields("id" :> Text(id) @@ "nodes" :> Texts(ns))

-----------------------------------------------------------------------------
(* A file that has every field once, on a line e - s - t.                  *)
FullPort ==
    Fields("id" :> Text("p") @@ "tagged" :> Flag(FALSE) @@ "pvid" :> Num(5) @@ "line_rate_kbps" :> Num(24)
      @@ "vlans" :> Entries(<<Num(5)>>)
      @@ "qos" :> Fields("cbs_class_a" :> Cbs(10) @@ "cbs_class_b" :> Cbs(10)
                   @@ "tas" :> Fields("gcl_present" :> Flag(TRUE) @@ "cycle_time_ns" :> Num(1)))
      @@ "macsec" :> Fields("enabled" :> Flag(TRUE) @@ "sci" :> Num(1) @@ "key_id" :> Text("k"))
      @@ "firewall" :> Entries(<<Fields("stream_id" :> Text("A") @@ "src_ip" :> Text("1.2.3.4")
                                   @@ "dst_ip" :> Text("239.1.1.1") @@ "dst_port" :> Num(1)
                                   @@ "action" :> Text("permit"))>>)
      @@ "storm_control" :> Fields("broadcast_limit_kbps" :> Num(1) @@ "multicast_limit_kbps" :> Num(1)))

FullStream ==
    Fields(StreamEntry("A", "e", <<"t">>, 1, 20).of
             @@ "vlan_id" :> Num(5) @@ "safety_level" :> Num(1) @@ "multicast_ip" :> Text("239.1.1.1"))

Line == <<Wire("e", "p", "s", "p"), Wire("s", "q", "t", "p")>>

Full == Fields(
    "ecus" :> Entries(<<NodeEntry("s", "switch", Entries(<<FullPort>>))>>)
      @@ "nodes" :> Entries(<<NodeEntry("e", "ecu", Entries(<<>>)),
                              NodeEntry("t", "switch", Ports2(Shaped10, Null))>>)
      @@ "links" :> Entries(Line)
      @@ "streams" :> Entries(<<FullStream>>)
      @@ "multicast_groups" :> Entries(<<Fields("switch_id" :> Text("s") @@ "group_ip" :> Text("239.1.1.1"))>>)
      @@ "someip_services" :> Entries(<<Service(1, 0, 1, "e")>>)
      @@ "domains" :> Entries(<<DomainEntry("body", <<"e">>)>>))

(* Files are numbered, so pools of them are sequences; s \o <<>> is s, with *)
(* its items worked out once.                                              *)
Kept(s)     == s \o <<>>
Pairs(A, B) == Kept([i \in 1..(Len(A) * Len(B)) |-> <<A[(i - 1) \div Len(B) + 1], B[((i - 1) % Len(B)) + 1]>>])
Ones(A)     == Kept([i \in DOMAIN A |-> <<A[i]>>])
UptoTwo(A)  == << <<>> >> \o Ones(A) \o Pairs(A, A)
UptoThree(A) == LET ts == Pairs(A, Pairs(A, A)) IN UptoTwo(A) \o [i \in DOMAIN ts |-> <<ts[i][1]>> \o ts[i][2]]

(* What a field, or an item of the list a field holds, may say instead.  A *)
(* name says another name, which bounds the names at hand.                 *)
NameFields == {"id", "src", "src_port", "dst", "dst_port", "nodes", "switch_id", "provider_ecu"}

Values(key) ==
    <<Null, Entries(<<>>), Texts(<<"s">>), Fields("x" :> Text("s")), Text("t")>>
      \o IF key \in NameFields THEN <<>>
         ELSE <<Text("239.1.1.1"), Num(-1), Num(6), Num(30), Num(300), Flag(TRUE)>>

(* The nodes of a file, each with the key it is found under.               *)
Keyed[d \in 0..7] ==
    IF d = 0 THEN {<<"", Full>>}
    ELSE UNION {IF x[2].kind = "map" THEN {<<k, x[2].of[k]>> : k \in DOMAIN x[2].of}
                ELSE IF x[2].kind = "list" THEN {<<x[1], y>> : y \in Range(x[2].items)} ELSE {}
                : x \in Keyed[d - 1]}

InOrder(S) == FoldSet(LAMBDA x, acc : Append(acc, x), <<>>, S)

(* n with its item k changed, in the ways of vs.                           *)
WithField(n, k, vs) == Kept([i \in DOMAIN vs |-> [n EXCEPT !.of[k] = vs[i]]])
WithItem(n, j, vs)  == Kept([i \in DOMAIN vs |-> [n EXCEPT !.items[j] = vs[i]]])

(* A node with one field changed, at any depth; a key may be left out.     *)
Variants[x \in UNION {Keyed[d] : d \in 0..7}] ==
    LET n == x[2] IN
    CASE n.kind = "map"  ->
           LET keys == InOrder(DOMAIN n.of)
           IN  FlattenSeq(Kept([i \in DOMAIN keys |->
                 WithField(n, keys[i], <<Undefined>> \o Values(keys[i]) \o Variants[<<keys[i], n.of[keys[i]]>>])]))
      [] n.kind = "list" ->
           FlattenSeq(Kept([j \in DOMAIN n.items |->
             WithItem(n, j, Values(x[1]) \o Variants[<<x[1], n.items[j]>>])]))
      [] OTHER           -> <<>>

Roots == <<[kind |-> "malformed"], Null, Text("s"), Entries(<<>>), Entries(<<Full>>), Fields(<<>>)>>

FieldFiles == <<Full>> \o Variants[<<"", Full>>] \o Roots

-----------------------------------------------------------------------------
(* Files made of a few nodes: the same name twice, names that hold the     *)
(* separator, a name that is null, no name at all.                         *)
Bare(id)     == Fields("id" :> id)
BareNode(id, ports) == Fields("id" :> id @@ "ports" :> Entries([i \in DOMAIN ports |-> Bare(Text(ports[i]))]))

SomeNodes == <<BareNode(Text("s"), <<"p">>), BareNode(Text("s"), <<"t::p">>), BareNode(Text("t"), <<"q", "p">>),
               BareNode(Text("s::t"), <<"p">>), BareNode(Text("t"), <<"p", "p">>), BareNode(Null, <<>>),
               BareNode(Undefined, <<"p">>)>>

NodeFiles ==
    LET ns == Pairs(UptoTwo(SomeNodes), << <<>> >> \o Ones(SomeNodes))
    IN  [i \in DOMAIN ns |-> Fields("ecus" :> Entries(ns[i][1]) @@ "nodes" :> Entries(ns[i][2]))]

SomeDomains == <<DomainEntry("body", <<"s", "t">>), DomainEntry("drive", <<"t">>), DomainEntry("", <<"e", "e">>)>>

DomainFiles ==
    LET ds == UptoThree(SomeDomains)
    IN  [i \in DOMAIN ds |-> Fields("nodes" :> Entries(<<BareNode(Text("t"), <<"p">>)>>)
                                      @@ "domains" :> Entries(ds[i]))]

-----------------------------------------------------------------------------
(* Files for the loops.  A second way from e to t, a second trunk, a trunk *)
(* that ends at a port nobody declares, one at a port without a name.      *)
Trunk(p, q) == Wire("t", q, "s", p)
LinkSets == <<Line, <<Line[1], Trunk("q", "p"), Wire("e", "q", "t", "q")>>,
              Append(Line, Trunk("p", "q")), <<Line[1], Trunk("t::p", "p")>>,
              <<Line[1], Trunk("", "p"), Trunk("q", "q")>> >>

StreamSets == << <<StreamEntry("A", "e", <<"t">>, 1, 10)>>,
                <<StreamEntry("A", "e", <<"t", "s">>, 1, 10), StreamEntry("B", "t", <<"e">>, 1, 9)>>,
                <<StreamEntry("A", "s", <<"t">>, 1, 9), StreamEntry("A", "e", <<"t">>, 1, 20)>>,
                <<StreamEntry("A", "s", <<"e">>, 1, 20), StreamEntry("C", "s", <<"t">>, 2, 30)>>,
                <<StreamEntry("A", "s", <<"s">>, 1, 20), StreamEntry("C", "t", <<"null">>, 1, 30)>> >>

Shapers == <<Shaped10, Slow, Null, Fields("cbs_class_a" :> Cbs(0))>>

Loops(links, streams, a, b) ==
    Fields("nodes" :> Entries(<<NodeEntry("e", "ecu", Ports2(Null, Null)),
                                NodeEntry("s", "switch", Ports2(a, b)),
                                NodeEntry("t", "switch", Ports2(Slow, a))>>)
      @@ "links" :> Entries(links) @@ "streams" :> Entries(streams))

LoopFiles ==
    LET xs == Pairs(Pairs(LinkSets, StreamSets), Pairs(<<Shaped10, Slow>>, Shapers))
    IN  [i \in DOMAIN xs |-> Loops(xs[i][1][1], xs[i][1][2], xs[i][2][1], xs[i][2][2])]

(* Two ids, once as near to each other as they can be, and what collides.  *)
SomeServices == <<Service(1, 0, 1, "e"), Service(0, 7, 1, "s"), Service(1, 0, 2, "s"),
                  Service(1, 0, 1, "t"), Service(1, 0, 2, "e")>>

ServiceFiles ==
    LET ss == UptoThree(SomeServices)
    IN  [i \in DOMAIN ss |-> Fields("someip_services" :> Entries(ss[i]))]

MCDocuments == FieldFiles \o NodeFiles \o DomainFiles \o LoopFiles \o ServiceFiles

MCLinkLists == {<<>>} \cup UNION {Reading[f]["links"] : f \in DOMAIN MCDocuments}

(* What RuleEngine assumes of topologies holds of all that the parser      *)
(* makes of these files.                                                   *)
ASSUME ParserMakesTopologies == Engine!TopologiesType
=============================================================================
