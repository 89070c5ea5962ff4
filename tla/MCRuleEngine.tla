---------------------------- MODULE MCRuleEngine ----------------------------
(***************************************************************************)
(* Instances of RuleEngine for TLC: a network of two ECUs (e, f) and two   *)
(* switches (s, t) that is in order, and every topology that differs from  *)
(* it by some links and by one or two defects of the kinds the rules look  *)
(* for (or skip).                                                          *)
(***************************************************************************)
EXTENDS RuleClaims

CONSTANTS e, f, s, t, p1, p2, p3

At(n, p)   == [node |-> n, port |-> p]
Wire(g, h) == [src |-> g, dst |-> h]

(* A spine e - s - t - f, a second attachment of each ECU, a second trunk  *)
(* and the spine's trunk declared a second time, the other way round.      *)
Spine  == <<Wire(At(e, p1), At(s, p1)), Wire(At(s, p2), At(t, p2)), Wire(At(t, p1), At(f, p1))>>
EtoT   == Wire(At(t, p3), At(e, p2))
StoF   == Wire(At(s, p3), At(f, p2))
Again  == Wire(At(t, p2), At(s, p2))

(* Each ECU on both switches, and no trunk between them.                   *)
Ring   == <<Spine[1], StoF, EtoT, Spine[3]>>

BaseLists == {Spine, <<Spine[1], Spine[2]>>, Ring, Append(Spine, EtoT)}
MCLinkLists == BaseLists \cup {Append(L, l) : L \in BaseLists, l \in {EtoT, StoF, Again}}

-----------------------------------------------------------------------------
(* A port in order for the streams below.                                  *)
Shaper == [idle |-> 10, send |-> -1, hi |-> 1, lo |-> -1]
Permit(id, ip) == [stream |-> id, ip |-> ip, action |-> "permit"]

GoodPort == [vlans |-> {10}, pvid |-> 10, tagged |-> TRUE, storm |-> TRUE, macsec |-> TRUE,
             cbs_a |-> {Shaper}, cbs_b |-> {Shaper}, tas |-> {[gcl |-> TRUE, cycle |-> 1]},
             firewall |-> {Permit("A", 0), Permit("", 7)}, rate |-> 100]

Hops4 == {h \in Hop : /\ h.node \in {e, f} => h.port # p3}

Good == [links |-> Spine,
         type |-> (e :> "ECU" @@ f :> "ECU" @@ s :> "SWITCH" @@ t :> "SWITCH"),
         port |-> [h \in Hops4 |-> GoodPort],
         domain |-> (e :> "body" @@ s :> "body" @@ t :> "drive" @@ f :> "drive"),
         groups |-> {[switch |-> s, ip |-> 7], [switch |-> t, ip |-> 7]},
         streams |-> <<>>, services |-> <<>>]

(* Defects.                                                                *)
WithPort(tp, h, c) == [tp EXCEPT !.port = [@ EXCEPT ![h] = c]]
Without(fn, x)     == [y \in DOMAIN fn \ {x} |-> fn[y]]

PortDefects(c) == {[c EXCEPT !.vlans = {}], [c EXCEPT !.tagged = FALSE, !.pvid = 1],
                   [c EXCEPT !.storm = FALSE], [c EXCEPT !.macsec = FALSE],
                   [c EXCEPT !.cbs_a = {}], [c EXCEPT !.cbs_a = {[Shaper EXCEPT !.idle = 0]}],
                   [c EXCEPT !.cbs_a = {[Shaper EXCEPT !.idle = 2, !.hi = 0]}],
                   [c EXCEPT !.cbs_b = {[Shaper EXCEPT !.send = 0, !.lo = 0]}],
                   [c EXCEPT !.tas = {}], [c EXCEPT !.tas = {[gcl |-> FALSE, cycle |-> 0]}],
                   [c EXCEPT !.firewall = {[Permit("A", 7) EXCEPT !.action = "deny"]}],
                   [c EXCEPT !.firewall = {Permit("B", 0), Permit("T", 8)}],      \* of others
                   [c EXCEPT !.rate = 50]}

Unprotected(tp)  == [tp EXCEPT !.port = [h \in DOMAIN @ |-> [GoodPort EXCEPT !.macsec = FALSE]]]
Undeclare(tp, n) == [tp EXCEPT !.type = Without(@, n),
                               !.port = [h \in {g \in DOMAIN @ : g.node # n} |-> @[h]]]

Defective(tp) ==
    {WithPort(tp, h, c) : h \in {At(s, p2), At(t, p2), At(t, p3), At(f, p1)}, c \in PortDefects(GoodPort)}
      \cup {[tp EXCEPT !.port = Without(@, h)] : h \in {At(s, p2), At(t, p1)}}
      \cup {[tp EXCEPT !.groups = {g \in @ : g.switch # n}] : n \in {s, t}}
      \cup {[tp EXCEPT !.domain = Without(@, n)] : n \in {s, t}}
      \cup {[tp EXCEPT !.domain = [@ EXCEPT ![n] = ""]] : n \in {s, t}}
      \cup {[Unprotected(tp) EXCEPT !.domain = [@ EXCEPT ![s] = ""]]}   \* hides the boundary
      \cup {Undeclare(tp, n) : n \in {t, f}}

-----------------------------------------------------------------------------
(* Streams: a multicast class-A stream with a budget, a class-B one, a TAS *)
(* one without VLAN, a second class-A stream and one with the same id.     *)
StreamA == [id |-> "A", src |-> e, dsts |-> {f}, vlan |-> 10, mcast |-> 7, class |-> 1,
            bandwidth |-> 40, safety |-> 1, budget_us |-> 4]
StreamB == [StreamA EXCEPT !.id = "B", !.src = f, !.dsts = {e, t}, !.mcast = 0, !.class = 2,
                           !.safety = 0]
StreamT == [StreamB EXCEPT !.id = "T", !.vlan = 0, !.class = 3, !.dsts = {e}]
StreamC == [StreamA EXCEPT !.id = "C", !.mcast = 0, !.src = f, !.dsts = {e}, !.safety = 0,
                           !.budget_us = 0]
StreamD == [StreamC EXCEPT !.id = "A", !.dsts = {t}, !.bandwidth = 10]    \* StreamA's id
StreamS == [StreamC EXCEPT !.id = "S", !.src = s, !.dsts = {f}, !.bandwidth = 0]  \* from a switch

Streamsets == {<<StreamA, StreamB, StreamT>>, <<StreamA, StreamC>>, <<StreamD, StreamA>>,
               <<StreamC, StreamS>>}

(* SOME/IP services: two ids, two ECUs, two ports.                         *)
Svc(i, n, p) == [service |-> i, instance |-> 1, ecu |-> n, port |-> p]
Services == {Svc(i, n, p) : i \in {1, 2}, n \in {e, f}, p \in {80, 81}}
Servicesets == UNION {[1..k -> Services] : k \in 0..3}

-----------------------------------------------------------------------------
Wired == {[Good EXCEPT !.links = L, !.streams = ss] : L \in BaseLists, ss \in Streamsets}

WithServices == {[Good EXCEPT !.services = sv] : sv \in Servicesets}

MCTopologies == Wired \cup UNION {Defective(w) : w \in Wired} \cup WithServices

(* The second file of --diff declares one more link.                       *)
MCEdits(tp) == {[tp EXCEPT !.links = Append(@, l)] : l \in {m \in {EtoT, StoF, Again} :
                   Append(tp.links, m) \in MCLinkLists}}

(* For the claims: the networks in order.                                  *)
NoEdits(tp) == {tp}
MCClaimTopologies == {[Good EXCEPT !.links = L, !.streams = ss] : L \in MCLinkLists, ss \in Streamsets}

(* Thresholds scaled down: 75 percent of the rate, at most one switch hop, *)
(* a frame of 20 bits on shapers of 10 and 2 kbps.                         *)
MCConfig == [limit |-> [num |-> 3, den |-> 4], max_hops |-> 1, prop_delay_ns |-> 1,
             frame_ns_kbps |-> 20, ns_per_us |-> 1, word |-> 1024]

(* What NothingFixed asks of an edit (RuleEngineProofs).                   *)
ASSUME LinksAreAdded == EditsAddLinks

AllRules   == {<<>>}
SomeFilters == {<<>>, <<"SD001", "ORPH001">>, <<"SD001", "NOPE", "TOPO002">>}
=============================================================================
