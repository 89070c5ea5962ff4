----------------------------- MODULE BandwidthLoop -----------------------------
(***************************************************************************)
(* BandwidthOversubscriptionRule::check, turn by turn                      *)
(* (src/rules/bandwidth_oversubscription.cpp).  Ports are known by the     *)
(* joined keys of build_indexes, and node and port of a violation are cut  *)
(* out of such a key again.                                                *)
(***************************************************************************)
EXTENDS StreamWalk

VARIABLES port_bandwidth,   \* key of a port |-> what its streams reserve
          counted,          \* stream id and key, joined: already added
          checked           \* keys already compared with the limit

bandwidth == <<port_bandwidth, counted, checked>>

Reserving == {s \in Range(parsed.streams) : s.class = 1 /\ s.bandwidth # 0}

HereKey == Key(Here.node, Here.port)

(* The bug: the stream is left out of what is remembered.                  *)
MarkOfPort(s, key) == key

Mark(s, key) == Key(s.id, key)

AtSwitchPort == Here.port # NoName /\ TypeFound(Here.node) = {"SWITCH"}

EnterReserving == /\ EnterStream(Reserving)
                  /\ UNCHANGED <<violations, bandwidth>>

EnterReservedPath == EnterPath /\ UNCHANGED <<violations, bandwidth>>

PassHop == /\ OnHop
           /\ ~AtSwitchPort \/ Mark(Stream, HereKey) \in counted
           /\ NextHop
           /\ UNCHANGED <<violations, bandwidth>>

Add(key, kbps) ==
    Enter(port_bandwidth, key, kbps + (IF key \in DOMAIN port_bandwidth THEN port_bandwidth[key] ELSE 0))

CountHop == /\ OnHop
            /\ AtSwitchPort
            /\ Mark(Stream, HereKey) \notin counted
            /\ port_bandwidth' = Add(HereKey, Stream.bandwidth)
            /\ counted' = counted \cup {Mark(Stream, HereKey)}
            /\ NextHop
            /\ UNCHANGED <<violations, checked>>

LeaveReservedPath == LeavePath /\ UNCHANGED <<violations, bandwidth>>

(* The key is cut at the first separator in it.                            *)
Separator(key) == CHOOSE i \in 1..Len(key) : /\ SubSeq(key, i, i + 1) = "::"
                                             /\ \A j \in 1..(i - 1) : SubSeq(key, j, j + 1) # "::"
NodePart(key) == SubSeq(key, 1, Separator(key) - 1)
PortPart(key) == SubSeq(key, Separator(key) + 2, Len(key))

PortAt(key) == parsed.nodes[port_index[key].node].ports[port_index[key].port]

Oversubscribed(key) == /\ key \in DOMAIN port_index
                       /\ port_bandwidth[key] > PortLimit(PortAt(key))

(* An unordered_map: the keys come in any order.                           *)
CheckPort == /\ AllStreams
             /\ \E key \in DOMAIN port_bandwidth \ checked :
                  /\ checked' = checked \cup {key}
                  /\ violations' = violations \cup
                       When(Oversubscribed(key),
                            Violation("ERROR", "BW001", NoName, NodePart(key), PortPart(key),
                                      port_bandwidth[key]))
             /\ UNCHANGED <<walk, port_bandwidth, counted>>

BandwidthStep ==
    /\ Running("BW001")
    /\ \/ EnterReserving \/ EnterReservedPath \/ PassHop \/ CountHop
       \/ LeaveReservedPath \/ CheckPort

BandwidthDone == Running("BW001") /\ AllStreams /\ checked = DOMAIN port_bandwidth
=============================================================================
