------------------------------ MODULE LatencyLoop ------------------------------
(***************************************************************************)
(* LatencyBudgetRule::check, turn by turn (src/rules/latency_budget.cpp).  *)
(* The delay of a path is summed in an unsigned word of 64 bits, to which  *)
(* a signed propagation delay is added.                                    *)
(***************************************************************************)
EXTENDS StreamWalk

VARIABLES total_delay_ns,     \* of the path that is being walked
          path_coherent,      \* every shaper so far could be timed
          counted_switches    \* nodes of the path that have been counted

latency == <<total_delay_ns, path_coherent, counted_switches>>

WithBudget == {s \in Range(parsed.streams) : s.class = 1 /\ s.budget_us # 0}

EnterBudgeted == EnterStream(WithBudget) /\ UNCHANGED <<violations, latency>>

(* The bug: the set is declared outside the loop over the paths.           *)
EnterTimedPathKeepsSet ==
    /\ EnterPath
    /\ total_delay_ns' = 0
    /\ path_coherent' = TRUE
    /\ UNCHANGED <<violations, counted_switches>>

EnterTimedPath ==
    /\ EnterPath
    /\ total_delay_ns' = 0
    /\ path_coherent' = TRUE
    /\ counted_switches' = {}
    /\ UNCHANGED violations

(* A node the file does not declare is taken for a switch.                 *)
Counts == /\ Here.port # NoName
          /\ TypeFound(Here.node) # {"ECU"}
          /\ Here.node \notin counted_switches

(* The bug: an ECU on the way makes the loop wait for ever.                *)
PassStays == OnHop /\ ~Counts /\ UNCHANGED <<walk, violations, latency>>

Pass == /\ OnHop
        /\ ~Counts
        /\ NextHop
        /\ UNCHANGED <<violations, latency>>

Remember == counted_switches' = counted_switches \cup {Here.node}

(* A port that is not declared: its node is not counted again.             *)
CountUnknown == /\ OnHop
                /\ Counts
                /\ ~HasPort(Here)
                /\ Remember
                /\ NextHop
                /\ UNCHANGED <<violations, total_delay_ns, path_coherent>>

Timed(port) == \E c \in port.cbs_a : c.idle > 0

AddDelay(port) ==
    \E c \in port.cbs_a :
      total_delay_ns' =
        (total_delay_ns + Config.frame_ns_kbps \div c.idle + Config.prop_delay_ns) % Config.word

TimeHop == /\ OnHop
           /\ Counts
           /\ HasPort(Here)
           /\ Timed(PortOf(Here))
           /\ Remember
           /\ AddDelay(PortOf(Here))
           /\ NextHop
           /\ UNCHANGED <<violations, path_coherent>>

GiveUp == /\ OnHop
          /\ Counts
          /\ HasPort(Here)
          /\ ~Timed(PortOf(Here))
          /\ Remember
          /\ path_coherent' = FALSE
          /\ BreakPath
          /\ UNCHANGED <<violations, total_delay_ns>>

TotalUs == total_delay_ns \div Config.ns_per_us

JudgePath == /\ LeavePath
             /\ violations' = violations \cup
                  When(path_coherent /\ TotalUs > Stream.budget_us,
                       Violation("ERROR", "LAT001", Stream.id, NoName, NoName, TotalUs))
             /\ UNCHANGED latency

LatencyStep ==
    /\ Running("LAT001")
    /\ \/ EnterBudgeted \/ EnterTimedPath \/ Pass \/ CountUnknown \/ TimeHop \/ GiveUp \/ JudgePath

LatencyDone == Running("LAT001") /\ AllStreams
=============================================================================
