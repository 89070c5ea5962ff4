------------------------------ MODULE ServiceLoop ------------------------------
(***************************************************************************)
(* SomeIPCollisionRule::check, turn by turn                                *)
(* (src/rules/someip_collision.cpp): what it remembers of the services it  *)
(* has seen is the first provider of every id and the ports of every ECU.  *)
(***************************************************************************)
EXTENDS StreamWalk

VARIABLES service_instance_map,   \* service and instance, as one number |-> ECU
          ecu_port_map            \* pairs of an ECU and a port it uses

services == <<service_instance_map, ecu_port_map>>

(* The bug: the service id is not shifted far enough.                      *)
IdKeyNarrow(svc) == svc.service * Largest.u16 + svc.instance

(* (service_id << 16) | instance_id                                        *)
IdKey(svc) == svc.service * (Largest.u16 + 1) + svc.instance

PortKey(svc) == <<svc.ecu, svc.port>>

CollisionAt(i, what) == Violation("ERROR", "SD001", NoName, parsed.someip_services[i].ecu, NoName, <<what, i>>)

IdUsed(svc)     == IdKey(svc) \in DOMAIN service_instance_map
IdCollides(svc) == IdUsed(svc) /\ service_instance_map[IdKey(svc)] # svc.ecu
PortUsed(svc)   == PortKey(svc) \in ecu_port_map

CheckService ==
    /\ at < Len(parsed.someip_services)
    /\ at' = at + 1
    /\ LET svc == parsed.someip_services[at + 1] IN
         /\ violations' = violations \cup When(IdCollides(svc), CollisionAt(at + 1, "id"))
                                     \cup When(PortUsed(svc), CollisionAt(at + 1, "port"))
         /\ service_instance_map' =
              IF IdUsed(svc) THEN service_instance_map
              ELSE Enter(service_instance_map, IdKey(svc), svc.ecu)
         /\ ecu_port_map' = ecu_port_map \cup {PortKey(svc)}
    /\ UNCHANGED <<paths, path, hop>>

ServiceStep == Running("SD001") /\ CheckService
ServiceDone == Running("SD001") /\ at = Len(parsed.someip_services)
=============================================================================
