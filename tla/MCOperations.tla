---------------------------- MODULE MCOperations ----------------------------
(* The operations of the control plane, one component at a time: they      *)
(* share no row, so that a behaviour of all of them is a behaviour of each *)
(* of them.  `focus` says which one is followed; the others rest.          *)
EXTENDS ConfigVersions, EventDelivery, ServiceHealth, SystemCatalog,
        DependencyImpact, OperationRecords, Missions, Releases,
        Flows

CONSTANTS
  o1, s1, s2, n1 (* an organization, two systems, a system of a graph      *)

VARIABLE
  focus          (* the component that is followed                         *)

OwnerOfAll == [s \in Systems |-> o1]
SmallPayload == {o1, s1, s2, <<s1, s2>>}

Init ==
  /\ focus \in {"config", "delivery", "health", "catalog", "impact", "records",
               "missions", "releases", "flows"}
  /\ ConfigInit
  /\ DeliveryInit
  /\ HealthInit
  /\ focus # "health" => condition = "healthy" /\ covered = {}
  /\ CatalogInit
  /\ ImpactInit
  /\ focus # "impact" => edges = {} /\ failing = n1
  /\ RecordsInit
  /\ MissionInit
  /\ ReleaseInit
  /\ FlowInit

Next ==
  \/ /\ focus = "config" /\ ConfigNext
     /\ UNCHANGED <<focus, deliveryVars, healthVars, catalogVars, impactVars, recordVars,
                    missionVars, releaseVars, flowVars>>
  \/ /\ focus = "delivery" /\ DeliveryNext
     /\ UNCHANGED <<focus, configVars, healthVars, catalogVars, impactVars, recordVars,
                    missionVars, releaseVars, flowVars>>
  \/ /\ focus = "health" /\ HealthNext
     /\ ~ reliable' /\ covered' = covered      \* all may fail, under any policy
     /\ UNCHANGED <<focus, configVars, deliveryVars, catalogVars, impactVars, recordVars,
                    missionVars, releaseVars, flowVars>>
  \/ /\ focus = "catalog" /\ CatalogNext
     /\ UNCHANGED <<focus, configVars, deliveryVars, healthVars, impactVars, recordVars,
                    missionVars, releaseVars, flowVars>>
  \/ /\ focus = "impact" /\ ImpactNext
     /\ UNCHANGED <<focus, configVars, deliveryVars, healthVars, catalogVars, recordVars,
                    missionVars, releaseVars, flowVars>>
  \/ /\ focus = "records" /\ RecordsNext
     /\ UNCHANGED <<focus, configVars, deliveryVars, healthVars, catalogVars, impactVars,
                    missionVars, releaseVars, flowVars>>
  \/ /\ focus = "missions" /\ MissionNext
     /\ UNCHANGED <<focus, configVars, deliveryVars, healthVars, catalogVars, impactVars,
                    recordVars, releaseVars, flowVars>>
  \/ /\ focus = "releases" /\ ReleaseNext
     /\ UNCHANGED <<focus, configVars, deliveryVars, healthVars, catalogVars, impactVars,
                    recordVars, missionVars, flowVars>>
  \/ /\ focus = "flows" /\ FlowNext
     /\ UNCHANGED <<focus, configVars, deliveryVars, healthVars, catalogVars, impactVars,
                    recordVars, missionVars, releaseVars>>

Spec ==
  Init /\ [][Next]_<<focus, configVars, deliveryVars, healthVars, catalogVars,
                     impactVars, recordVars, missionVars, releaseVars, flowVars>>
-----------------------------------------------------------------------------
(* Every component keeps its types and its bounds.                         *)
OperationsTypeOK ==
  /\ ConfigTypeOK
  /\ DeliveryTypeOK
  /\ HealthTypeOK
  /\ CatalogTypeOK
  /\ ImpactTypeOK
  /\ RecordsTypeOK
  /\ MissionTypeOK
  /\ ReleaseTypeOK
  /\ FlowTypeOK

(* Only a request that acted on what it had read earlier undoes what was   *)
(* settled: a sender whose answer comes late, or a request that read a job *)
(* or an output before it became terminal.                                 *)
OnlyTheLateUndo == OnlyLateSendersUndeliver /\ OnlyTardyRequestsReopen
=============================================================================
