-------------------------- MODULE DependencyImpact --------------------------
(***************************************************************************)
(* The walk that finds which systems the failure of one would hit:         *)
(* dependency_impact of app/services/control_center.py.                    *)
(*                                                                         *)
(* The rows of `system_dependencies` are read once.  Nothing keeps them    *)
(* free of cycles, and a system on a cycle is among those its own failure  *)
(* hits.                                                                   *)
(***************************************************************************)
EXTENDS FiniteSets

CONSTANTS
  Nodes          (* system keys                                            *)

VARIABLES
  edges,         (* the rows: <<s, t>> says that s depends on t            *)
  failing,       (* the system asked about                                 *)
  impacted,      (* the set that the walk collects                         *)
  frontier       (* its list of systems to visit                           *)

impactVars == <<edges, failing, impacted, frontier>>
-----------------------------------------------------------------------------
Direct(s) == {t \in Nodes : <<t, s>> \in edges}

ImpactInit ==
  /\ edges \in SUBSET (Nodes \X Nodes)
  /\ failing \in Nodes
  /\ impacted = Direct(failing)
  /\ frontier = Direct(failing)

(* One turn of the while: the dependents of a system that were not         *)
(* impacted yet now are, and will be visited.                              *)
FoundNothing(s) == {}

Found(s) == Direct(s) \ impacted

WalkStep ==
  /\ \E s \in frontier :
       /\ impacted' = impacted \cup Found(s)
       /\ frontier' = (frontier \ {s}) \cup Found(s)
  /\ UNCHANGED <<edges, failing>>

ImpactNext == WalkStep

ImpactSpec == ImpactInit /\ [][ImpactNext]_impactVars

-----------------------------------------------------------------------------
(***************************************************************************)
(* Properties.                                                             *)
(***************************************************************************)
(* What waits for a visit has been found.                                  *)
ImpactTypeOK ==
  /\ edges \subseteq Nodes \X Nodes
  /\ failing \in Nodes
  /\ impacted \subseteq Nodes
  /\ frontier \subseteq impacted

(* A finished walk holds exactly the systems that depend on the failing    *)
(* one through any number of dependencies, whatever cycles there are: the  *)
(* least set that is closed under dependency.                              *)
Closed(S) == \A s, t \in Nodes : (s = failing \/ s \in S) /\ <<t, s>> \in edges => t \in S
ImpactIsLeastClosed ==
  frontier = {} =>
    /\ Closed(impacted)
    /\ \A S \in SUBSET Nodes : Closed(S) => impacted \subseteq S

=============================================================================
