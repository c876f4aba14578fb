----------------------------- MODULE MCProgress -----------------------------
(* The components whose scheduling promises progress, one at a time: the   *)
(* circuit breaker, the health polls, the start of a process and the       *)
(* checkpoints of its runtime.  They share no row; `followed` says which   *)
(* one moves.  The polls are followed three times: with everything that    *)
(* surrounds them, with both troubles, and with two loops.                 *)
EXTENDS CircuitBreaker, ServiceHealth, SystemCatalog, Checkpoint

CONSTANTS
  o1, s1, s2,    (* an organization, two systems                           *)
  p1, p2         (* poll loops                                             *)

VARIABLE
  followed       (* what moves                                             *)

OwnerOfAll == [s \in Systems |-> o1]
SmallPayload == {o1, s1, s2, <<s1, s2>>}

allVars == <<followed, vars, healthVars, catalogVars, checkpointVars>>

(* Whose polls find what.                                                  *)
Cast ==
  [health |-> [finds |-> {"healthy", "offline"}, loops |-> {p1}],
   troubles |-> [finds |-> Findings, loops |-> {p1}],
   overlap |-> [finds |-> {"healthy", "offline"}, loops |-> {p1, p2}]]

(* Away from "health" the policy covers everything, no event comes, and    *)
(* nobody escalates or signals.                                            *)
HealthStep ==
  LET cast == Cast[followed] IN
    /\ HealthNext
    /\ condition' \in cast.finds
    /\ \A p \in Pollers \ cast.loops : poll'[p] = NoPoll
    /\ \A o \in Operators :
         desk'[o] # NoWork => desk'[o].alert \in cast.finds
    /\ IF followed = "health" THEN covered' \subseteq cast.finds
       ELSE /\ covered' = covered /\ incidents'[EventTrouble] = "none"
            /\ \A o \in Operators :
                 desk'[o] # NoWork => desk'[o].at = "write" /\ ~ desk'[o].wants.escalated

ProgressInit ==
  /\ followed \in {"circuit", "catalog", "checkpoint"} \cup DOMAIN Cast
  /\ Init
  /\ HealthInit
  /\ IF followed \in DOMAIN Cast
     THEN /\ condition \in Cast[followed].finds /\ covered \subseteq Cast[followed].finds
          /\ followed # "health" => covered = Cast[followed].finds \ {"healthy"}
     ELSE condition = "healthy" /\ covered = {}
  /\ CatalogInit
  /\ CheckpointInit

ProgressNext ==
  \/ /\ followed = "circuit" /\ Next
     /\ UNCHANGED <<followed, healthVars, catalogVars, checkpointVars>>
  \/ /\ followed \in DOMAIN Cast /\ HealthStep
     /\ UNCHANGED <<followed, vars, catalogVars, checkpointVars>>
  \/ /\ followed = "catalog" /\ CatalogNext
     /\ UNCHANGED <<followed, vars, healthVars, checkpointVars>>
  \/ /\ followed = "checkpoint" /\ CheckpointNext
     /\ UNCHANGED <<followed, vars, healthVars, catalogVars>>

(* The fairness of each component, while it is the one that moves.         *)
ProgressSpec ==
  /\ ProgressInit /\ [][ProgressNext]_allVars
  /\ \A c \in Steady : WF_vars(followed = "circuit" /\ Works(c))
  /\ \A p \in Pollers :
       WF_healthVars(followed \in DOMAIN Cast /\ p \in Cast[followed].loops /\ PollStep(p))
  /\ \A h \in Hosts : WF_catalogVars(followed = "catalog" /\ BootStep(h))
  /\ WF_checkpointVars(followed = "checkpoint" /\ LoopBegins)
  /\ SF_checkpointVars(followed = "checkpoint" /\ SaveSelect(Loop))
  /\ SF_checkpointVars(followed = "checkpoint" /\ SaveCommit(Loop))

(* HostsComeUp, when the hosts are what moves.                             *)
HostsAllComeUp == followed = "catalog" => HostsComeUp
=============================================================================
