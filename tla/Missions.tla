------------------------------ MODULE Missions ------------------------------
(***************************************************************************)
(* The mission workflow of the foundation runtime                          *)
(* (app/services/mission_workflow.py): tasks are added with the tasks they *)
(* depend on, become ready when those are completed, and are driven        *)
(* through their states.  A task is taken over in whatever state its       *)
(* caller gives it.  What a task depends on may be added later, never or   *)
(* in a cycle; priorities only order what `ready` lists.                   *)
(***************************************************************************)

CONSTANT
  Tasks          (* the task ids                                           *)

VARIABLES
  task,          (* _tasks: the state of a task, "absent" when not added   *)
  depends,       (* WorkflowTask.dependencies                              *)
  brought        (* history: the tasks added in a state past pending       *)

missionVars == <<task, depends, brought>>

TaskState ==
  {"pending", "ready", "running", "paused", "completed", "cancelled", "failed"}

MissionInit ==
  /\ task = [t \in Tasks |-> "absent"]
  /\ depends = [t \in Tasks |-> {}]
  /\ brought = {}

(* add: the caller's task with the caller's state, which nothing checks    *)
(* against the tasks it depends on.                                        *)
AddTask(t, needed, given) ==
  /\ task[t] = "absent"
  /\ t \notin needed
  /\ task' = [task EXCEPT ![t] = given]
  /\ depends' = [depends EXCEPT ![t] = needed]
  /\ brought' = IF given = "pending" THEN brought ELSE brought \cup {t}

(* What a task depends on: a task that was not added is not completed.     *)
MetUnlessAdded(t) == \A d \in depends[t] : task[d] \in {"absent", "completed"}
Met(t) == \A d \in depends[t] : task[d] = "completed"

(* refresh_readiness looks at every task once; none that it makes ready is *)
(* completed by that.                                                      *)
RefreshReadiness ==
  /\ task' = [t \in Tasks |->
                IF task[t] = "pending" /\ Met(t) THEN "ready" ELSE task[t]]
  /\ UNCHANGED <<depends, brought>>

(* The table of transition.  A failed task is ready again without a look   *)
(* at what it depends on.                                                  *)
AllowedTransitions ==
  [pending   |-> {"cancelled"},
   ready     |-> {"running", "cancelled"},
   running   |-> {"paused", "completed", "failed", "cancelled"},
   paused    |-> {"running", "cancelled"},
   completed |-> {},
   cancelled |-> {},
   failed    |-> {"ready", "cancelled"}]

Transition(t, target) ==
  /\ task[t] # "absent"
  /\ target \in AllowedTransitions[task[t]]
  /\ task' = [task EXCEPT ![t] = target]
  /\ UNCHANGED <<depends, brought>>

MissionNext ==
  \/ \E t \in Tasks, needed \in SUBSET Tasks, given \in TaskState : AddTask(t, needed, given)
  \/ RefreshReadiness
  \/ \E t \in Tasks, target \in TaskState : Transition(t, target)

MissionSpec == MissionInit /\ [][MissionNext]_missionVars
-----------------------------------------------------------------------------
(* Tasks are in their states, and what is not added depends on nothing.    *)
MissionTypeOK ==
  /\ task \in [Tasks -> TaskState \cup {"absent"}]
  /\ depends \in [Tasks -> SUBSET Tasks]
  /\ brought \in SUBSET Tasks

(* What the engine itself has begun, of the tasks it was given pending.    *)
Begun ==
  {t \in Tasks \ brought : task[t] \in {"ready", "running", "paused", "completed", "failed"}}

(* What the engine begins rests on completed work only, also after a       *)
(* failure and a second start, although neither looks at the dependencies  *)
(* again, and whatever states other tasks were brought in with; and it     *)
(* rests on solid ground: no group of tasks that the engine began waits    *)
(* for one another, whatever cycles or unknown tasks the dependencies      *)
(* name.  A task that add takes over past pending is its caller's affair.  *)
BegunOnCompletedWork ==
  /\ \A t \in Begun : \A d \in depends[t] : task[d] = "completed"
  /\ \A group \in (SUBSET Begun) \ {{}} : \E t \in group : depends[t] \cap group = {}
=============================================================================
