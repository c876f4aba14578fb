----------------------------- MODULE Checkpoint -----------------------------
(***************************************************************************)
(* The foundation runtime of a process, the row of `foundation_state` that *)
(* keeps a snapshot of it, and everybody who saves that row                *)
(* (app/services/foundation_checkpoint.py): the handlers that report and   *)
(* clear faults, the checkpoint loop, and the last checkpoint of a         *)
(* shutdown.  A process starts from the row.                               *)
(*                                                                         *)
(* A snapshot is taken before the first await of a save, so that savers    *)
(* that overlap may commit in another order than they looked.  `version`   *)
(* counts the changes of the runtime.  It stands for the counters and time *)
(* stamps of the payload, thanks to which no two states of a process have  *)
(* the same payload.                                                       *)
(***************************************************************************)
EXTENDS Naturals, FiniteSets, Orm

CONSTANTS
  Faults,        (* pairs of component and code                            *)
  Handlers,      (* requests that report or clear a fault                  *)
  Loop,          (* the checkpoint loop                                    *)
  Shutdown,      (* the checkpoint of the shutdown                         *)
  MaxVersion     (* bound: changes of the runtime                          *)

ASSUME SaversAssumption ==
  /\ Loop # Shutdown
  /\ {Loop, Shutdown} \cap Handlers = {}
ASSUME VersionsAssumption == MaxVersion \in Nat

Savers == Handlers \cup {Loop, Shutdown}

VARIABLES
  phase,         (* of the process: "down", "up" or "stopping"             *)
  runtime,       (* its faults and its version                             *)
  shown,         (* the system mode that the HMI shows                     *)
  stored,        (* the table: the row, if there is one                    *)
  save,          (* what each saver has in hand                            *)
  settled        (* history: the last version written with no older        *)
                 (* snapshot under way                                     *)

checkpointVars == <<phase, runtime, shown, stored, save, settled>>
-----------------------------------------------------------------------------
Severities == {"info", "degraded", "critical"}
Runtime == [faults : [Faults -> Severities \cup {"none"}], version : 0 .. MaxVersion]
Fresh == [faults |-> [f \in Faults |-> "none"], version |-> 0]

(* FaultSupervisor.system_mode                                             *)
SystemMode(faults) ==
  LET severities == {faults[f] : f \in Faults} IN
    IF "critical" \in severities THEN "safe_degraded"
    ELSE IF "degraded" \in severities THEN "degraded" ELSE "nominal"

Tables == {{}} \cup {{row} : row \in Runtime}
Save == [at : {"idle", "select", "commit"}, snapshot : Runtime, loaded : Tables]
NoSave == [at |-> "idle", snapshot |-> Fresh, loaded |-> {}]

Begins(s, snapshot) ==
  save' = [save EXCEPT ![s] = [at |-> "select", snapshot |-> snapshot, loaded |-> {}]]
SaveEnds(s) == save' = [save EXCEPT ![s] = NoSave]
Busy == {s \in Savers : save[s] # NoSave}

CheckpointInit ==
  /\ phase = "down"
  /\ runtime = Fresh
  /\ shown = "nominal"
  /\ stored = {}
  /\ save = [s \in Savers |-> NoSave]
  /\ settled = 0
-----------------------------------------------------------------------------
(* The life of a process.  ProcessStart is lifespan up to the loops: a     *)
(* fresh runtime is hydrated from the row.                                 *)
HydratedNot ==
  /\ phase = "down"
  /\ phase' = "up"
  /\ runtime' = Fresh
  /\ UNCHANGED <<stored, save, settled>>

Hydrated ==
  /\ phase = "down"
  /\ phase' = "up"
  /\ \/ stored = {} /\ runtime' = Fresh
     \/ \E row \in stored : runtime' = row
  /\ UNCHANGED <<stored, save, settled>>

ProcessStart == Hydrated /\ shown' = SystemMode(runtime'.faults)

(* The server has drained its requests; the loop still runs.               *)
ProcessStop ==
  /\ phase = "up"
  /\ \A h \in Handlers : save[h] = NoSave
  /\ phase' = "stopping"
  /\ Begins(Shutdown, runtime)
  /\ UNCHANGED <<runtime, shown, stored, settled>>

ProcessDown ==
  /\ phase' = "down"
  /\ save' = [s \in Savers |-> NoSave]
  /\ UNCHANGED <<runtime, shown, stored, settled>>

(* The loop is cancelled when the last checkpoint has ended.               *)
ProcessStopped == phase = "stopping" /\ save[Shutdown] = NoSave /\ ProcessDown

ProcessCrash == phase # "down" /\ ProcessDown
-----------------------------------------------------------------------------
(* The handlers change the runtime, show its mode and take the snapshot    *)
(* before they first wait.                                                 *)
Changed(faults) ==
  /\ runtime' = [faults |-> faults, version |-> runtime.version + 1]
  /\ shown' = SystemMode(faults)

ReportFault(h, f, severity) ==
  /\ phase = "up"
  /\ save[h] = NoSave
  /\ runtime.version < MaxVersion
  /\ Changed([runtime.faults EXCEPT ![f] = severity])
  /\ Begins(h, runtime')
  /\ UNCHANGED <<phase, stored, settled>>

(* Clearing a fault that is not there is saved all the same.               *)
ClearFault(h, f) ==
  /\ phase = "up"
  /\ save[h] = NoSave
  /\ \/ /\ runtime.faults[f] # "none"
        /\ runtime.version < MaxVersion
        /\ Changed([runtime.faults EXCEPT ![f] = "none"])
     \/ runtime.faults[f] = "none" /\ UNCHANGED <<runtime, shown>>
  /\ Begins(h, runtime')
  /\ UNCHANGED <<phase, stored, settled>>

LoopBeginsOnce ==
  /\ phase # "down"
  /\ save[Loop] = NoSave
  /\ stored = {}
  /\ Begins(Loop, runtime)
  /\ UNCHANGED <<phase, runtime, shown, stored, settled>>

LoopBegins ==
  /\ phase # "down"
  /\ save[Loop] = NoSave
  /\ Begins(Loop, runtime)
  /\ UNCHANGED <<phase, runtime, shown, stored, settled>>
-----------------------------------------------------------------------------
(***************************************************************************)
(* save_state.                                                             *)
(***************************************************************************)

SaveSelect(s) ==
  /\ save[s].at = "select"
  /\ save' = [save EXCEPT ![s].at = "commit", ![s].loaded = stored]
  /\ UNCHANGED <<phase, runtime, shown, stored, settled>>

Older(s) == {t \in Busy : save[t].snapshot.version < save[s].snapshot.version}
Settles(s) ==
  settled' = IF Older(s) = {} /\ save[s].snapshot.version > settled
             THEN save[s].snapshot.version ELSE settled

(* A snapshot equal to the row that was loaded is not written.  Of two     *)
(* savers that found no row, the unique key refuses the second.            *)
SaveCommit(s) ==
  LET mine == save[s] IN
    /\ mine.at = "commit"
    /\ \/ /\ mine.loaded = {} /\ stored = {}
          /\ stored' = {mine.snapshot}
          /\ Settles(s)
       \/ /\ mine.loaded = {} /\ stored # {}
          /\ UNCHANGED <<stored, settled>>
       \/ /\ mine.loaded # {}
          /\ stored' = Written(stored, mine.loaded, {mine.snapshot})
          /\ IF mine.loaded = {mine.snapshot} THEN UNCHANGED settled ELSE Settles(s)
    /\ SaveEnds(s)
    /\ UNCHANGED <<phase, runtime, shown>>

(* The request timeout, or the database fails; the loop and the shutdown   *)
(* suppress the exception.                                                 *)
SaveFails(s) ==
  /\ save[s] # NoSave
  /\ SaveEnds(s)
  /\ UNCHANGED <<phase, runtime, shown, stored, settled>>

CheckpointNext ==
  \/ ProcessStart \/ ProcessStop \/ ProcessStopped \/ ProcessCrash
  \/ \E h \in Handlers, f \in Faults :
       ClearFault(h, f) \/ \E severity \in Severities : ReportFault(h, f, severity)
  \/ LoopBegins
  \/ \E s \in Savers : SaveSelect(s) \/ SaveCommit(s) \/ SaveFails(s)

CheckpointSpec == CheckpointInit /\ [][CheckpointNext]_checkpointVars

(* The loop polls for ever, and the database does not fail it every time.  *)
CheckpointFairSpec ==
  /\ CheckpointSpec
  /\ WF_checkpointVars(LoopBegins)
  /\ SF_checkpointVars(SaveSelect(Loop)) /\ SF_checkpointVars(SaveCommit(Loop))
-----------------------------------------------------------------------------
(***************************************************************************)
(* Properties.                                                             *)
(***************************************************************************)

(* The row and the savers hold snapshots, and nobody saves for a process   *)
(* that is down.                                                           *)
CheckpointTypeOK ==
  /\ phase \in {"down", "up", "stopping"}
  /\ runtime \in Runtime
  /\ shown \in {"nominal", "degraded", "safe_degraded"}
  /\ stored \in Tables
  /\ save \in [Savers -> Save]
  /\ settled \in 0 .. MaxVersion
  /\ phase = "down" => Busy = {}

(* The HMI shows the mode that the active faults imply, before and after a *)
(* restart, whichever snapshot the process was started from ("degraded-    *)
(* mode reconstruction", docs/foundation_checkpointing.md).                *)
ModeShown == phase # "down" => shown = SystemMode(runtime.faults)

(* A change that was written while no older snapshot was under way is in   *)
(* the row, and in every process started from it, for ever: whatever is    *)
(* reported, cleared or saved later, whoever fails, crashes or restarts.   *)
SettledSurvives ==
  settled > 0 =>
    /\ \E row \in stored : row.version >= settled
    /\ phase # "down" => runtime.version >= settled

(* When a process stays up and its runtime stops changing, the row holds   *)
(* the runtime in the end, however many older snapshots were still under   *)
(* way.                                                                    *)
RowCatchesUp ==
  \A v \in 0 .. MaxVersion :
    <>[](phase = "up" /\ runtime.version = v) => <>[](stored = {runtime})
=============================================================================
