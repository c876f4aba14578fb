------------------------------ MODULE Releases ------------------------------
(***************************************************************************)
(* What runs, as two services of the foundation runtime keep it: the       *)
(* over-the-air updates of a platform (app/services/ota_manager.py), with  *)
(* an update that may be staged at any moment, also between the reboot and *)
(* its verification, and the staged promotion of the releases of a model   *)
(* (app/services/mlops_lifecycle.py).  The verification of signature,      *)
(* platform and digest is its outcome.  A version is named by its          *)
(* manifest; `Factory` is the version of the platform's first start.       *)
(***************************************************************************)

CONSTANTS
  Manifests,     (* UpdateManifest                                         *)
  Factory,       (* the version before any update                          *)
  NoManifest,    (* staged_manifest = None, previous_version = None        *)
  ModelReleases, (* versions of one model_id                               *)
  NoRelease      (* no entry in _production                                *)

ASSUME ReleasesAssumption == NoManifest \notin Manifests

VARIABLES
  update,        (* OtaRollbackManager                                     *)
  marked,        (* history: what was staged when the reboot was marked    *)
  stage,         (* _models: the stage of a release, "absent" before       *)
  production     (* _production[model_id]                                  *)

otaVars == <<update, marked>>
mlopsVars == <<stage, production>>
releaseVars == <<otaVars, mlopsVars>>

UpdateState ==
  {"idle", "staged", "pending_reboot", "verifying", "committed", "rolled_back", "rejected"}

Running == Manifests \cup {Factory}

ReleaseInit ==
  /\ update = [state |-> "idle", current |-> Factory, staged |-> NoManifest, previous |-> NoManifest]
  /\ marked = NoManifest
  /\ stage = [r \in ModelReleases |-> "absent"]
  /\ production = NoRelease
-----------------------------------------------------------------------------
(***************************************************************************)
(* OtaRollbackManager.                                                     *)
(***************************************************************************)

(* stage, from any state: a verified manifest replaces what was staged.    *)
StageBehindTheReboot(m) ==
  update' = [update EXCEPT !.staged = m,
                           !.state = IF @ = "pending_reboot" THEN @ ELSE "staged"]
StageVerified(m) == update' = [update EXCEPT !.staged = m, !.state = "staged"]

(* A rejected one leaves what was staged, and no way to it but to stage it *)
(* again.                                                                  *)
StageRejected == update' = [update EXCEPT !.state = "rejected"]

Stage(m) == (StageVerified(m) \/ StageRejected) /\ UNCHANGED marked

MarkRebootPending ==
  /\ update.state = "staged"
  /\ update' = [update EXCEPT !.previous = update.current, !.state = "pending_reboot"]
  /\ marked' = update.staged

BeginBootVerification ==
  /\ update.state = "pending_reboot"
  /\ update' = [update EXCEPT !.state = "verifying"]
  /\ UNCHANGED marked

CompleteBootVerification(healthy) ==
  /\ update.state = "verifying"
  /\ update' = IF healthy
               THEN [update EXCEPT !.current = update.staged, !.state = "committed"]
               ELSE [update EXCEPT !.current = update.previous, !.state = "rolled_back"]
  /\ UNCHANGED marked

OtaNext ==
  \/ \E m \in Manifests : Stage(m)
  \/ MarkRebootPending
  \/ BeginBootVerification
  \/ \E healthy \in BOOLEAN : CompleteBootVerification(healthy)
-----------------------------------------------------------------------------
(***************************************************************************)
(* MLOpsLifecycle.                                                         *)
(***************************************************************************)

ModelStage == {"registered", "shadow", "canary", "production", "rolled_back", "retired"}

(* register: in whatever stage the caller gives the release.  One that is  *)
(* brought in as "production" is in that stage and production does not     *)
(* point to it.                                                            *)
RegisterRelease(r, given) ==
  /\ stage[r] = "absent"
  /\ stage' = [stage EXCEPT ![r] = given]
  /\ UNCHANGED production

AllowedStages ==
  [registered  |-> {"shadow", "retired"},
   shadow      |-> {"canary", "retired"},
   canary      |-> {"production", "rolled_back"},
   production  |-> {"rolled_back", "retired"},
   rolled_back |-> {"shadow", "retired"},
   retired     |-> {}]

(* promote: production points to the release promoted last and to nothing  *)
(* once that one is withdrawn, though an earlier release was never taken   *)
(* out of its stage.                                                       *)
Promote(r, target) ==
  /\ stage[r] # "absent"
  /\ target \in AllowedStages[stage[r]]
  /\ stage' = [stage EXCEPT ![r] = target]
  /\ production' = IF target = "production" THEN r
                   ELSE IF production = r /\ target \in {"rolled_back", "retired"} THEN NoRelease
                   ELSE production

MlopsNext ==
  \/ \E r \in ModelReleases, given \in ModelStage : RegisterRelease(r, given)
  \/ \E r \in ModelReleases, target \in ModelStage : Promote(r, target)

ReleaseNext ==
  \/ OtaNext /\ UNCHANGED mlopsVars
  \/ MlopsNext /\ UNCHANGED otaVars

ReleaseSpec == ReleaseInit /\ [][ReleaseNext]_releaseVars
-----------------------------------------------------------------------------
(* The manager and the lifecycle hold what their fields may hold.          *)
ReleaseTypeOK ==
  /\ update \in [state : UpdateState, current : Running,
                 staged : Manifests \cup {NoManifest}, previous : Running \cup {NoManifest}]
  /\ marked \in Manifests \cup {NoManifest}
  /\ stage \in [ModelReleases -> ModelStage \cup {"absent"}]
  /\ production \in ModelReleases \cup {NoRelease}

(* A boot verifies, and a commit makes current, the very manifest that was *)
(* staged when the reboot was marked, whatever was staged or rejected      *)
(* since; a failed boot returns to what ran before it.  The release in     *)
(* production is in that stage, however releases were promoted over and    *)
(* withdrawn around one another.                                           *)
WhatRunsWasReleased ==
  /\ update.state \in {"pending_reboot", "verifying"} =>
       /\ update.staged = marked /\ marked # NoManifest
       /\ update.previous = update.current
  /\ update.state = "committed" => update.current = marked
  /\ update.state = "rolled_back" => update.current = update.previous
  /\ production # NoRelease => stage[production] = "production"
=============================================================================
