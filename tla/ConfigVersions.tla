--------------------------- MODULE ConfigVersions ---------------------------
(***************************************************************************)
(* One configuration key: its row in `configuration_registry`, the history *)
(* of its versions in `configuration_versions`, and the sessions that set  *)
(* it or roll it back (app/services/control_plane.py).                     *)
(*                                                                         *)
(* Both operations edit the row object and then ask for the highest        *)
(* version.  That SELECT flushes the edit first: its UPDATE, when there is *)
(* a column to write, keeps the row until the commit, and so does the      *)
(* INSERT of a first row.  An edit that changes nothing writes nothing and *)
(* keeps nothing.  The version itself is inserted by the commit, where the *)
(* unique constraint uq_config_version may refuse it.                      *)
(***************************************************************************)
EXTENDS Naturals, Sequences, Orm

CONSTANTS
  Editors,       (* sessions that set the key or roll it back              *)
  Values,        (* JSON values                                            *)
  Authors,       (* principals                                             *)
  MaxVersions    (* bound: versions of the key                             *)

ASSUME BoundAssumption == MaxVersions \in Nat

VARIABLES
  config,        (* the committed row, if there is one                     *)
  versions,      (* the committed history; version n is versions[n]        *)
  edit,          (* what each session has in hand                          *)
  keeps          (* the session that keeps the row, if there is one        *)

configVars == <<config, versions, edit, keeps>>
-----------------------------------------------------------------------------
Config == [value : Values, secret : BOOLEAN, by : Authors]
ConfigRows == {{}} \cup {{row} : row \in Config}

(* `set` and `kept` are history: whether the UPDATE or INSERT of the edit  *)
(* wrote the value, and whether it wrote anything at all.                  *)
ConfigVersion == [value : Values, by : Authors, set : BOOLEAN, kept : BOOLEAN]

NoEdit == [at |-> "idle"]
Edit ==
  {NoEdit}
    \cup [at : {"flush"}, wants : Config, loaded : ConfigRows]
    \cup [at : {"commit"}, wants : Config, loaded : ConfigRows, version : 1 .. MaxVersions]

ConfigInit ==
  /\ config = {}
  /\ versions = <<>>
  /\ edit = [e \in Editors |-> NoEdit]
  /\ keeps = {}
-----------------------------------------------------------------------------
Releases(e) == keeps' = keeps \ {e}
StopsEditing(e) == edit' = [edit EXCEPT ![e] = NoEdit]

(* upsert_configuration up to the edit of the row object.                  *)
SetConfiguration(e) ==
  /\ edit[e] = NoEdit
  /\ \E wants \in Config :
       edit' = [edit EXCEPT ![e] = [at |-> "flush", wants |-> wants, loaded |-> config]]
  /\ UNCHANGED <<config, versions, keeps>>

(* rollback_configuration: the value comes from the version, and the row   *)
(* keeps its is_secret_reference.  A version that does not exist is a      *)
(* LookupError.                                                            *)
RollbackConfiguration(e) ==
  /\ edit[e] = NoEdit
  /\ \E version \in DOMAIN versions, row \in config, by \in Authors :
       edit' = [edit EXCEPT ![e] =
                 [at |-> "flush", loaded |-> config,
                  wants |-> [value |-> versions[version].value,
                             secret |-> row.secret, by |-> by]]]
  /\ UNCHANGED <<config, versions, keeps>>

(* _next_config_version.  Of two first rows the unique key of the registry *)
(* refuses the second, once the first is committed.                        *)
Changes(e) == edit[e].loaded # {edit[e].wants}

NextConfigVersionUnheld(e) ==
  /\ edit[e].at = "flush"
  /\ Len(versions) < MaxVersions
  /\ Changes(e) => (edit[e].loaded = {} => config = {})
  /\ keeps' = IF Changes(e) THEN {e} ELSE keeps
  /\ edit' = [edit EXCEPT ![e] = [at |-> "commit", wants |-> edit[e].wants,
                                  loaded |-> edit[e].loaded, version |-> Len(versions) + 1]]
  /\ UNCHANGED <<config, versions>>

NextConfigVersion(e) ==
  /\ edit[e].at = "flush"
  /\ Len(versions) < MaxVersions
  /\ Changes(e) => keeps = {} /\ (edit[e].loaded = {} => config = {})
  /\ keeps' = IF Changes(e) THEN {e} ELSE keeps
  /\ edit' = [edit EXCEPT ![e] = [at |-> "commit", wants |-> edit[e].wants,
                                  loaded |-> edit[e].loaded, version |-> Len(versions) + 1]]
  /\ UNCHANGED <<config, versions>>

RefusedRow(e) ==
  /\ edit[e].at = "flush"
  /\ edit[e].loaded = {}
  /\ config # {}
  /\ StopsEditing(e)
  /\ UNCHANGED <<config, versions, keeps>>

(* The commit: the version is inserted and the flushed columns appear.     *)
Edited(e) ==
  IF edit[e].loaded = {} THEN {edit[e].wants}
  ELSE {[value |-> Written(row.value, mine.value, edit[e].wants.value),
         secret |-> Written(row.secret, mine.secret, edit[e].wants.secret),
         by |-> Written(row.by, mine.by, edit[e].wants.by)] :
          row \in config, mine \in edit[e].loaded}
SetsValue(e) == \A mine \in edit[e].loaded : mine.value # edit[e].wants.value

CommitOfHistoryOnly(e) ==
  /\ edit[e].at = "commit"
  /\ edit[e].version = Len(versions) + 1
  /\ versions' = Append(versions, [value |-> edit[e].wants.value, by |-> edit[e].wants.by,
                                   set |-> SetsValue(e), kept |-> Changes(e)])
  /\ config' = IF config = {} THEN Edited(e) ELSE config
  /\ StopsEditing(e)
  /\ Releases(e)

CommitConfiguration(e) ==
  /\ edit[e].at = "commit"
  /\ edit[e].version = Len(versions) + 1
  /\ versions' = Append(versions, [value |-> edit[e].wants.value, by |-> edit[e].wants.by,
                                   set |-> SetsValue(e), kept |-> Changes(e)])
  /\ config' = Edited(e)
  /\ StopsEditing(e)
  /\ Releases(e)

RefusedVersion(e) ==
  /\ edit[e].at = "commit"
  /\ edit[e].version \in DOMAIN versions
  /\ StopsEditing(e)
  /\ Releases(e)
  /\ UNCHANGED <<config, versions>>

(* The process dies, or the request times out: the session rolls back.     *)
AbandonEdit(e) ==
  /\ edit[e] # NoEdit
  /\ StopsEditing(e)
  /\ Releases(e)
  /\ UNCHANGED <<config, versions>>

ConfigNext ==
  \E e \in Editors :
    \/ SetConfiguration(e) \/ RollbackConfiguration(e) \/ NextConfigVersion(e)
    \/ RefusedRow(e) \/ CommitConfiguration(e) \/ RefusedVersion(e) \/ AbandonEdit(e)

ConfigSpec == ConfigInit /\ [][ConfigNext]_configVars
-----------------------------------------------------------------------------
(***************************************************************************)
(* Properties.                                                             *)
(***************************************************************************)
(* The row, the history and the sessions keep their types, at most one     *)
(* session keeps the row, and there is a row exactly when there is a       *)
(* version.                                                                *)
ConfigTypeOK ==
  /\ config \in ConfigRows
  /\ versions \in Seq(ConfigVersion)
  /\ Len(versions) <= MaxVersions
  /\ edit \in [Editors -> Edit]
  /\ keeps \in {{}} \cup {{e} : e \in Editors}
  /\ config = {} <=> versions = <<>>

(* The value in force is always that of the newest version whose edit      *)
(* really set it: the history explains the value, whatever overlapped.     *)
(* The newest version of all may name another value, when it was submitted *)
(* unchanged next to an edit.                                              *)
LastSet(n) == versions[n].set /\ \A later \in n + 1 .. Len(versions) : ~ versions[later].set
ValueInForceIsRecorded ==
  \A row \in config :
    \E n \in DOMAIN versions : LastSet(n) /\ row.value = versions[n].value

(* An edit that has changed the row can be refused its version number only *)
(* by edits that changed nothing: those that change the row take their     *)
(* numbers in the order in which they keep it, although the number is read *)
(* long before it is inserted.                                             *)
KeeperHasItsNumber ==
  \A e \in keeps :
    \A n \in edit[e].version .. Len(versions) : ~ versions[n].kept
=============================================================================
