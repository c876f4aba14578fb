--------------------------- MODULE SystemCatalog ----------------------------
(***************************************************************************)
(* The registries of organizations, systems and dependencies               *)
(* (app/services/control_plane.py), the requests that write them, and the  *)
(* bootstrap that fills them when a process starts                         *)
(* (registry_bootstrap.py).                                                *)
(*                                                                         *)
(* Every upsert reads a row by its key and commits an INSERT or an UPDATE. *)
(* Of two INSERTs of a key the second is refused: a request answers 500,   *)
(* and a process that was starting does not start.  No table refers to     *)
(* another by a foreign key, and no row is ever deleted.                   *)
(***************************************************************************)
EXTENDS Naturals, FiniteSets, Orm

CONSTANTS
  Organizations,
  Systems,
  Owner,         (* owner_organization_key of each system of the payload   *)
  Payload,       (* the keys of REGISTRY_BOOTSTRAP_JSON                    *)
  Strict,        (* registry_bootstrap_strict                              *)
  Hosts,         (* processes that start                                   *)
  Registrars,    (* requests that register a key                           *)
  MaxCrashes     (* bound: crashes of the hosts                            *)

(* The keys of the three tables; <<s, t>> says that s depends on t.        *)
Keys == Organizations \cup Systems \cup (Systems \X Systems)

ASSUME CatalogAssumption ==
  /\ Payload \subseteq Keys
  /\ (Organizations \cup Systems) \cap (Systems \X Systems) = {}
  /\ Strict \in BOOLEAN
  /\ Hosts \cap Registrars = {}
  /\ MaxCrashes \in Nat

VARIABLES
  catalog,       (* of each key, who wrote its row last                    *)
  upsert,        (* the upsert that each host and registrar has in hand    *)
  host,          (* of each host, whether it is up and what it has done    *)
  crashes        (* how often a host has crashed                           *)

catalogVars == <<catalog, upsert, host, crashes>>
-----------------------------------------------------------------------------
Writers == {"nobody", "bootstrap", "operator"}
Free == [at |-> "free"]
Upsert == {Free} \cup [at : {"write"}, key : Keys, loaded : Writers]
Down == [up |-> FALSE, done |-> {}]

CatalogInit ==
  /\ catalog = [k \in Keys |-> "nobody"]
  /\ upsert = [a \in Hosts \cup Registrars |-> Free]
  /\ host = [h \in Hosts |-> Down]
  /\ crashes = 0
-----------------------------------------------------------------------------
(***************************************************************************)
(* The upserts.                                                            *)
(***************************************************************************)
Reads(a, key) ==
  upsert' = [upsert EXCEPT ![a] = [at |-> "write", key |-> key, loaded |-> catalog[key]]]
Accepted(a) == upsert[a].loaded = "nobody" => catalog[upsert[a].key] = "nobody"
Writes(a, writer) ==
  catalog' = [catalog EXCEPT ![upsert[a].key] =
                IF upsert[a].loaded = "nobody" THEN writer
                ELSE Written(@, upsert[a].loaded, writer)]
Ends(a) == upsert' = [upsert EXCEPT ![a] = Free]

(* The routes refuse a system that depends on itself, and nothing else.    *)
Register(r, key) ==
  /\ upsert[r] = Free
  /\ \A s \in Systems : key # <<s, s>>
  /\ Reads(r, key)
  /\ UNCHANGED <<catalog, host, crashes>>

RegisterWrites(r) ==
  /\ upsert[r].at = "write"
  /\ IF Accepted(r) THEN Writes(r, "operator") ELSE UNCHANGED catalog
  /\ Ends(r)
  /\ UNCHANGED <<host, crashes>>
-----------------------------------------------------------------------------
(***************************************************************************)
(* The bootstrap.                                                          *)
(***************************************************************************)
(* validate_registry_bootstrap                                             *)
Valid ==
  /\ \A s \in Payload \cap Systems : Owner[s] \in Payload
  /\ \A s, t \in Systems : <<s, t>> \in Payload => s # t /\ {s, t} \subseteq Payload

(* The organizations come first, then the systems, then the dependencies.  *)
Rank(k) == CASE k \in Organizations -> 1 [] k \in Systems -> 2 [] OTHER -> 3
NextKeys(done) == {k \in Payload \ done : \A j \in Payload \ done : Rank(k) <= Rank(j)}

BootReads(h) ==
  /\ ~ host[h].up
  /\ upsert[h] = Free
  /\ Strict => Valid
  /\ \E k \in NextKeys(host[h].done) : Reads(h, k)
  /\ UNCHANGED <<catalog, host, crashes>>

(* A refused INSERT ends the start; the supervisor starts the process      *)
(* again, from the beginning.                                              *)
BootWritesWhenItCan(h) ==
  /\ upsert[h].at = "write"
  /\ Accepted(h)
  /\ Writes(h, "bootstrap")
  /\ host' = [host EXCEPT ![h].done = @ \cup {upsert[h].key}]
  /\ Ends(h)
  /\ UNCHANGED crashes

BootWrites(h) ==
  /\ upsert[h].at = "write"
  /\ IF Accepted(h)
     THEN Writes(h, "bootstrap") /\ host' = [host EXCEPT ![h].done = @ \cup {upsert[h].key}]
     ELSE host' = [host EXCEPT ![h] = Down] /\ UNCHANGED catalog
  /\ Ends(h)
  /\ UNCHANGED crashes

BootEndsEarly(h) ==
  /\ ~ host[h].up
  /\ upsert[h] = Free
  /\ Strict => Valid
  /\ host' = [host EXCEPT ![h].up = TRUE]
  /\ UNCHANGED <<catalog, upsert, crashes>>

BootEnds(h) ==
  /\ ~ host[h].up
  /\ upsert[h] = Free
  /\ Strict => Valid
  /\ host[h].done = Payload
  /\ host' = [host EXCEPT ![h].up = TRUE]
  /\ UNCHANGED <<catalog, upsert, crashes>>

Crash(h) ==
  /\ crashes < MaxCrashes
  /\ crashes' = crashes + 1
  /\ host' = [host EXCEPT ![h] = Down]
  /\ Ends(h)
  /\ UNCHANGED catalog
-----------------------------------------------------------------------------
BootStep(h) == BootReads(h) \/ BootWrites(h) \/ BootEnds(h)

CatalogNext ==
  \/ \E h \in Hosts : BootStep(h) \/ Crash(h)
  \/ \E r \in Registrars :
       RegisterWrites(r) \/ \E k \in Keys : Register(r, k)

CatalogSpec == CatalogInit /\ [][CatalogNext]_catalogVars

(* A process that is starting goes on, and one that failed is started      *)
(* again.                                                                  *)
CatalogFairness == \A h \in Hosts : WF_catalogVars(BootStep(h))
-----------------------------------------------------------------------------
(***************************************************************************)
(* Properties.                                                             *)
(***************************************************************************)
(* The tables, the upserts and the hosts keep their types, and a host does *)
(* nothing twice.                                                          *)
CatalogTypeOK ==
  /\ catalog \in [Keys -> Writers]
  /\ upsert \in [Hosts \cup Registrars -> Upsert]
  /\ host \in [Hosts -> [up : BOOLEAN, done : SUBSET Payload]]
  /\ crashes \in 0 .. MaxCrashes
  /\ \A h \in Hosts : upsert[h] # Free => upsert[h].key \in Payload \ host[h].done

(* A process that is up has the whole payload registered, whoever started  *)
(* next to it and whatever operators registered meanwhile.                 *)
UpHasPayload == \A h \in Hosts : host[h].up => \A k \in Payload : catalog[k] # "nobody"

(* Under strict validation the bootstrap never leaves a dependency         *)
(* dangling, wherever it crashes: a dependency it wrote last names two     *)
(* registered systems.                                                     *)
BootstrapNeverDangles ==
  Strict => \A s, t \in Systems :
              catalog[<<s, t>>] = "bootstrap" =>
                catalog[s] # "nobody" /\ catalog[t] # "nobody"

BootLeavesWhole == UpHasPayload /\ BootstrapNeverDangles

(* Two hosts that start together refuse each other's INSERTs, but only as  *)
(* many times as there are keys: once nothing crashes, both come up.       *)
HostsComeUp == \A h \in Hosts : (Strict => Valid) => <>[](host[h].up)
=============================================================================
