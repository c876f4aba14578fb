-------------------------- MODULE OperationRecords --------------------------
(***************************************************************************)
(* The records that requests move through their states: a job of the job   *)
(* registry and an output of the report spool                              *)
(* (app/services/unified_operations.py), and an operator's command         *)
(* (command_history.py).                                                   *)
(*                                                                         *)
(* A request reads the record, refuses to leave a final state of a job or  *)
(* an output, and commits the columns that changed.  A command may be      *)
(* completed any number of times.                                          *)
(***************************************************************************)
EXTENDS FiniteSets, Orm

CONSTANTS
  Requests       (* requests that change a record                          *)

VARIABLES
  record,        (* the committed job, output and command                  *)
  request,       (* what each request has in hand                          *)
  tardy          (* history: of each record, the requests under way when   *)
                 (* it was last written                                    *)

recordVars == <<record, request, tardy>>
-----------------------------------------------------------------------------
RecordKinds == {"job", "output", "command"}
JobStates == {"queued", "running", "succeeded", "failed", "cancelled"}
ReportStates == {"queued", "delivered", "expired"}
Completions == {"succeeded", "failed", "cancelled"}
Terminal(kind) ==
  CASE kind = "job" -> {"succeeded", "failed", "cancelled"}
    [] kind = "output" -> {"delivered", "expired"}
    [] kind = "command" -> {}

(* A command is completed with one of three words and, whichever it is,    *)
(* with any result or none; all results count as one, "given".  Jobs and   *)
(* outputs have no result.                                                 *)
Wanted(kind) ==
  CASE kind = "job" -> [status : JobStates, result : {"empty"}]
    [] kind = "output" -> [status : ReportStates, result : {"empty"}]
    [] kind = "command" -> [status : Completions, result : {"empty", "given"}]
Record ==
  [status : JobStates \cup ReportStates \cup {"accepted"}, result : {"empty", "given"}]

NoRequest == [at |-> "away"]
InHand(kind) == [at : {"write"}, kind : {kind}, loaded : Record, wants : Wanted(kind)]

RecordsInit ==
  /\ record = [k \in RecordKinds |->
                 [status |-> IF k = "command" THEN "accepted" ELSE "queued", result |-> "empty"]]
  /\ request = [r \in Requests |-> NoRequest]
  /\ tardy = [k \in RecordKinds |-> {}]
-----------------------------------------------------------------------------
(* transition_job, change_output and complete_command up to the commit.    *)
MayChangeAnything(kind, row, wants) == TRUE

MayChange(kind, row, wants) == row.status \in Terminal(kind) => wants.status = row.status

ReadRecord(r, kind) ==
  /\ request[r] = NoRequest
  /\ \E wants \in Wanted(kind) :
       /\ MayChange(kind, record[kind], wants)
       /\ request' = [request EXCEPT ![r] =
                        [at |-> "write", kind |-> kind, loaded |-> record[kind], wants |-> wants]]
  /\ UNCHANGED <<record, tardy>>

Of(kind) == {r \in Requests : request[r] # NoRequest /\ request[r].kind = kind}
Answered(r) == request' = [request EXCEPT ![r] = NoRequest]

Rewritten(row, loaded, wants) ==
  [status |-> Written(row.status, loaded.status, wants.status),
   result |-> Written(row.result, loaded.result, wants.result)]

WriteRecord(r) ==
  LET mine == request[r] IN
    /\ mine.at = "write"
    /\ record' = [record EXCEPT ![mine.kind] = Rewritten(@, mine.loaded, mine.wants)]
    /\ tardy' = [tardy EXCEPT ![mine.kind] = Of(mine.kind) \ {r}]
    /\ Answered(r)

LoseRequest(r) ==
  /\ request[r] # NoRequest
  /\ Answered(r)
  /\ tardy' = [k \in RecordKinds |-> tardy[k] \ {r}]
  /\ UNCHANGED record

RecordsNext ==
  \E r \in Requests : WriteRecord(r) \/ LoseRequest(r) \/ \E k \in RecordKinds : ReadRecord(r, k)

RecordsSpec == RecordsInit /\ [][RecordsNext]_recordVars
-----------------------------------------------------------------------------
(***************************************************************************)
(* Properties.                                                             *)
(***************************************************************************)
(* The records and the requests keep their types.                          *)
RecordsTypeOK ==
  /\ record \in [RecordKinds -> Record]
  /\ request \in [Requests -> {NoRequest} \cup UNION {InHand(k) : k \in RecordKinds}]
  /\ tardy \in [RecordKinds -> SUBSET Requests]
  /\ \A k \in RecordKinds : tardy[k] \subseteq Of(k)

(* A job or an output leaves a final state only through a request that had *)
(* read it before ("terminal job cannot transition",                       *)
(* unified_operations.py:31).                                              *)
OnlyTardyRequestsReopen ==
  [][\A k \in RecordKinds :
       record[k].status \in Terminal(k) /\ record'[k] # record[k] =>
         \E r \in tardy[k] : request'[r] = NoRequest]_recordVars
=============================================================================
