----------------------------- MODULE Scheduler -----------------------------
(***************************************************************************)
(* The job table of app/services/scheduler.py, the scheduler loops that    *)
(* claim and run its rows, and the API handlers that cancel a job or       *)
(* report its result (app/api/scheduler_routes.py).                        *)
(*                                                                         *)
(* A step of the model ends at an `await` on the database: a handler that  *)
(* reads a row and then commits it is two steps, and any other session may *)
(* commit in between (see Orm).  What the adapter does with a claimed job  *)
(* is left open here; module Execution fills it in.                        *)
(*                                                                         *)
(* Time is abstracted to the set `due` of the jobs whose next_attempt_at   *)
(* has passed.  Every next_attempt_at the code writes lies in the future,  *)
(* so writing the column takes the job out of `due`.                       *)
(***************************************************************************)
EXTENDS Naturals, FiniteSets, Orm

CONSTANTS
  Jobs,          (* job ids                                                *)
  ClientKeys,    (* idempotency keys that clients put in a payload         *)
  Uuids,         (* uuids for the keys of recurrences; a run bounds them   *)
  Workers,       (* scheduler loops, one per application process           *)
  Cancellers,    (* sessions of POST /v1/jobs/{id}/cancel                  *)
  Reporters,     (* sessions of POST /v1/jobs/{id}/result                  *)
  Limits,        (* values of max_attempts in use                          *)
  Repeats,       (* kinds of _repeat_interval_seconds in use               *)
  ClaimLimit,    (* rows one poll may claim                                *)
  MaxAttempts,   (* bound: no report on a job with that many attempts      *)
  MaxCrashes,    (* bound on process crashes and database errors           *)
  NoJob          (* the job of an idle session                             *)

Handlers == Cancellers \cup Reporters

(* No repetition, an interval of a minute or more, or a shorter one, which *)
(* only mark_job_result refuses.                                           *)
RepeatKinds == {"no", "minutes", "seconds"}

ASSUME NoJobAssumption == NoJob \notin Jobs
ASSUME KeysAssumption ==
  /\ Jobs \cap ClientKeys = {}
  /\ Uuids \cap (Jobs \cup ClientKeys) = {}
ASSUME LimitsAssumption == Limits \subseteq Nat \ {0}
ASSUME RepeatsAssumption == Repeats \subseteq RepeatKinds
ASSUME HandlersAssumption == Cancellers \cap Reporters = {}
ASSUME BoundsAssumption ==
  /\ ClaimLimit \in Nat \ {0}
  /\ MaxAttempts \in Nat
  /\ MaxCrashes \in Nat

VARIABLES
  jobs,          (* table scheduled_jobs                                   *)
  due,           (* the jobs with next_attempt_at <= now                   *)
  pc,            (* where each scheduler loop is                           *)
  batch,         (* the jobs each loop has claimed and not yet settled     *)
  current,       (* the job each loop is executing                         *)
  loaded,        (* the row objects in each loop's session                 *)
  request,       (* what each handler session has read and will commit     *)
  minted,        (* the uuids drawn so far                                 *)
  crashes,       (* process crashes and database errors so far             *)
  stranded       (* history: jobs a pass of a loop claimed and never settled *)

queueVars ==
  <<jobs, due, pc, batch, current, loaded, request, minted, crashes, stranded>>
-----------------------------------------------------------------------------
(***************************************************************************)
(* Rows.                                                                   *)
(***************************************************************************)

(* Without a key in the payload the adapter derives one from the job id,   *)
(* written here as the id itself; a recurrence stores one with a new uuid. *)
Keys == Jobs \cup ClientKeys \cup Uuids

Waiting  == {"queued", "scheduled", "retry_wait"}
Terminal == {"succeeded", "failed", "cancelled"}
Statuses == {"absent", "running"} \cup Waiting \cup Terminal

JobRow == [status : Statuses, attempts : Nat, limit : Nat,
           repeat : RepeatKinds, key : Keys]

Absent(j) == [status |-> "absent", attempts |-> 0, limit |-> 1,
              repeat |-> "no", key |-> j]

(* The UPDATE of a scheduled_jobs row; max_attempts and the repetition are *)
(* never edited.                                                           *)
FlushJob(stored, row, edited) ==
  [stored EXCEPT
     !.status   = Written(stored.status, row.status, edited.status),
     !.attempts = Written(stored.attempts, row.attempts, edited.attempts),
     !.key      = Written(stored.key, row.key, edited.key)]

(* mark_job_result on a row object: a recurring job that succeeded is      *)
(* rescheduled under a new key with its attempts reset.  (A definition     *)
(* named for what it does wrong is a mutant of the one it precedes.)       *)
Recurs(row, ok) == ok /\ row.repeat = "minutes"

Rescheduled(row, uuid) ==
  [row EXCEPT !.status = "scheduled", !.attempts = 0, !.key = uuid]

MarkedOnceTooOften(row, ok) ==
  [row EXCEPT !.status = IF ok THEN "succeeded"
                         ELSE IF row.attempts >= row.limit THEN "failed"
                         ELSE "retry_wait",
              !.attempts = @ + 1]

MarkedNotCounted(row, ok) ==
  [row EXCEPT !.status = IF ok THEN "succeeded"
                         ELSE IF row.attempts + 1 >= row.limit THEN "failed"
                         ELSE "retry_wait"]

MarkedStillRunning(row, ok) ==
  [row EXCEPT !.status = IF ok THEN "succeeded"
                         ELSE IF row.attempts + 1 >= row.limit THEN "failed"
                         ELSE row.status,
              !.attempts = @ + 1]

Marked(row, ok) ==
  [row EXCEPT !.status = IF ok THEN "succeeded"
                         ELSE IF row.attempts + 1 >= row.limit THEN "failed"
                         ELSE "retry_wait",
              !.attempts = @ + 1]

(* It raises ValueError, before anything is written, when a succeeded job  *)
(* asks to be repeated within less than a minute.                          *)
MarkRaises(row, ok) == ok /\ row.repeat = "seconds"

(* The commit of mark_job_result by a session that holds `row`.            *)
Mark(j, row, edited) ==
  /\ jobs' = [jobs EXCEPT ![j] = FlushJob(@, row, edited)]
  /\ due' = IF edited.status \in {"scheduled", "retry_wait"} THEN due \ {j} ELSE due

CommitMark(j, row, ok) ==
  \/ /\ Recurs(row, ok)
     /\ \E uuid \in Uuids \ minted :
          /\ Mark(j, row, Rescheduled(row, uuid))
          /\ minted' = minted \cup {uuid}
  \/ /\ ~Recurs(row, ok)
     /\ Mark(j, row, Marked(row, ok))
     /\ UNCHANGED minted
-----------------------------------------------------------------------------
NoRequest == [op |-> "none", job |-> NoJob]
Operations == {"cancel", "success", "failure"}
OpenRequest == [op : Operations, job : Jobs, row : JobRow]

Init ==
  /\ jobs = [j \in Jobs |-> Absent(j)]
  /\ due = {}
  /\ pc = [w \in Workers |-> "idle"]
  /\ batch = [w \in Workers |-> {}]
  /\ current = [w \in Workers |-> NoJob]
  /\ loaded = [w \in Workers |-> [j \in Jobs |-> Absent(j)]]
  /\ request = [h \in Handlers |-> NoRequest]
  /\ minted = {}
  /\ crashes = 0
  /\ stranded = {}

(* enqueue_job: one INSERT.  A job scheduled for the future is not due.  A *)
(* payload may carry a key of the client's, or the key of an occurrence    *)
(* when it was copied from a dead letter.                                  *)
Inserted(j, status, limit, repeat, key) ==
  /\ jobs[j].status = "absent"
  /\ jobs' = [jobs EXCEPT ![j] = [status |-> status, attempts |-> 0,
                                  limit |-> limit, repeat |-> repeat, key |-> key]]
  /\ due' = IF status = "queued" THEN due \cup {j} ELSE due

Enqueue(j) ==
  /\ \E status \in {"queued", "scheduled"}, limit \in Limits,
        repeat \in Repeats, key \in {j} \cup ClientKeys \cup minted :
        Inserted(j, status, limit, repeat, key)
  /\ UNCHANGED <<pc, batch, current, loaded, request, minted, crashes, stranded>>

(* Time passes until next_attempt_at of a waiting job.                     *)
BecomeDue(j) ==
  /\ jobs[j].status \in Waiting
  /\ j \notin due
  /\ due' = due \cup {j}
  /\ UNCHANGED <<jobs, pc, batch, current, loaded, request, minted, crashes, stranded>>
-----------------------------------------------------------------------------
(***************************************************************************)
(* The scheduler loop.                                                     *)
(***************************************************************************)

ClaimableUnlessDone == {j \in due : jobs[j].status \notin {"absent", "running", "succeeded", "failed"}}

Claimable == {j \in due : jobs[j].status \in Waiting}

(* claim_due_jobs, the SELECT: as many due rows as the limit allows.       *)
ClaimRead(w) ==
  /\ pc[w] = "idle"
  /\ \E S \in SUBSET Claimable :
       /\ S # {}
       /\ \/ S = Claimable /\ Cardinality(S) <= ClaimLimit
          \/ Cardinality(S) = ClaimLimit
       /\ batch' = [batch EXCEPT ![w] = S]
       /\ loaded' = [loaded EXCEPT ![w] =
                       [j \in Jobs |-> IF j \in S THEN jobs[j] ELSE Absent(j)]]
  /\ pc' = [pc EXCEPT ![w] = "claiming"]
  /\ UNCHANGED <<jobs, due, current, request, minted, crashes, stranded>>

(* claim_due_jobs, the commit: every selected row becomes running.         *)
ClaimCommit(w) ==
  /\ pc[w] = "claiming"
  /\ loaded' = [loaded EXCEPT ![w] =
                  [j \in Jobs |-> IF j \in batch[w]
                                  THEN [@[j] EXCEPT !.status = "running"] ELSE @[j]]]
  /\ jobs' = [j \in Jobs |-> IF j \in batch[w]
                             THEN FlushJob(jobs[j], loaded[w][j], loaded'[w][j])
                             ELSE jobs[j]]
  /\ pc' = [pc EXCEPT ![w] = "holding"]
  /\ UNCHANGED <<due, batch, current, request, minted, crashes, stranded>>

(* The loop takes the next claimed job to execute_claimed_job.             *)
Start(w, j) ==
  /\ pc[w] = "holding"
  /\ j \in batch[w]
  /\ pc' = [pc EXCEPT ![w] = "executing"]
  /\ current' = [current EXCEPT ![w] = j]
  /\ UNCHANGED <<jobs, due, batch, loaded, request, minted, crashes, stranded>>

(* execute_adapter returns, or raises an exception that                    *)
(* execute_claimed_job turns into a failed attempt.                        *)
AdapterEnds(w, ok) ==
  /\ pc[w] = "executing"
  /\ pc' = [pc EXCEPT ![w] = IF ok THEN "returned" ELSE "raised"]
  /\ UNCHANGED <<jobs, due, batch, current, loaded, request, minted, crashes, stranded>>

(* The session is closed and the loop goes back to sleep; what was left of *)
(* the batch is forgotten.                                                 *)
Drop(w) ==
  /\ stranded' = stranded \cup batch[w]
  /\ pc' = [pc EXCEPT ![w] = "idle"]
  /\ batch' = [batch EXCEPT ![w] = {}]
  /\ current' = [current EXCEPT ![w] = NoJob]
  /\ loaded' = [loaded EXCEPT ![w] = [j \in Jobs |-> Absent(j)]]

(* An exception that leaves execute_claimed_job ends the pass.             *)
Escape(w) ==
  /\ pc[w] = "executing"
  /\ Drop(w)
  /\ UNCHANGED <<jobs, due, request, minted, crashes>>

(* mark_job_result at the end of execute_claimed_job: db.get returns the   *)
(* object claimed in this session, not the row as it is now.               *)
Settle(w) ==
  LET j == current[w]
      row == loaded[w][j]
      ok == pc[w] = "returned"
  IN /\ pc[w] \in {"returned", "raised"}
     /\ ~MarkRaises(row, ok)
     /\ CommitMark(j, row, ok)
     /\ batch' = [batch EXCEPT ![w] = @ \ {j}]
     /\ current' = [current EXCEPT ![w] = NoJob]
     /\ loaded' = [loaded EXCEPT ![w][j] = Absent(j)]
     /\ pc' = [pc EXCEPT ![w] = IF batch[w] = {j} THEN "idle" ELSE "holding"]
     /\ UNCHANGED <<request, crashes, stranded>>

(* The interval is too short: ValueError escapes and ends the pass.        *)
SettleRaises(w) ==
  /\ pc[w] \in {"returned", "raised"}
  /\ MarkRaises(loaded[w][current[w]], pc[w] = "returned")
  /\ Drop(w)
  /\ UNCHANGED <<jobs, due, request, minted, crashes>>

(* The process dies and is restarted, or an error of the database ends the *)
(* pass; either way nothing looks for running rows afterwards.             *)
Crash(w) ==
  /\ pc[w] # "idle"
  /\ crashes < MaxCrashes
  /\ Drop(w)
  /\ crashes' = crashes + 1
  /\ UNCHANGED <<jobs, due, request, minted>>

-----------------------------------------------------------------------------
(***************************************************************************)
(* The API handlers.                                                       *)
(***************************************************************************)

Read(h, operation, j) ==
  /\ request[h] = NoRequest
  /\ jobs[j].status # "absent"
  /\ request' = [request EXCEPT ![h] = [op |-> operation, job |-> j, row |-> jobs[j]]]
  /\ UNCHANGED <<jobs, due, pc, batch, current, loaded, minted, crashes, stranded>>

(* cancel_job refuses a job it reads as terminal.                          *)
CancelRead(h, j) ==
  /\ jobs[j].status \notin Terminal
  /\ Read(h, "cancel", j)

CancelCommit(h) ==
  LET r == request[h] IN
    /\ r.op = "cancel"
    /\ jobs' = [jobs EXCEPT ![r.job] =
                  FlushJob(@, r.row, [r.row EXCEPT !.status = "cancelled"])]
    /\ request' = [request EXCEPT ![h] = NoRequest]
    /\ UNCHANGED <<due, pc, batch, current, loaded, minted, crashes, stranded>>

(* The result route looks at nothing but the job's existence.              *)
ReportRead(h, j) ==
  /\ jobs[j].attempts < MaxAttempts
  /\ \E ok \in BOOLEAN :
       /\ ~MarkRaises(jobs[j], ok)
       /\ Read(h, IF ok THEN "success" ELSE "failure", j)

ReportCommit(h) ==
  LET r == request[h] IN
    /\ r.op \in {"success", "failure"}
    /\ CommitMark(r.job, r.row, r.op = "success")
    /\ request' = [request EXCEPT ![h] = NoRequest]
    /\ UNCHANGED <<pc, batch, current, loaded, crashes, stranded>>

(* The request timeout of app/main.py cancels a handler between its        *)
(* statements.                                                             *)
RequestDropped(h) ==
  /\ request[h] # NoRequest
  /\ request' = [request EXCEPT ![h] = NoRequest]
  /\ UNCHANGED <<jobs, due, pc, batch, current, loaded, minted, crashes, stranded>>
-----------------------------------------------------------------------------
(* The steps that module Execution keeps as they are, and all of them.     *)
QueueStep ==
  \/ \E j \in Jobs : Enqueue(j) \/ BecomeDue(j)
  \/ \E w \in Workers : \/ ClaimRead(w) \/ ClaimCommit(w)
                        \/ Settle(w) \/ SettleRaises(w)
  \/ \E h \in Handlers : CancelCommit(h) \/ ReportCommit(h) \/ RequestDropped(h)
  \/ \E h \in Cancellers, j \in Jobs : CancelRead(h, j)
  \/ \E h \in Reporters, j \in Jobs : ReportRead(h, j)

Next ==
  \/ QueueStep
  \/ \E w \in Workers, j \in Jobs : Start(w, j)
  \/ \E w \in Workers, ok \in BOOLEAN : AdapterEnds(w, ok)
  \/ \E w \in Workers : Escape(w) \/ Crash(w)

Spec == Init /\ [][Next]_queueVars
-----------------------------------------------------------------------------
(***************************************************************************)
(* Properties.                                                             *)
(***************************************************************************)

PCs == {"idle", "claiming", "holding", "executing", "returned", "raised"}

(* The table, the sessions and the handlers hold what their columns and    *)
(* locals may hold.                                                        *)
TypeOK ==
  /\ jobs \in [Jobs -> JobRow]
  /\ due \subseteq Jobs
  /\ pc \in [Workers -> PCs]
  /\ batch \in [Workers -> SUBSET Jobs]
  /\ current \in [Workers -> Jobs \cup {NoJob}]
  /\ loaded \in [Workers -> [Jobs -> JobRow]]
  /\ request \in [Handlers -> OpenRequest \cup {NoRequest}]
  /\ minted \subseteq Uuids
  /\ crashes \in Nat
  /\ stranded \subseteq Jobs

(* The job j was claimed by the pass of w and is not settled yet.          *)
Held(w, j) == pc[w] # "claiming" /\ j \in batch[w]

(* claim_due_jobs never looks at running rows again, so a row may be       *)
(* running only while some loop still has it to settle, or after a pass    *)
(* ended without settling it: however claims, cancellations, reports and   *)
(* settlements overlap, no other row is left running for ever.             *)
RunningIsHeld ==
  \A j \in Jobs : jobs[j].status = "running" =>
    j \in stranded \/ \E w \in Workers : Held(w, j)

(* A job that does not repeat and whose results only the scheduler reports *)
(* waits for another attempt only while max_attempts leaves one, and       *)
(* counts as failed only when none is left: mark_job_result writes status  *)
(* and attempts together, also when two loops claimed the same row.        *)
AttemptsRationed ==
  Reporters = {} =>
    \A j \in Jobs : jobs[j].repeat # "minutes" =>
      /\ jobs[j].status \in Waiting => jobs[j].attempts < jobs[j].limit
      /\ jobs[j].status = "failed" => jobs[j].attempts >= jobs[j].limit

(* No loop selects a cancelled job, due or not, and it comes back only     *)
(* through a session that read it before the cancellation or a reported    *)
(* result.                                                                 *)
CancelSticks ==
  [][\A j \in Jobs : jobs[j].status = "cancelled" =>
       /\ \A w \in Workers : j \in batch'[w] => j \in batch[w]
       /\ jobs'[j].status # "cancelled" =>
            \/ \E w \in Workers : j \in batch[w]
            \/ \E h \in Reporters : request[h].job = j]_queueVars
=============================================================================
