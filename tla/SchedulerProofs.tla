-------------------------- MODULE SchedulerProofs --------------------------
(***************************************************************************)
(* What holds of the job table for every number of jobs, loops and API     *)
(* sessions, whatever the adapter does.                                    *)
(***************************************************************************)
EXTENDS Scheduler, TLAPS

-----------------------------------------------------------------------------
(***************************************************************************)
(* Rows.                                                                   *)
(***************************************************************************)

(* The row of a job that does not exist yet, and every row the code writes *)
(* back, is a row of the table.                                            *)
LEMMA AbsentType == \A j \in Jobs : Absent(j) \in JobRow
  BY DEF Absent, JobRow, Keys, Statuses, RepeatKinds

LEMMA FlushType ==
  ASSUME NEW stored \in JobRow, NEW row \in JobRow, NEW edited \in JobRow
  PROVE  FlushJob(stored, row, edited) \in JobRow
  BY DEF FlushJob, Written, JobRow

LEMMA EditTypes ==
  ASSUME NEW row \in JobRow
  PROVE  /\ [row EXCEPT !.status = "running"] \in JobRow
         /\ [row EXCEPT !.status = "cancelled"] \in JobRow
         /\ \A ok \in BOOLEAN : Marked(row, ok) \in JobRow
         /\ \A uuid \in Uuids : Rescheduled(row, uuid) \in JobRow
<1>1. [row EXCEPT !.status = "running"] \in JobRow
  BY DEF JobRow, Statuses
<1>2. [row EXCEPT !.status = "cancelled"] \in JobRow
  BY DEF JobRow, Statuses, Terminal
<1>3. ASSUME NEW ok \in BOOLEAN PROVE Marked(row, ok) \in JobRow
  <2> DEFINE s == IF ok THEN "succeeded"
                  ELSE IF row.attempts + 1 >= row.limit THEN "failed"
                  ELSE "retry_wait"
  <2>1. s \in Statuses
    BY DEF Statuses, Waiting, Terminal
  <2>2. row.attempts + 1 \in Nat
    BY DEF JobRow
  <2>3. Marked(row, ok) = [row EXCEPT !.status = s, !.attempts = row.attempts + 1]
    BY DEF Marked
  <2> HIDE DEF s
  <2> QED BY <2>1, <2>2, <2>3 DEF JobRow
<1>4. ASSUME NEW uuid \in Uuids PROVE Rescheduled(row, uuid) \in JobRow
  BY DEF Rescheduled, JobRow, Keys, Statuses, Waiting
<1> QED BY <1>1, <1>2, <1>3, <1>4

(* Whatever mark_job_result writes, it writes into one row, from `row`, an *)
(* edited row of one of four statuses.                                     *)
LEMMA CommitMarkType ==
  ASSUME TypeOK, NEW j \in Jobs, NEW row \in JobRow, NEW ok \in BOOLEAN,
         CommitMark(j, row, ok)
  PROVE  /\ jobs' \in [Jobs -> JobRow]
         /\ due' \subseteq Jobs
         /\ minted' \subseteq Uuids
<1>1. \A edited \in JobRow :
         Mark(j, row, edited) => jobs' \in [Jobs -> JobRow] /\ due' \subseteq Jobs
  <2> SUFFICES ASSUME NEW edited \in JobRow, Mark(j, row, edited)
               PROVE  jobs' \in [Jobs -> JobRow] /\ due' \subseteq Jobs
    OBVIOUS
  <2>1. FlushJob(jobs[j], row, edited) \in JobRow
    BY FlushType DEF TypeOK
  <2> QED BY <2>1 DEF Mark, TypeOK
<1>2. CASE Recurs(row, ok)
  BY <1>1, <1>2, EditTypes DEF CommitMark, TypeOK
<1>3. CASE ~Recurs(row, ok)
  BY <1>1, <1>3, EditTypes DEF CommitMark, TypeOK
<1> QED BY <1>2, <1>3
-----------------------------------------------------------------------------
(***************************************************************************)
(* Types.                                                                  *)
(***************************************************************************)

LEMMA InitType == Init => TypeOK
  BY AbsentType DEF Init, TypeOK, PCs, NoRequest

LEMMA DropType ==
  ASSUME TypeOK, NEW w \in Workers, Drop(w)
  PROVE  /\ stranded' \subseteq Jobs
         /\ pc' \in [Workers -> PCs]
         /\ batch' \in [Workers -> SUBSET Jobs]
         /\ current' \in [Workers -> Jobs \cup {NoJob}]
         /\ loaded' \in [Workers -> [Jobs -> JobRow]]
  BY AbsentType DEF Drop, TypeOK, PCs

(* A session holds a row of a job, or nothing.                             *)
LEMMA RequestType ==
  ASSUME TypeOK, NEW h \in Handlers, request[h] # NoRequest
  PROVE  /\ request[h].op \in Operations
         /\ request[h].job \in Jobs
         /\ request[h].row \in JobRow
  BY DEF TypeOK, OpenRequest

LEMMA ClaimCommitType ==
  ASSUME TypeOK, NEW w \in Workers, ClaimCommit(w)
  PROVE  TypeOK'
<1> DEFINE mine == [j \in Jobs |-> IF j \in batch[w]
                                   THEN [loaded[w][j] EXCEPT !.status = "running"]
                                   ELSE loaded[w][j]]
<1>1. mine \in [Jobs -> JobRow]
  BY EditTypes DEF TypeOK
<1>2. loaded' = [loaded EXCEPT ![w] = mine]
  BY DEF ClaimCommit
<1> HIDE DEF mine
<1>3. loaded' \in [Workers -> [Jobs -> JobRow]] /\ loaded'[w] = mine
  BY <1>1, <1>2 DEF TypeOK
<1>4. \A j \in Jobs : FlushJob(jobs[j], loaded[w][j], loaded'[w][j]) \in JobRow
  BY <1>1, <1>3, FlushType DEF TypeOK
<1>5. jobs' \in [Jobs -> JobRow]
  BY <1>4 DEF ClaimCommit, TypeOK
<1> QED BY <1>3, <1>5 DEF ClaimCommit, TypeOK, PCs

LEMMA SettleType ==
  ASSUME TypeOK, NEW w \in Workers, Settle(w), current[w] \in Jobs
  PROVE  TypeOK'
<1> DEFINE j == current[w]
           row == loaded[w][j]
           ok == pc[w] = "returned"
<1>1. row \in JobRow /\ ok \in BOOLEAN
  BY DEF TypeOK
<1>2. CommitMark(j, row, ok)
  BY DEF Settle
<1> HIDE DEF row, ok
<1>3. jobs' \in [Jobs -> JobRow] /\ due' \subseteq Jobs /\ minted' \subseteq Uuids
  BY <1>1, <1>2, CommitMarkType
<1>4. loaded' \in [Workers -> [Jobs -> JobRow]]
  BY AbsentType DEF Settle, TypeOK
<1> QED BY <1>3, <1>4 DEF Settle, TypeOK, PCs
-----------------------------------------------------------------------------
(***************************************************************************)
(* The inductive invariant.                                                *)
(***************************************************************************)

(* A loop without a batch is idle, the job it executes is of its batch,    *)
(* and the rows of the batch are waiting until they are claimed and then   *)
(* running: in the session's objects, whatever the table says.             *)
LoopsOK ==
  \A w \in Workers :
    /\ pc[w] = "idle" <=> batch[w] = {}
    /\ pc[w] \in {"executing", "returned", "raised"} => current[w] \in batch[w]
    /\ pc[w] = "claiming" => \A j \in batch[w] : loaded[w][j].status \in Waiting
    /\ pc[w] \notin {"idle", "claiming"} =>
         \A j \in batch[w] : loaded[w][j].status = "running"

(* What a session has read of a job stays true of it in the columns that   *)
(* nobody edits, and no job goes back to being absent.                     *)
Agrees(j, row) ==
  /\ jobs[j].status # "absent"
  /\ jobs[j].limit = row.limit
  /\ jobs[j].repeat = row.repeat

RowsOK ==
  /\ \A w \in Workers : \A j \in batch[w] : Agrees(j, loaded[w][j])
  /\ \A h \in Handlers : request[h] # NoRequest =>
       /\ Agrees(request[h].job, request[h].row)
       /\ request[h].row.status # "absent"

(* Only the result route reports results.                                  *)
HandlersOK ==
  \A h \in Handlers : request[h].op \in {"success", "failure"} => h \in Reporters

SchedulerInv == TypeOK /\ LoopsOK /\ RowsOK /\ HandlersOK

LEMMA InitInv == Init => SchedulerInv
  BY InitType DEF Init, SchedulerInv, LoopsOK, RowsOK, HandlersOK, NoRequest
-----------------------------------------------------------------------------
(* An UPDATE leaves the columns alone that nobody edits, and a status is   *)
(* the one that was stored or the one that was wanted.                     *)
LEMMA FlushKeeps ==
  ASSUME NEW stored \in JobRow, NEW row \in JobRow, NEW edited \in JobRow
  PROVE  LET flushed == FlushJob(stored, row, edited) IN
           /\ flushed.limit = stored.limit
           /\ flushed.repeat = stored.repeat
           /\ flushed.status = Written(stored.status, row.status, edited.status)
           /\ flushed.attempts = Written(stored.attempts, row.attempts, edited.attempts)
           /\ flushed.status \in {stored.status, edited.status}
  BY DEF FlushJob, Written, JobRow

(* No job that exists is ever absent again, or has another limit or        *)
(* repetition.                                                             *)
Kept ==
  \A j \in Jobs : jobs[j].status # "absent" =>
    /\ jobs'[j].status # "absent"
    /\ jobs'[j].limit = jobs[j].limit
    /\ jobs'[j].repeat = jobs[j].repeat

LEMMA UnchangedKept == UNCHANGED jobs => Kept
  BY DEF Kept

LEMMA InsertedKept ==
  ASSUME TypeOK, NEW j \in Jobs, NEW status, NEW limit, NEW repeat, NEW key,
         Inserted(j, status, limit, repeat, key)
  PROVE  Kept
  BY DEF Inserted, Kept, TypeOK

(* The edited row that mark_job_result commits.                            *)
LEMMA CommitMarkFacts ==
  ASSUME TypeOK, NEW j \in Jobs, NEW row \in JobRow, NEW ok \in BOOLEAN,
         CommitMark(j, row, ok)
  PROVE  \E edited \in JobRow :
           /\ edited.status \in {"scheduled", "succeeded", "failed", "retry_wait"}
           /\ ~Recurs(row, ok) => edited = Marked(row, ok)
           /\ jobs' = [jobs EXCEPT ![j] = FlushJob(jobs[j], row, edited)]
<1>1. CASE Recurs(row, ok)
  <2>1. PICK uuid \in Uuids : Mark(j, row, Rescheduled(row, uuid))
    BY <1>1 DEF CommitMark
  <2>2. Rescheduled(row, uuid) \in JobRow
    BY EditTypes
  <2>3. Rescheduled(row, uuid).status = "scheduled"
    BY DEF Rescheduled, JobRow
  <2> QED BY <1>1, <2>1, <2>2, <2>3 DEF Mark
<1>2. CASE ~Recurs(row, ok)
  <2>1. Mark(j, row, Marked(row, ok))
    BY <1>2 DEF CommitMark
  <2>2. Marked(row, ok) \in JobRow
    BY EditTypes
  <2>3. Marked(row, ok).status \in {"succeeded", "failed", "retry_wait"}
    BY DEF Marked, JobRow
  <2> QED BY <1>2, <2>1, <2>2, <2>3 DEF Mark
<1> QED BY <1>1, <1>2

LEMMA CommitMarkKept ==
  ASSUME TypeOK, NEW j \in Jobs, NEW row \in JobRow, NEW ok \in BOOLEAN,
         CommitMark(j, row, ok)
  PROVE  Kept
<1>1. PICK edited \in JobRow :
        /\ edited.status # "absent"
        /\ jobs' = [jobs EXCEPT ![j] = FlushJob(jobs[j], row, edited)]
  BY CommitMarkFacts
<1>2. jobs[j] \in JobRow
  BY DEF TypeOK
<1>3. /\ FlushJob(jobs[j], row, edited).limit = jobs[j].limit
      /\ FlushJob(jobs[j], row, edited).repeat = jobs[j].repeat
      /\ FlushJob(jobs[j], row, edited).status \in {jobs[j].status, edited.status}
  BY <1>2, FlushKeeps
<1> QED BY <1>1, <1>3 DEF Kept, TypeOK

(* As long as the sessions read nothing new, what they read stays right.   *)
LEMMA RowsKept ==
  ASSUME TypeOK, RowsOK, Kept,
         \A w \in Workers : \A j \in batch'[w] :
           j \in batch[w] /\ loaded'[w][j].limit = loaded[w][j].limit
                          /\ loaded'[w][j].repeat = loaded[w][j].repeat,
         \A h \in Handlers : request'[h] \in {request[h], NoRequest}
  PROVE  RowsOK'
<1>1. \A w \in Workers : \A j \in batch'[w] : Agrees(j, loaded[w][j])'
  BY DEF RowsOK, Agrees, Kept, TypeOK
<1>2. ASSUME NEW h \in Handlers, request'[h] # NoRequest
      PROVE  /\ Agrees(request[h].job, request[h].row)'
             /\ request'[h].row.status # "absent"
  BY <1>2 DEF RowsOK, Agrees, Kept, TypeOK, OpenRequest
<1> QED BY <1>1, <1>2 DEF RowsOK
-----------------------------------------------------------------------------
(***************************************************************************)
(* The invariant is kept by every step: of the table and of time, ...      *)
(***************************************************************************)

LEMMA EnqueueInv ==
  ASSUME SchedulerInv, NEW j \in Jobs, Enqueue(j)
  PROVE  SchedulerInv'
<1>1. PICK status \in {"queued", "scheduled"}, limit \in Limits, repeat \in Repeats,
           key \in {j} \cup ClientKeys \cup minted : Inserted(j, status, limit, repeat, key)
  BY DEF Enqueue
<1>2. TypeOK'
  <2>1. [status |-> status, attempts |-> 0, limit |-> limit, repeat |-> repeat, key |-> key]
          \in JobRow
    BY LimitsAssumption, RepeatsAssumption
       DEF SchedulerInv, TypeOK, JobRow, Statuses, Waiting, Keys
  <2> QED BY <1>1, <2>1 DEF Enqueue, Inserted, SchedulerInv, TypeOK
<1>3. Kept
  BY <1>1, InsertedKept DEF SchedulerInv
<1>4. RowsOK'
  BY <1>3, RowsKept DEF Enqueue, SchedulerInv
<1> QED BY <1>2, <1>4 DEF Enqueue, SchedulerInv, LoopsOK, HandlersOK

LEMMA BecomeDueInv ==
  ASSUME SchedulerInv, NEW j \in Jobs, BecomeDue(j)
  PROVE  SchedulerInv'
<1>1. RowsOK'
  BY UnchangedKept, RowsKept DEF BecomeDue, SchedulerInv
<1> QED BY <1>1 DEF BecomeDue, SchedulerInv, TypeOK, LoopsOK, HandlersOK

(* ... of the loops, ...                                                   *)
LEMMA ClaimReadInv ==
  ASSUME SchedulerInv, NEW w \in Workers, ClaimRead(w)
  PROVE  SchedulerInv'
<1>1. PICK S \in SUBSET Claimable :
        /\ S # {}
        /\ batch' = [batch EXCEPT ![w] = S]
        /\ loaded' = [loaded EXCEPT ![w] =
                        [j \in Jobs |-> IF j \in S THEN jobs[j] ELSE Absent(j)]]
  BY DEF ClaimRead
<1>2. \A j \in S : j \in Jobs /\ jobs[j].status \in Waiting
  BY DEF Claimable, SchedulerInv, TypeOK
<1>3. TypeOK'
  BY <1>1, <1>2, AbsentType DEF ClaimRead, SchedulerInv, TypeOK, PCs
<1>4. LoopsOK'
  BY <1>1, <1>2 DEF ClaimRead, SchedulerInv, LoopsOK, TypeOK
<1>5. RowsOK'
  BY <1>1, <1>2 DEF ClaimRead, SchedulerInv, RowsOK, Agrees, TypeOK, Waiting
<1> QED BY <1>3, <1>4, <1>5 DEF ClaimRead, SchedulerInv, HandlersOK

LEMMA ClaimCommitInv ==
  ASSUME SchedulerInv, NEW w \in Workers, ClaimCommit(w)
  PROVE  SchedulerInv'
<1> USE DEF SchedulerInv
<1>1. TypeOK'
  BY ClaimCommitType
<1>2. \A v \in Workers : \A j \in Jobs :
        loaded'[v][j] = IF v = w /\ j \in batch[w]
                        THEN [loaded[w][j] EXCEPT !.status = "running"]
                        ELSE loaded[v][j]
  BY DEF ClaimCommit, TypeOK
<1>3. \A v \in Workers : \A j \in Jobs :
        /\ loaded'[v][j].limit = loaded[v][j].limit
        /\ loaded'[v][j].repeat = loaded[v][j].repeat
        /\ loaded'[v][j].status =
             IF v = w /\ j \in batch[w] THEN "running" ELSE loaded[v][j].status
  <2> SUFFICES ASSUME NEW v \in Workers, NEW j \in Jobs
               PROVE  /\ loaded'[v][j].limit = loaded[v][j].limit
                      /\ loaded'[v][j].repeat = loaded[v][j].repeat
                      /\ loaded'[v][j].status = IF v = w /\ j \in batch[w]
                                                THEN "running" ELSE loaded[v][j].status
    OBVIOUS
  <2>1. loaded[v][j] \in JobRow
    BY DEF TypeOK
  <2>2. CASE v = w /\ j \in batch[w]
    <3>1. loaded'[v][j] = [loaded[v][j] EXCEPT !.status = "running"]
      BY <1>2, <2>2
    <3> QED BY <2>1, <2>2, <3>1 DEF JobRow
  <2>3. CASE ~(v = w /\ j \in batch[w])
    BY <1>2, <2>3
  <2> QED BY <2>2, <2>3
<1>4. Kept
  <2> SUFFICES ASSUME NEW j \in Jobs, j \in batch[w], jobs[j].status # "absent"
               PROVE  /\ jobs'[j].status # "absent"
                      /\ jobs'[j].limit = jobs[j].limit
                      /\ jobs'[j].repeat = jobs[j].repeat
    BY DEF Kept, ClaimCommit, TypeOK
  <2>1. jobs'[j] = FlushJob(jobs[j], loaded[w][j], loaded'[w][j])
    BY DEF ClaimCommit
  <2>2. jobs[j] \in JobRow /\ loaded[w][j] \in JobRow /\ loaded'[w][j] \in JobRow
    BY <1>1 DEF TypeOK
  <2>3. loaded'[w][j].status = "running"
    BY <1>3
  <2> QED BY <2>1, <2>2, <2>3, FlushKeeps
<1>5. RowsOK'
  <2>1. batch' = batch /\ request' = request /\ batch \in [Workers -> SUBSET Jobs]
    BY DEF ClaimCommit, TypeOK
  <2> QED BY <1>3, <1>4, <2>1, RowsKept
<1>6. LoopsOK'
  BY <1>3 DEF ClaimCommit, LoopsOK, TypeOK
<1> QED BY <1>1, <1>5, <1>6 DEF ClaimCommit, HandlersOK

LEMMA StartInv ==
  ASSUME SchedulerInv, NEW w \in Workers, NEW j \in Jobs, Start(w, j)
  PROVE  SchedulerInv'
<1> USE DEF SchedulerInv
<1>1. RowsOK'
  BY UnchangedKept, RowsKept DEF Start, TypeOK
<1> QED BY <1>1 DEF Start, TypeOK, PCs, LoopsOK, HandlersOK

LEMMA AdapterEndsInv ==
  ASSUME SchedulerInv, NEW w \in Workers, NEW ok \in BOOLEAN, AdapterEnds(w, ok)
  PROVE  SchedulerInv'
<1> USE DEF SchedulerInv
<1>1. RowsOK'
  BY UnchangedKept, RowsKept DEF AdapterEnds, TypeOK
<1> QED BY <1>1 DEF AdapterEnds, TypeOK, PCs, LoopsOK, HandlersOK

LEMMA DropInv ==
  ASSUME SchedulerInv, NEW w \in Workers, Drop(w),
         UNCHANGED <<jobs, due, request, minted>>, crashes' \in Nat
  PROVE  SchedulerInv'
<1> USE DEF SchedulerInv
<1>1. TypeOK'
  BY DropType DEF TypeOK
<1>2. \A v \in Workers : batch'[v] \subseteq batch[v] /\ (v # w => loaded'[v] = loaded[v])
  BY DEF Drop, TypeOK
<1>3. batch'[w] = {}
  BY DEF Drop, TypeOK
<1>4. RowsOK'
  BY <1>2, <1>3, UnchangedKept, RowsKept DEF TypeOK
<1>5. LoopsOK'
  BY DEF Drop, LoopsOK, TypeOK
<1> QED BY <1>1, <1>4, <1>5 DEF HandlersOK

LEMMA SettleInv ==
  ASSUME SchedulerInv, NEW w \in Workers, Settle(w)
  PROVE  SchedulerInv'
<1> USE DEF SchedulerInv
<1>1. current[w] \in batch[w] /\ current[w] \in Jobs
  BY DEF Settle, LoopsOK, TypeOK
<1>2. TypeOK'
  BY <1>1, SettleType
<1>3. CommitMark(current[w], loaded[w][current[w]], pc[w] = "returned")
  BY DEF Settle
<1>4. loaded[w][current[w]] \in JobRow
  BY <1>1 DEF TypeOK
<1>5. Kept
  BY <1>1, <1>3, <1>4, CommitMarkKept
<1>6. \A v \in Workers : \A j \in batch'[v] : j \in batch[v] /\ loaded'[v][j] = loaded[v][j]
  BY <1>1 DEF Settle, TypeOK
<1>7. RowsOK'
  BY <1>5, <1>6, RowsKept DEF Settle
<1>8. LoopsOK'
  BY <1>1, <1>6 DEF Settle, LoopsOK, TypeOK
<1> QED BY <1>2, <1>7, <1>8 DEF Settle, HandlersOK

(* ... and of the API handlers.                                            *)
LEMMA ReadInv ==
  ASSUME SchedulerInv, NEW h \in Handlers, NEW j \in Jobs, NEW operation \in Operations,
         operation = "cancel" \/ h \in Reporters, Read(h, operation, j)
  PROVE  SchedulerInv'
<1> USE DEF SchedulerInv
<1> DEFINE r == [op |-> operation, job |-> j, row |-> jobs[j]]
<1>1. request' = [request EXCEPT ![h] = r]
  BY DEF Read
<1>2. r \in OpenRequest
  BY DEF TypeOK, OpenRequest
<1>3. /\ r.op = operation /\ r.job = j /\ r.row = jobs[j]
  OBVIOUS
<1> HIDE DEF r
<1>4. TypeOK'
  BY <1>1, <1>2 DEF Read, TypeOK
<1>5. /\ request'[h] = r
      /\ \A g \in Handlers : g # h => request'[g] = request[g]
  BY <1>1 DEF TypeOK
<1>6. RowsOK'
  BY <1>3, <1>5 DEF Read, RowsOK, Agrees, TypeOK
<1>7. HandlersOK'
  BY <1>3, <1>5 DEF HandlersOK, TypeOK, Operations
<1> QED BY <1>4, <1>6, <1>7 DEF Read, LoopsOK

(* cancel_job writes the status of one row and nothing else.               *)
LEMMA CancelFacts ==
  ASSUME SchedulerInv, NEW h \in Handlers, CancelCommit(h)
  PROVE  LET j == request[h].job
         IN /\ j \in Jobs
            /\ jobs'[j] \in JobRow
            /\ jobs'[j].status \in {jobs[j].status, "cancelled"}
            /\ jobs'[j].attempts = jobs[j].attempts
            /\ jobs'[j].limit = jobs[j].limit
            /\ jobs'[j].repeat = jobs[j].repeat
            /\ \A i \in Jobs : i # j => jobs'[i] = jobs[i]
<1> DEFINE j == request[h].job
           row == request[h].row
           edited == [row EXCEPT !.status = "cancelled"]
<1>1. request[h] # NoRequest
  BY DEF CancelCommit, NoRequest
<1>2. j \in Jobs /\ row \in JobRow /\ jobs[j] \in JobRow
  BY <1>1, RequestType DEF SchedulerInv, TypeOK
<1>3. edited \in JobRow /\ edited.status = "cancelled" /\ edited.attempts = row.attempts
  BY <1>2, EditTypes DEF JobRow
<1>4. /\ \A i \in Jobs : i # j => jobs'[i] = jobs[i]
      /\ jobs'[j] = FlushJob(jobs[j], row, edited)
  BY <1>2 DEF CancelCommit, SchedulerInv, TypeOK
<1> HIDE DEF j, row, edited
<1>5. jobs'[j] \in JobRow
  BY <1>2, <1>3, <1>4, FlushType
<1>6. /\ jobs'[j].status \in {jobs[j].status, "cancelled"}
      /\ jobs'[j].attempts = jobs[j].attempts
      /\ jobs'[j].limit = jobs[j].limit
      /\ jobs'[j].repeat = jobs[j].repeat
  BY <1>2, <1>3, <1>4, FlushKeeps DEF Written
<1> QED BY <1>2, <1>4, <1>5, <1>6 DEF j

LEMMA CancelCommitInv ==
  ASSUME SchedulerInv, NEW h \in Handlers, CancelCommit(h)
  PROVE  SchedulerInv'
<1> USE DEF SchedulerInv
<1> DEFINE j == request[h].job
<1>1. jobs' = [jobs EXCEPT ![j] = jobs'[j]]
  BY CancelFacts DEF CancelCommit, TypeOK
<1>2. TypeOK'
  BY <1>1, CancelFacts DEF CancelCommit, TypeOK
<1>3. Kept
  BY CancelFacts DEF Kept
<1>4. \A g \in Handlers : request'[g] \in {request[g], NoRequest}
  BY DEF CancelCommit, TypeOK
<1>5. RowsOK'
  BY <1>3, <1>4, RowsKept DEF CancelCommit, TypeOK
<1> QED BY <1>2, <1>4, <1>5 DEF CancelCommit, LoopsOK, HandlersOK, NoRequest

LEMMA ReportCommitInv ==
  ASSUME SchedulerInv, NEW h \in Handlers, ReportCommit(h)
  PROVE  SchedulerInv'
<1> USE DEF SchedulerInv
<1> DEFINE j == request[h].job
           row == request[h].row
           ok == request[h].op = "success"
<1>1. request[h] # NoRequest
  BY DEF ReportCommit, NoRequest
<1>2. j \in Jobs /\ row \in JobRow /\ ok \in BOOLEAN
  BY <1>1, RequestType
<1>3. CommitMark(j, row, ok)
  BY DEF ReportCommit
<1> HIDE DEF j, row, ok
<1>4. jobs' \in [Jobs -> JobRow] /\ due' \subseteq Jobs /\ minted' \subseteq Uuids
  BY <1>2, <1>3, CommitMarkType
<1>5. Kept
  BY <1>2, <1>3, CommitMarkKept
<1>6. \A g \in Handlers : request'[g] \in {request[g], NoRequest}
  BY DEF ReportCommit, TypeOK
<1>7. RowsOK'
  BY <1>5, <1>6, RowsKept DEF ReportCommit, TypeOK
<1> QED BY <1>4, <1>6, <1>7 DEF ReportCommit, TypeOK, LoopsOK, HandlersOK, NoRequest

LEMMA RequestDroppedInv ==
  ASSUME SchedulerInv, NEW h \in Handlers, RequestDropped(h)
  PROVE  SchedulerInv'
<1> USE DEF SchedulerInv
<1>1. \A g \in Handlers : request'[g] \in {request[g], NoRequest}
  BY DEF RequestDropped, TypeOK
<1>2. RowsOK'
  BY <1>1, UnchangedKept, RowsKept DEF RequestDropped, TypeOK
<1> QED BY <1>1, <1>2 DEF RequestDropped, TypeOK, LoopsOK, HandlersOK, NoRequest

LEMMA StepInv == SchedulerInv /\ [Next]_queueVars => SchedulerInv'
<1> SUFFICES ASSUME SchedulerInv, [Next]_queueVars PROVE SchedulerInv'
  OBVIOUS
<1>1. ASSUME NEW j \in Jobs, Enqueue(j) \/ BecomeDue(j) PROVE SchedulerInv'
  BY <1>1, EnqueueInv, BecomeDueInv
<1>2. ASSUME NEW w \in Workers, ClaimRead(w) \/ ClaimCommit(w) \/ Settle(w)
      PROVE  SchedulerInv'
  BY <1>2, ClaimReadInv, ClaimCommitInv, SettleInv
<1>3. ASSUME NEW w \in Workers, SettleRaises(w) \/ Escape(w) \/ Crash(w)
      PROVE  SchedulerInv'
  <2>1. Drop(w) /\ UNCHANGED <<jobs, due, request, minted>> /\ crashes' \in Nat
    BY <1>3 DEF SettleRaises, Escape, Crash, SchedulerInv, TypeOK
  <2> QED BY <2>1, DropInv
<1>4. ASSUME NEW w \in Workers, NEW j \in Jobs, Start(w, j) PROVE SchedulerInv'
  BY <1>4, StartInv
<1>5. ASSUME NEW w \in Workers, NEW ok \in BOOLEAN, AdapterEnds(w, ok) PROVE SchedulerInv'
  BY <1>5, AdapterEndsInv
<1>6. ASSUME NEW h \in Handlers, CancelCommit(h) \/ ReportCommit(h) \/ RequestDropped(h)
      PROVE  SchedulerInv'
  BY <1>6, CancelCommitInv, ReportCommitInv, RequestDroppedInv
<1>7. ASSUME NEW h \in Cancellers, NEW j \in Jobs, CancelRead(h, j) PROVE SchedulerInv'
  BY <1>7, ReadInv DEF CancelRead, Handlers, Operations
<1>8. ASSUME NEW h \in Reporters, NEW j \in Jobs, ReportRead(h, j) PROVE SchedulerInv'
  BY <1>8, ReadInv DEF ReportRead, Handlers, Operations
<1>9. CASE UNCHANGED queueVars
  BY <1>9 DEF queueVars, SchedulerInv, TypeOK, LoopsOK, RowsOK, Agrees, HandlersOK
<1> QED
  BY <1>1, <1>2, <1>3, <1>4, <1>5, <1>6, <1>7, <1>8, <1>9 DEF Next, QueueStep

LEMMA Invariance == Spec => []SchedulerInv
  BY InitInv, StepInv, PTL DEF Spec

(* The table and the sessions always hold what their columns and locals    *)
(* may hold.                                                               *)
THEOREM TypeCorrect == Spec => []TypeOK
  BY Invariance, PTL DEF SchedulerInv
-----------------------------------------------------------------------------
(***************************************************************************)
(* Nothing is running that no loop holds.                                  *)
(***************************************************************************)

(* A commit of mark_job_result leaves no running row behind that was not   *)
(* running, and none at all when the session had read it as running.       *)
LEMMA CommitMarkStatus ==
  ASSUME TypeOK, NEW j \in Jobs, NEW row \in JobRow, NEW ok \in BOOLEAN,
         CommitMark(j, row, ok)
  PROVE  /\ jobs'[j].status \in {jobs[j].status, "scheduled", "succeeded", "failed", "retry_wait"}
         /\ row.status = "running" => jobs'[j].status # "running"
         /\ \A i \in Jobs : i # j => jobs'[i] = jobs[i]
<1>1. PICK edited \in JobRow :
        /\ edited.status \in {"scheduled", "succeeded", "failed", "retry_wait"}
        /\ jobs' = [jobs EXCEPT ![j] = FlushJob(jobs[j], row, edited)]
  BY CommitMarkFacts
<1>2. jobs[j] \in JobRow /\ jobs'[j] = FlushJob(jobs[j], row, edited)
  BY <1>1 DEF TypeOK
<1>3. /\ jobs'[j].status \in {jobs[j].status, edited.status}
      /\ jobs'[j].status = Written(jobs[j].status, row.status, edited.status)
  BY <1>2, FlushKeeps
<1> QED BY <1>1, <1>3 DEF TypeOK, Written

(* What the sessions of mark_job_result commit with.                       *)
LEMMA SettleFacts ==
  ASSUME SchedulerInv, NEW w \in Workers, Settle(w)
  PROVE  LET j == current[w]
             row == loaded[w][j]
             ok == pc[w] = "returned"
         IN /\ j \in batch[w] /\ j \in Jobs
            /\ row \in JobRow /\ row.status = "running" /\ Agrees(j, row)
            /\ ok \in BOOLEAN /\ ~MarkRaises(row, ok)
            /\ CommitMark(j, row, ok)
  BY DEF Settle, SchedulerInv, LoopsOK, RowsOK, TypeOK

LEMMA ReportFacts ==
  ASSUME SchedulerInv, NEW h \in Handlers, ReportCommit(h)
  PROVE  LET j == request[h].job
             row == request[h].row
             ok == request[h].op = "success"
         IN /\ h \in Reporters
            /\ j \in Jobs /\ row \in JobRow /\ ok \in BOOLEAN
            /\ CommitMark(j, row, ok)
<1>1. request[h] # NoRequest
  BY DEF ReportCommit, NoRequest
<1> QED BY <1>1, RequestType DEF ReportCommit, SchedulerInv, HandlersOK

LEMMA RunningIsHeldStep ==
  ASSUME SchedulerInv, RunningIsHeld, [Next]_queueVars
  PROVE  RunningIsHeld'
<1> USE DEF SchedulerInv
<1>1. ASSUME NEW j \in Jobs, Enqueue(j) PROVE RunningIsHeld'
  BY <1>1 DEF Enqueue, Inserted, RunningIsHeld, Held, TypeOK
<1>2. ASSUME NEW j \in Jobs, BecomeDue(j) PROVE RunningIsHeld'
  BY <1>2 DEF BecomeDue, RunningIsHeld, Held
<1>3. ASSUME NEW w \in Workers, ClaimRead(w) PROVE RunningIsHeld'
  <2>1. batch[w] = {} /\ \A v \in Workers : v # w => batch'[v] = batch[v] /\ pc'[v] = pc[v]
    BY <1>3 DEF ClaimRead, LoopsOK, TypeOK
  <2> QED BY <1>3, <2>1 DEF ClaimRead, RunningIsHeld, Held
<1>4. ASSUME NEW w \in Workers, ClaimCommit(w) PROVE RunningIsHeld'
  <2>1. \A j \in Jobs : j \notin batch[w] => jobs'[j] = jobs[j]
    BY <1>4 DEF ClaimCommit
  <2>2. \A v \in Workers : \A j \in Jobs : Held(v, j) \/ (v = w /\ j \in batch[w]) => Held(v, j)'
    BY <1>4 DEF ClaimCommit, Held, TypeOK
  <2> QED BY <1>4, <2>1, <2>2 DEF ClaimCommit, RunningIsHeld
<1>5. ASSUME NEW w \in Workers, NEW j \in Jobs, Start(w, j) PROVE RunningIsHeld'
  BY <1>5 DEF Start, RunningIsHeld, Held, TypeOK
<1>6. ASSUME NEW w \in Workers, NEW ok \in BOOLEAN, AdapterEnds(w, ok) PROVE RunningIsHeld'
  BY <1>6 DEF AdapterEnds, RunningIsHeld, Held, TypeOK
<1>7. ASSUME NEW w \in Workers, SettleRaises(w) \/ Escape(w) \/ Crash(w)
      PROVE  RunningIsHeld'
  <2>1. Drop(w) /\ jobs' = jobs
    BY <1>7 DEF SettleRaises, Escape, Crash
  <2>2. \A v \in Workers : v # w => batch'[v] = batch[v] /\ pc'[v] = pc[v]
    BY <2>1 DEF Drop, TypeOK
  <2> QED BY <2>1, <2>2 DEF Drop, RunningIsHeld, Held
<1>8. ASSUME NEW w \in Workers, Settle(w) PROVE RunningIsHeld'
  <2> DEFINE j == current[w]
  <2>1. jobs'[j].status # "running" /\ \A i \in Jobs : i # j => jobs'[i] = jobs[i]
    BY <1>8, SettleFacts, CommitMarkStatus
  <2>2. \A v \in Workers : \A i \in Jobs : i # j /\ Held(v, i) => Held(v, i)'
    BY <1>8 DEF Settle, Held, TypeOK
  <2> HIDE DEF j
  <2> QED BY <1>8, <2>1, <2>2 DEF Settle, RunningIsHeld
<1>9. ASSUME NEW h \in Handlers, CancelCommit(h) PROVE RunningIsHeld'
  <2>1. \A i \in Jobs : jobs'[i].status = "running" => jobs[i].status = "running"
    BY <1>9, CancelFacts
  <2> QED BY <1>9, <2>1 DEF CancelCommit, RunningIsHeld, Held
<1>10. ASSUME NEW h \in Handlers, ReportCommit(h) PROVE RunningIsHeld'
  <2>1. \A i \in Jobs : jobs'[i].status = "running" => jobs[i].status = "running"
    BY <1>10, ReportFacts, CommitMarkStatus
  <2> QED BY <1>10, <2>1 DEF ReportCommit, RunningIsHeld, Held
<1>11. ASSUME NEW h \in Handlers, RequestDropped(h) PROVE RunningIsHeld'
  BY <1>11 DEF RequestDropped, RunningIsHeld, Held
<1>12. ASSUME NEW h \in Handlers, NEW j \in Jobs, CancelRead(h, j) \/ ReportRead(h, j)
       PROVE  RunningIsHeld'
  BY <1>12 DEF CancelRead, ReportRead, Read, RunningIsHeld, Held
<1>13. CASE UNCHANGED queueVars
  BY <1>13 DEF queueVars, RunningIsHeld, Held
<1> QED
  BY <1>1, <1>2, <1>3, <1>4, <1>5, <1>6, <1>7, <1>8, <1>9, <1>10, <1>11, <1>12, <1>13
     DEF Next, QueueStep, Handlers

(* However claims, cancellations, reports and settlements overlap, a row   *)
(* is left running for ever only when a pass ended without settling it.    *)
THEOREM RunningAlwaysHeld == Spec => []RunningIsHeld
<1>1. Init => RunningIsHeld
  BY DEF Init, RunningIsHeld, Absent
<1> QED BY <1>1, Invariance, RunningIsHeldStep, PTL DEF Spec
-----------------------------------------------------------------------------
(***************************************************************************)
(* Retries are rationed.                                                   *)
(***************************************************************************)

(* What AttemptsRationed says of one row.                                  *)
Rationed(row) ==
  row.repeat # "minutes" =>
    /\ row.status \in Waiting => row.attempts < row.limit
    /\ row.status = "failed" => row.attempts >= row.limit

LEMMA MarkedIsRationed ==
  ASSUME NEW stored \in JobRow, NEW row \in JobRow, NEW ok \in BOOLEAN,
         row.status = "running", row.limit = stored.limit
  PROVE  Rationed(FlushJob(stored, row, Marked(row, ok)))
<1> DEFINE edited == Marked(row, ok)
           flushed == FlushJob(stored, row, edited)
<1>1. /\ edited.attempts = row.attempts + 1
      /\ edited.status = IF ok THEN "succeeded"
                         ELSE IF row.attempts + 1 >= row.limit THEN "failed"
                         ELSE "retry_wait"
  BY DEF Marked, JobRow
<1>2. edited \in JobRow
  BY EditTypes
<1> HIDE DEF edited
<1>3. /\ flushed.limit = row.limit
      /\ flushed.status = Written(stored.status, row.status, edited.status)
      /\ flushed.attempts = Written(stored.attempts, row.attempts, edited.attempts)
  BY <1>2, FlushKeeps
<1> HIDE DEF flushed
<1>4. row.attempts \in Nat /\ row.limit \in Nat
  BY DEF JobRow
<1>5. flushed.attempts = row.attempts + 1 /\ flushed.status = edited.status
  BY <1>1, <1>3, <1>4 DEF Written
<1> QED BY <1>1, <1>3, <1>4, <1>5 DEF Rationed, Waiting, flushed, edited

LEMMA RationedStep ==
  ASSUME SchedulerInv, [Next]_queueVars, Reporters = {},
         \A j \in Jobs : Rationed(jobs[j])
  PROVE  \A j \in Jobs : Rationed(jobs[j])'
<1> USE DEF SchedulerInv
<1>1. ASSUME NEW i \in Jobs, Enqueue(i) PROVE \A j \in Jobs : Rationed(jobs[j])'
  BY <1>1, LimitsAssumption DEF Enqueue, Inserted, Rationed, TypeOK
<1>2. ASSUME NEW w \in Workers, ClaimCommit(w) PROVE \A j \in Jobs : Rationed(jobs[j])'
  <2> SUFFICES ASSUME NEW j \in Jobs, j \in batch[w] PROVE Rationed(jobs'[j])
    BY <1>2 DEF ClaimCommit, Rationed
  <2> DEFINE row == loaded[w][j]
             edited == [row EXCEPT !.status = "running"]
  <2>1. jobs[j] \in JobRow /\ row \in JobRow /\ row.status \in Waiting
    BY <1>2 DEF ClaimCommit, LoopsOK, TypeOK
  <2>2. jobs'[j] = FlushJob(jobs[j], row, edited)
    BY <1>2 DEF ClaimCommit, TypeOK
  <2>3. edited \in JobRow /\ edited.status = "running"
    BY <2>1, EditTypes DEF JobRow
  <2> HIDE DEF row, edited
  <2>4. jobs'[j].status = Written(jobs[j].status, row.status, "running")
    BY <2>1, <2>2, <2>3, FlushKeeps
  <2> QED BY <2>1, <2>4 DEF Rationed, Waiting, Written
<1>3. ASSUME NEW w \in Workers, Settle(w) PROVE \A j \in Jobs : Rationed(jobs[j])'
  <2> DEFINE i == current[w]
             row == loaded[w][i]
             ok == pc[w] = "returned"
  <2>1. /\ i \in Jobs /\ row \in JobRow /\ ok \in BOOLEAN
        /\ row.status = "running" /\ row.limit = jobs[i].limit /\ row.repeat = jobs[i].repeat
        /\ CommitMark(i, row, ok)
    BY <1>3, SettleFacts DEF Agrees
  <2>2. jobs[i] \in JobRow /\ jobs'[i].repeat = jobs[i].repeat
    BY <2>1, CommitMarkKept, <1>3, SettleFacts DEF Kept, TypeOK, Agrees
  <2>3. CASE jobs[i].repeat = "minutes"
    BY <2>1, <2>2, <2>3, CommitMarkStatus DEF Rationed
  <2>4. CASE jobs[i].repeat # "minutes"
    <3> HIDE DEF i, row, ok
    <3>1. jobs' = [jobs EXCEPT ![i] = FlushJob(jobs[i], row, Marked(row, ok))]
      <4>1. ~Recurs(row, ok)
        BY <2>1, <2>4 DEF Recurs
      <4> QED BY <2>1, <4>1, CommitMarkFacts
    <3>2. Rationed(FlushJob(jobs[i], row, Marked(row, ok)))
      BY <2>1, <2>2, MarkedIsRationed
    <3> QED BY <3>1, <3>2, <2>1 DEF TypeOK
  <2> QED BY <2>3, <2>4
<1>4. ASSUME NEW h \in Handlers, CancelCommit(h) PROVE \A j \in Jobs : Rationed(jobs[j])'
  BY <1>4, CancelFacts DEF Rationed, Waiting
<1>5. ASSUME NEW h \in Handlers, ReportCommit(h) PROVE FALSE
  BY <1>5, ReportFacts
<1>6. CASE UNCHANGED jobs
  BY <1>6
<1> QED
  BY <1>1, <1>2, <1>3, <1>4, <1>5, <1>6
     DEF Next, QueueStep, BecomeDue, ClaimRead, SettleRaises, Escape, Crash, Start,
         AdapterEnds, CancelRead, ReportRead, Read, RequestDropped, queueVars

(* A job waits for another attempt only while one is left, and fails only  *)
(* when none is, also when two loops claimed the same row.                 *)
THEOREM AttemptsAlwaysRationed == Spec => []AttemptsRationed
<1>1. CASE Reporters = {}
  <2> DEFINE AllRationed == \A j \in Jobs : Rationed(jobs[j])
  <2>1. Init => AllRationed
    BY DEF Init, Absent, Rationed, Waiting
  <2>2. SchedulerInv /\ AllRationed /\ [Next]_queueVars => AllRationed'
    BY <1>1, RationedStep
  <2>3. AllRationed => AttemptsRationed
    BY DEF AttemptsRationed, Rationed
  <2> HIDE DEF AllRationed
  <2> QED BY <2>1, <2>2, <2>3, Invariance, PTL DEF Spec
<1>2. CASE Reporters # {}
  <2>1. AttemptsRationed
    BY <1>2 DEF AttemptsRationed
  <2> QED BY <2>1, PTL
<1> QED BY <1>1, <1>2
-----------------------------------------------------------------------------
(***************************************************************************)
(* A cancelled job comes back only through a session that read it before,  *)
(* or by a reported result.                                                *)
(***************************************************************************)

LEMMA CancelSticksStep ==
  ASSUME SchedulerInv, [Next]_queueVars, NEW j \in Jobs, jobs[j].status = "cancelled"
  PROVE  /\ \A w \in Workers : j \in batch'[w] => j \in batch[w]
         /\ jobs'[j].status # "cancelled" =>
              \/ \E w \in Workers : j \in batch[w]
              \/ \E h \in Reporters : request[h].job = j
<1> USE DEF SchedulerInv
<1>1. ASSUME NEW w \in Workers, j \in batch'[w] PROVE j \in batch[w]
  <2>1. ASSUME NEW v \in Workers, ClaimRead(v) PROVE j \in batch[w]
    BY <1>1, <2>1 DEF ClaimRead, Claimable, Waiting, TypeOK
  <2>2. ASSUME NEW v \in Workers, Settle(v) \/ SettleRaises(v) \/ Escape(v) \/ Crash(v)
        PROVE  j \in batch[w]
    BY <1>1, <2>2 DEF Settle, SettleRaises, Escape, Crash, Drop, TypeOK
  <2>3. CASE UNCHANGED batch
    BY <1>1, <2>3
  <2> QED BY <2>1, <2>2, <2>3
          DEF Next, QueueStep, Enqueue, BecomeDue, ClaimCommit, Start, AdapterEnds,
              CancelRead, ReportRead, Read, CancelCommit, ReportCommit, RequestDropped,
              queueVars
<1>2. ASSUME jobs'[j].status # "cancelled"
      PROVE  \/ \E w \in Workers : j \in batch[w]
             \/ \E h \in Reporters : request[h].job = j
  <2>1. ASSUME NEW i \in Jobs, Enqueue(i) PROVE FALSE
    BY <1>2, <2>1 DEF Enqueue, Inserted, TypeOK
  <2>2. ASSUME NEW w \in Workers, ClaimCommit(w) PROVE j \in batch[w]
    BY <1>2, <2>2 DEF ClaimCommit
  <2>3. ASSUME NEW w \in Workers, Settle(w) PROVE j \in batch[w]
    BY <1>2, <2>3, SettleFacts, CommitMarkStatus
  <2>4. ASSUME NEW h \in Handlers, CancelCommit(h) PROVE FALSE
    BY <1>2, <2>4, CancelFacts
  <2>5. ASSUME NEW h \in Handlers, ReportCommit(h)
        PROVE  h \in Reporters /\ request[h].job = j
    BY <1>2, <2>5, ReportFacts, CommitMarkStatus
  <2>6. jobs' # jobs
    BY <1>2
  <2> QED
    BY <2>1, <2>2, <2>3, <2>4, <2>5, <2>6
       DEF Next, QueueStep, BecomeDue, ClaimRead, SettleRaises, Escape, Crash, Start,
           AdapterEnds, CancelRead, ReportRead, Read, RequestDropped, queueVars
<1> QED BY <1>1, <1>2

(* A loop that selects jobs after the cancellation never brings one back.  *)
THEOREM CancellationSticks == Spec => CancelSticks
<1>1. SchedulerInv /\ [Next]_queueVars =>
        \A j \in Jobs : jobs[j].status = "cancelled" =>
          /\ \A w \in Workers : j \in batch'[w] => j \in batch[w]
          /\ jobs'[j].status # "cancelled" =>
               \/ \E w \in Workers : j \in batch[w]
               \/ \E h \in Reporters : request[h].job = j
  BY CancelSticksStep
<1> QED BY <1>1, Invariance, PTL DEF Spec, CancelSticks
-----------------------------------------------------------------------------
(***************************************************************************)
(* A job runs under its own key, a client's, or one drawn for a recurrence.*)
(***************************************************************************)

OwnAmong(uuids, j, row) ==
  row.repeat \in Repeats /\ row.key \in {j} \cup ClientKeys \cup uuids

Owns(j, row) == OwnAmong(minted, j, row)

OwnKeys ==
  /\ \A j \in Jobs : jobs[j].status # "absent" => Owns(j, jobs[j])
  /\ \A w \in Workers : \A j \in batch[w] : Owns(j, loaded[w][j])
  /\ \A h \in Handlers : request[h] # NoRequest => Owns(request[h].job, request[h].row)

LEMMA InitOwnKeys == Init => OwnKeys
  BY DEF Init, OwnKeys, Absent, NoRequest

(* mark_job_result keeps the key of the row or stores a new one.           *)
LEMMA CommitMarkOwns ==
  ASSUME TypeOK, NEW j \in Jobs, NEW row \in JobRow, NEW ok \in BOOLEAN,
         CommitMark(j, row, ok), Owns(j, row),
         jobs[j].status # "absent" => Owns(j, jobs[j])
  PROVE  /\ minted \subseteq minted'
         /\ jobs[j].status # "absent" => OwnAmong(minted', j, jobs'[j])
         /\ \A i \in Jobs : i # j => jobs'[i] = jobs[i]
<1>1. jobs[j] \in JobRow
  BY DEF TypeOK
<1>2. \A edited \in JobRow : FlushJob(jobs[j], row, edited).key \in {jobs[j].key, edited.key}
  BY <1>1 DEF FlushJob, Written, JobRow
<1>3. \A edited \in JobRow : FlushJob(jobs[j], row, edited).repeat = jobs[j].repeat
  BY <1>1, FlushKeeps
<1>4. CASE Recurs(row, ok)
  <2>1. PICK uuid \in Uuids : Mark(j, row, Rescheduled(row, uuid)) /\ minted' = minted \cup {uuid}
    BY <1>4 DEF CommitMark
  <2>2. Rescheduled(row, uuid) \in JobRow /\ Rescheduled(row, uuid).key = uuid
    BY EditTypes DEF Rescheduled, JobRow
  <2> QED BY <1>2, <1>3, <2>1, <2>2 DEF Mark, Owns, OwnAmong, TypeOK
<1>5. CASE ~Recurs(row, ok)
  <2>1. Mark(j, row, Marked(row, ok)) /\ minted' = minted
    BY <1>5 DEF CommitMark
  <2>2. Marked(row, ok) \in JobRow /\ Marked(row, ok).key = row.key
    BY EditTypes DEF Marked, JobRow
  <2> QED BY <1>2, <1>3, <2>1, <2>2 DEF Mark, Owns, OwnAmong, TypeOK
<1> QED BY <1>4, <1>5

LEMMA OwnKeysStep ==
  ASSUME SchedulerInv, OwnKeys, [Next]_queueVars
  PROVE  OwnKeys'
<1> USE DEF SchedulerInv
<1>1. ASSUME NEW i \in Jobs, Enqueue(i) PROVE OwnKeys'
  BY <1>1 DEF Enqueue, Inserted, OwnKeys, Owns, OwnAmong, TypeOK
<1>2. ASSUME NEW w \in Workers, ClaimRead(w) PROVE OwnKeys'
  <2>1. \A v \in Workers : \A j \in batch'[v] :
          \/ j \in batch[v] /\ loaded'[v] = loaded[v]
          \/ j \in Claimable /\ loaded'[v][j] = jobs[j]
    BY <1>2 DEF ClaimRead, Claimable, TypeOK
  <2> QED BY <1>2, <2>1 DEF ClaimRead, Claimable, OwnKeys, Owns, OwnAmong, Waiting, TypeOK
<1>3. ASSUME NEW w \in Workers, ClaimCommit(w) PROVE OwnKeys'
  <2>1. \A v \in Workers : \A j \in batch[v] :
          loaded'[v][j] \in {loaded[v][j], [loaded[v][j] EXCEPT !.status = "running"]}
    BY <1>3 DEF ClaimCommit, TypeOK
  <2>2. \A v \in Workers : \A j \in batch[v] :
          /\ loaded'[v][j].key = loaded[v][j].key
          /\ loaded'[v][j].repeat = loaded[v][j].repeat
          /\ loaded'[v][j] \in JobRow
    <3> SUFFICES ASSUME NEW v \in Workers, NEW j \in batch[v]
                 PROVE  /\ loaded'[v][j].key = loaded[v][j].key
                        /\ loaded'[v][j].repeat = loaded[v][j].repeat
                        /\ loaded'[v][j] \in JobRow
      OBVIOUS
    <3>1. loaded[v][j] \in JobRow
      BY DEF TypeOK
    <3>2. CASE loaded'[v][j] = loaded[v][j]
      BY <3>1, <3>2
    <3>3. CASE loaded'[v][j] = [loaded[v][j] EXCEPT !.status = "running"]
      BY <3>1, <3>3, EditTypes DEF JobRow
    <3> QED BY <2>1, <3>2, <3>3
  <2>3. \A j \in Jobs : jobs'[j].key = jobs[j].key /\ jobs'[j].repeat = jobs[j].repeat
    <3> SUFFICES ASSUME NEW j \in Jobs, j \in batch[w]
                 PROVE  jobs'[j].key = jobs[j].key /\ jobs'[j].repeat = jobs[j].repeat
      BY <1>3 DEF ClaimCommit
    <3>1. jobs'[j] = FlushJob(jobs[j], loaded[w][j], loaded'[w][j]) /\ jobs[j] \in JobRow
      BY <1>3 DEF ClaimCommit, TypeOK
    <3> QED BY <2>2, <3>1 DEF FlushJob, Written, JobRow
  <2>4. \A j \in Jobs : jobs'[j].status # "absent" => jobs[j].status # "absent"
    BY <1>3 DEF ClaimCommit, RowsOK, Agrees
  <2>5. batch' = batch /\ request' = request /\ minted' = minted
    BY <1>3 DEF ClaimCommit
  <2> QED BY <2>2, <2>3, <2>4, <2>5 DEF OwnKeys, Owns, OwnAmong
<1>4. ASSUME NEW w \in Workers, Settle(w) PROVE OwnKeys'
  <2> DEFINE i == current[w]
  <2>1. i \in batch[w] /\ i \in Jobs /\ jobs[i].status # "absent"
    BY <1>4, SettleFacts DEF Agrees
  <2>2. /\ minted \subseteq minted'
        /\ OwnAmong(minted', i, jobs'[i])
        /\ \A j \in Jobs : j # i => jobs'[j] = jobs[j]
    BY <1>4, <2>1, SettleFacts, CommitMarkOwns DEF OwnKeys
  <2>3. \A v \in Workers : \A j \in batch'[v] : j \in batch[v] /\ loaded'[v][j] = loaded[v][j]
    BY <1>4, <2>1 DEF Settle, TypeOK
  <2> HIDE DEF i
  <2> QED BY <1>4, <2>1, <2>2, <2>3 DEF Settle, OwnKeys, Owns, OwnAmong
<1>5. ASSUME NEW w \in Workers, SettleRaises(w) \/ Escape(w) \/ Crash(w) PROVE OwnKeys'
  <2>1. Drop(w) /\ UNCHANGED <<jobs, request, minted>>
    BY <1>5 DEF SettleRaises, Escape, Crash
  <2>2. \A v \in Workers : \A j \in batch'[v] : j \in batch[v] /\ loaded'[v][j] = loaded[v][j]
    BY <2>1 DEF Drop, TypeOK
  <2> QED BY <2>1, <2>2 DEF OwnKeys, Owns, OwnAmong
<1>6. ASSUME NEW h \in Handlers, CancelCommit(h) PROVE OwnKeys'
  <2>1. request[h] # NoRequest
    BY <1>6 DEF CancelCommit, NoRequest
  <2> DEFINE j == request[h].job
             row == request[h].row
             edited == [row EXCEPT !.status = "cancelled"]
  <2>2. j \in Jobs /\ row \in JobRow /\ jobs[j] \in JobRow /\ jobs[j].status # "absent"
    BY <2>1, RequestType DEF TypeOK, RowsOK, Agrees
  <2>3. edited.key = row.key
    BY <2>2 DEF JobRow
  <2>4. /\ \A i \in Jobs : i # j => jobs'[i] = jobs[i]
        /\ jobs'[j] = FlushJob(jobs[j], row, edited)
    BY <1>6, <2>2 DEF CancelCommit, TypeOK
  <2> HIDE DEF j, row, edited
  <2>5. jobs'[j].key = jobs[j].key /\ jobs'[j].repeat = jobs[j].repeat
    BY <2>2, <2>3, <2>4 DEF FlushJob, Written, JobRow
  <2>6. \A g \in Handlers : request'[g] \in {request[g], NoRequest}
    BY <1>6 DEF CancelCommit, TypeOK
  <2> QED BY <1>6, <2>2, <2>4, <2>5, <2>6 DEF CancelCommit, OwnKeys, Owns, OwnAmong
<1>7. ASSUME NEW h \in Handlers, ReportCommit(h) PROVE OwnKeys'
  <2>1. request[h] # NoRequest
    BY <1>7 DEF ReportCommit, NoRequest
  <2> DEFINE i == request[h].job
  <2>2. jobs[i].status # "absent" /\ i \in Jobs
    BY <1>7, <2>1, ReportFacts DEF RowsOK, Agrees
  <2>3. /\ minted \subseteq minted'
        /\ OwnAmong(minted', i, jobs'[i])
        /\ \A j \in Jobs : j # i => jobs'[j] = jobs[j]
    BY <1>7, <2>1, <2>2, ReportFacts, CommitMarkOwns DEF OwnKeys
  <2>4. \A g \in Handlers : request'[g] \in {request[g], NoRequest}
    BY <1>7 DEF ReportCommit, TypeOK
  <2> HIDE DEF i
  <2> QED BY <1>7, <2>2, <2>3, <2>4 DEF ReportCommit, OwnKeys, Owns, OwnAmong
<1>8. ASSUME NEW h \in Handlers, NEW j \in Jobs, NEW operation, Read(h, operation, j)
      PROVE  OwnKeys'
  <2> DEFINE r == [op |-> operation, job |-> j, row |-> jobs[j]]
  <2>1. request' = [request EXCEPT ![h] = r] /\ r.job = j /\ r.row = jobs[j]
    BY <1>8 DEF Read
  <2> HIDE DEF r
  <2> QED BY <1>8, <2>1 DEF Read, OwnKeys, Owns, OwnAmong, TypeOK
<1>9. ASSUME NEW h \in Handlers, RequestDropped(h) PROVE OwnKeys'
  BY <1>9 DEF RequestDropped, OwnKeys, Owns, OwnAmong, TypeOK
<1>10. CASE UNCHANGED <<jobs, batch, loaded, request, minted>>
  BY <1>10 DEF OwnKeys, Owns, OwnAmong
<1> QED
  BY <1>1, <1>2, <1>3, <1>4, <1>5, <1>6, <1>7, <1>8, <1>9, <1>10
     DEF Next, QueueStep, BecomeDue, Start, AdapterEnds, CancelRead, ReportRead,
         Handlers, queueVars
=============================================================================
