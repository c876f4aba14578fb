--------------------------- MODULE CircuitBreaker ---------------------------
(***************************************************************************)
(* The circuit of one target system: its row in `circuit_states` and the   *)
(* calls of execute_adapter that ask it for leave and report to it         *)
(* (app/services/security_resilience.py, execution_adapters.py).           *)
(*                                                                         *)
(* get_circuit reads the row, creates it when it is missing and half-opens *)
(* it when its time has come; each is a commit of its own.  The counters   *)
(* of failures are read by one statement and written by another, so that   *)
(* calls that overlap overwrite one another.                               *)
(*                                                                         *)
(* A failure is always written, since it differs from what was loaded.     *)
(* Failures are therefore counted up to the threshold only, and times are  *)
(* told apart by whether retry_after_seconds have passed since.            *)
(***************************************************************************)
EXTENDS Naturals, FiniteSets, Orm

CONSTANTS
  Callers,       (* loops that execute jobs for the target                 *)
  Steady,        (* those of them that keep running, on jobs whose         *)
                 (* system_key is the target                               *)
  Threshold      (* failure_threshold                                      *)

ASSUME SteadyAssumption == Steady \subseteq Callers
ASSUME ThresholdAssumption == Threshold \in Nat \ {0}

VARIABLES
  circuit,       (* the table: the row of the target, if there is one      *)
  call,          (* where each caller is and what it has in hand           *)
  recorded       (* history: the failures recorded since the last success  *)
                 (* that no other call overlapped, up to the threshold     *)

vars == <<circuit, call, recorded>>
-----------------------------------------------------------------------------
Row ==
  [state : {"closed", "open", "half_open"},
   failures : 0 .. Threshold,
   opened : {"none", "recent", "ripe"}]
Clean == [state |-> "closed", failures |-> 0, opened |-> "none"]

Call ==
  [at : {"idle", "select", "create", "half_open", "refresh", "got", "calling"},
   intent : {"allow", "success", "failure"},
   row : {{}} \cup {{row} : row \in Row}]
Idle == [at |-> "idle", intent |-> "allow", row |-> {}]

Moves(c, at, intent, row) ==
  call' = [call EXCEPT ![c] = [at |-> at, intent |-> intent, row |-> row]]
At(c, at) == call[c].at = at

Init ==
  /\ circuit = {}
  /\ call = [c \in Callers |-> Idle]
  /\ recorded = 0
-----------------------------------------------------------------------------
(***************************************************************************)
(* get_circuit.                                                            *)
(***************************************************************************)
Due(row) == row.state = "open" /\ row.opened = "ripe"

SelectWithoutTime(c) ==
  /\ At(c, "select")
  /\ \/ circuit = {} /\ Moves(c, "create", call[c].intent, {})
     \/ circuit # {} /\ Moves(c, "got", call[c].intent, circuit)
  /\ UNCHANGED <<circuit, recorded>>

Select(c) ==
  /\ At(c, "select")
  /\ \/ circuit = {} /\ Moves(c, "create", call[c].intent, {})
     \/ \E row \in circuit :
          Moves(c, IF Due(row) THEN "half_open" ELSE "got", call[c].intent, circuit)
  /\ UNCHANGED <<circuit, recorded>>

(* Of two that create the row, the unique key refuses the second; the      *)
(* error spoils its session and leaves execute_adapter.                    *)
Create(c) ==
  /\ At(c, "create")
  /\ \/ circuit = {} /\ circuit' = {Clean} /\ Moves(c, "refresh", call[c].intent, {})
     \/ circuit # {} /\ UNCHANGED circuit /\ Moves(c, "idle", "allow", {})
  /\ UNCHANGED recorded

HalfOpen(c) ==
  /\ At(c, "half_open")
  /\ \E row \in circuit, mine \in call[c].row :
       circuit' = {[row EXCEPT !.state = Written(row.state, mine.state, "half_open")]}
  /\ Moves(c, "refresh", call[c].intent, {})
  /\ UNCHANGED recorded

Refresh(c) ==
  /\ At(c, "refresh")
  /\ Moves(c, "got", call[c].intent, circuit)
  /\ UNCHANGED <<circuit, recorded>>
-----------------------------------------------------------------------------
(***************************************************************************)
(* execute_adapter.  A job whose action is unknown, or calls no target,    *)
(* fails without asking, and that counts against the circuit too.          *)
(***************************************************************************)
Begin(c) ==
  /\ At(c, "idle")
  /\ \E intent \in {"allow", "failure"} : Moves(c, "select", intent, {})
  /\ UNCHANGED <<circuit, recorded>>

Asks(c, row) == At(c, "got") /\ call[c].intent = "allow" /\ row \in call[c].row

Allowed(c) ==
  /\ \E row \in call[c].row : Asks(c, row) /\ row.state # "open"
  /\ Moves(c, "calling", "allow", {})
  /\ UNCHANGED <<circuit, recorded>>

(* The refusal is itself reported as a failure.  Its traceback keeps the   *)
(* row object alive, so that record_circuit_failure finds the old row in   *)
(* the session; its time may have come meanwhile.                          *)
Refused(c) ==
  /\ \E row \in call[c].row :
       /\ Asks(c, row)
       /\ row.state = "open"
       /\ \/ Moves(c, "got", "failure", {row})
          \/ row.opened # "none" /\ Moves(c, "half_open", "failure", {row})
  /\ UNCHANGED <<circuit, recorded>>

Answer(c) ==
  /\ At(c, "calling")
  /\ \E intent \in {"success", "failure"} : Moves(c, "select", intent, {})
  /\ UNCHANGED <<circuit, recorded>>
-----------------------------------------------------------------------------
(***************************************************************************)
(* record_circuit_success and record_circuit_failure, from the row object  *)
(* on.                                                                     *)
(***************************************************************************)
Alone(c) == \A other \in Callers \ {c} : call[other].row = {}

RecordSuccess(c) ==
  /\ At(c, "got")
  /\ call[c].intent = "success"
  /\ \E row \in circuit, mine \in call[c].row :
       circuit' = {[state |-> Written(row.state, mine.state, "closed"),
                    failures |-> Written(row.failures, mine.failures, 0),
                    opened |-> Written(row.opened, mine.opened, "none")]}
  /\ recorded' = IF circuit' = {Clean} /\ Alone(c) THEN 0 ELSE recorded
  /\ Moves(c, "idle", "allow", {})

UpToThreshold(n) == IF n < Threshold THEN n ELSE Threshold

(* Where the comparison with the threshold is off by one.                  *)
RecordFailureEarly(c) ==
  /\ At(c, "got")
  /\ call[c].intent = "failure"
  /\ \E row \in circuit, mine \in call[c].row :
       LET failures == UpToThreshold(mine.failures + 1) IN
         circuit' = {IF failures + 1 < Threshold THEN [row EXCEPT !.failures = failures]
                     ELSE [state |-> Written(row.state, mine.state, "open"),
                           failures |-> failures, opened |-> "recent"]}
  /\ recorded' = UpToThreshold(recorded + 1)
  /\ Moves(c, "idle", "allow", {})

(* Where only the opening writes opened_at.                                *)
RecordFailureUntimed(c) ==
  /\ At(c, "got")
  /\ call[c].intent = "failure"
  /\ \E row \in circuit, mine \in call[c].row :
       LET failures == UpToThreshold(mine.failures + 1) IN
         circuit' = {IF failures < Threshold \/ mine.state = "open"
                     THEN [row EXCEPT !.failures = failures]
                     ELSE [state |-> "open", failures |-> failures, opened |-> "recent"]}
  /\ recorded' = UpToThreshold(recorded + 1)
  /\ Moves(c, "idle", "allow", {})

RecordFailure(c) ==
  /\ At(c, "got")
  /\ call[c].intent = "failure"
  /\ \E row \in circuit, mine \in call[c].row :
       LET failures == UpToThreshold(mine.failures + 1) IN
         circuit' = {IF failures < Threshold THEN [row EXCEPT !.failures = failures]
                     ELSE [state |-> Written(row.state, mine.state, "open"),
                           failures |-> failures, opened |-> "recent"]}
  /\ recorded' = UpToThreshold(recorded + 1)
  /\ Moves(c, "idle", "allow", {})

(* The process dies, a statement fails, or the job names its target in the *)
(* payload only, and then its failure is not recorded.                     *)
Dropped(c) ==
  /\ c \notin Steady
  /\ ~ At(c, "idle")
  /\ Moves(c, "idle", "allow", {})
  /\ UNCHANGED <<circuit, recorded>>

(* retry_after_seconds have passed since opened_at.                        *)
Ripen ==
  /\ \E row \in circuit : row.opened = "recent" /\ circuit' = {[row EXCEPT !.opened = "ripe"]}
  /\ UNCHANGED <<call, recorded>>

Works(c) ==
  \/ Begin(c) \/ Select(c) \/ Create(c) \/ HalfOpen(c) \/ Refresh(c)
  \/ Allowed(c) \/ Refused(c) \/ Answer(c) \/ RecordSuccess(c) \/ RecordFailure(c)

Next ==
  \/ \E c \in Callers : Works(c) \/ Dropped(c)
  \/ Ripen

Spec == Init /\ [][Next]_vars

(* A steady loop goes on with its statements, and with jobs for the        *)
(* target; it need not be scheduled before anybody else.                   *)
FairSpec == Spec /\ \A c \in Steady : WF_vars(Works(c))
-----------------------------------------------------------------------------
(***************************************************************************)
(* Properties.                                                             *)
(***************************************************************************)
Holding == {"half_open", "got"}

(* The row and the callers keep their types; a caller has a row object in  *)
(* hand exactly when it is about to use it.                                *)
TypeOK ==
  /\ circuit \in {{}} \cup {{row} : row \in Row}
  /\ call \in [Callers -> Call]
  /\ recorded \in 0 .. Threshold
  /\ \A c \in Callers : call[c].row # {} <=> call[c].at \in Holding

(* However the callers overwrite one another, failures are lost and never  *)
(* made up: a circuit is open or half open only when as many failures as   *)
(* its threshold asks for have been recorded since it was last closed by a *)
(* success that nobody overlapped.                                         *)
Earned(row) ==
  /\ row.failures <= recorded
  /\ row.state # "closed" => recorded = Threshold
OpenIsEarned == \A row \in circuit : Earned(row)

(* A success that overlaps an opening may leave the circuit open without   *)
(* the time from which retry_after_seconds count, and then get_circuit     *)
(* never half-opens it.  The refusals, which count as failures, end that:  *)
(* while jobs keep coming the circuit gets its time, or is left.           *)
Timeless == \E row \in circuit : row.state = "open" /\ row.opened = "none"
OpenGetsItsTime == Timeless ~> ~ Timeless

(* Time and again a circuit whose time has come, with no call under way,   *)
(* is half-opened: whatever refusals, failures and lost successes came     *)
(* before, an open circuit does not stay open once the target is left      *)
(* alone for retry_after_seconds.                                          *)
Open == \E row \in circuit : row.state = "open"
LeftAlone ==
  /\ \E row \in circuit : Due(row)
  /\ \A c \in Callers : call[c].row = {}
RipeIsTried == []<>LeftAlone => []<>~Open
=============================================================================
