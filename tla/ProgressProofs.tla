--------------------------- MODULE ProgressProofs ---------------------------
(***************************************************************************)
(* What the components of MCProgress guarantee whether or not they make    *)
(* progress: a circuit, for any number of callers and any threshold, and   *)
(* the checkpoints of the runtime, for any number of handlers, faults and  *)
(* changes.  Every behaviour of the composition is one of each component.  *)
(***************************************************************************)
EXTENDS MCProgress, TLAPS

-----------------------------------------------------------------------------
(***************************************************************************)
(* The circuit breaker.                                                    *)
(***************************************************************************)
(* The row objects in the sessions were earned as the row itself is, or a  *)
(* session would bring back an opening that nothing accounts for.          *)
InHandEarned ==
  \A c \in Callers : \A row \in call[c].row :
    Earned(row) /\ (At(c, "half_open") => row.state = "open")

(* The row is never deleted: a refresh finds it.                           *)
RowIsThere == \A c \in Callers : At(c, "refresh") => circuit # {}

CircuitInv == TypeOK /\ OpenIsEarned /\ InHandEarned /\ RowIsThere

RowSets == {{}} \cup {{row} : row \in Row}

LEMMA CleanTyped == Clean \in Row
BY ThresholdAssumption DEF Clean, Row

LEMMA CircuitInitInv == Init => CircuitInv
<1>1. SUFFICES ASSUME Init PROVE CircuitInv
  OBVIOUS
<1>2. TypeOK
  BY <1>1, ThresholdAssumption DEF Init, TypeOK, Call, Idle, Holding
<1>3. OpenIsEarned /\ InHandEarned /\ RowIsThere
  BY <1>1 DEF Init, Idle, OpenIsEarned, InHandEarned, RowIsThere, At
<1> QED BY <1>2, <1>3 DEF CircuitInv

(* A caller goes on with the row, its own row object or nothing in hand.   *)
LEMMA CallerMoveStep ==
  ASSUME CircuitInv, NEW c \in Callers,
         NEW at \in {"idle", "select", "create", "half_open", "got", "calling"},
         NEW intent \in {"allow", "success", "failure"}, NEW row,
         row = {} \/ row = circuit \/ row = call[c].row,
         row # {} <=> at \in Holding,
         at = "half_open" => \A found \in row : found.state = "open",
         Moves(c, at, intent, row), UNCHANGED <<circuit, recorded>>
  PROVE  CircuitInv'
<1>1. row \in RowSets
  BY DEF CircuitInv, TypeOK, Call, RowSets
<1>2. call' \in [Callers -> Call] /\ \A other \in Callers :
        call'[other] = IF other = c THEN [at |-> at, intent |-> intent, row |-> row]
                       ELSE call[other]
  BY <1>1 DEF CircuitInv, TypeOK, Moves, Call, RowSets
<1>3. TypeOK'
  BY <1>2 DEF CircuitInv, TypeOK
<1>4. \A found \in row : Earned(found)
  BY DEF CircuitInv, OpenIsEarned, InHandEarned
<1>5. OpenIsEarned' /\ InHandEarned' /\ RowIsThere'
  BY <1>2, <1>4 DEF CircuitInv, OpenIsEarned, InHandEarned, RowIsThere, Earned, At
<1> QED BY <1>3, <1>5 DEF CircuitInv

(* A caller writes an earned row and has nothing in hand afterwards.       *)
LEMMA RowWriteStep ==
  ASSUME CircuitInv, NEW c \in Callers,
         NEW at \in {"idle", "refresh"}, NEW intent \in {"allow", "success", "failure"},
         Moves(c, at, intent, {}), NEW new \in Row, circuit' = {new}, Earned(new)',
         recorded' \in 0 .. Threshold,
         recorded <= recorded' \/ Alone(c)
  PROVE  CircuitInv'
<1>1. call' \in [Callers -> Call] /\ \A other \in Callers :
        call'[other] = IF other = c THEN [at |-> at, intent |-> intent, row |-> {}]
                       ELSE call[other]
  BY DEF CircuitInv, TypeOK, Moves, Call
<1>2. TypeOK'
  BY <1>1 DEF CircuitInv, TypeOK, Holding
<1>3. OpenIsEarned'
  BY DEF OpenIsEarned
<1>4. InHandEarned'
  <2>1. SUFFICES ASSUME NEW other \in Callers, NEW row \in call'[other].row
                 PROVE  Earned(row)' /\ (At(other, "half_open")' => row.state = "open")
    BY DEF InHandEarned
  <2>2. other # c /\ row \in call[other].row /\ row \in Row
    BY <1>1, <2>1 DEF CircuitInv, TypeOK, Call
  <2>3. recorded <= recorded' /\ Earned(row)
    BY <2>2 DEF Alone, CircuitInv, InHandEarned
  <2>4. recorded \in 0 .. Threshold /\ row.failures \in 0 .. Threshold
    BY <2>2 DEF CircuitInv, TypeOK, Row
  <2>5. Earned(row)'
    BY <2>3, <2>4, ThresholdAssumption DEF Earned
  <2> QED BY <1>1, <2>2, <2>5 DEF At, CircuitInv, InHandEarned
<1> QED BY <1>2, <1>3, <1>4 DEF CircuitInv, RowIsThere

LEMMA CreateStep == ASSUME CircuitInv, NEW c \in Callers, Create(c) PROVE CircuitInv'
<1>1. call[c].intent \in {"allow", "success", "failure"}
  BY DEF CircuitInv, TypeOK, Call
<1>2. CASE circuit' = {Clean}
  <2>1. Earned(Clean)' /\ recorded' \in 0 .. Threshold /\ recorded <= recorded'
    BY <1>2, ThresholdAssumption DEF Create, CircuitInv, TypeOK, Earned, Clean
  <2> QED BY <1>1, <1>2, <2>1, CleanTyped, RowWriteStep DEF Create
<1>3. CASE circuit' = circuit
  BY <1>1, <1>3, CleanTyped, CallerMoveStep DEF Create, Holding, CircuitInv, TypeOK
<1> QED BY <1>2, <1>3 DEF Create

LEMMA HalfOpenStep == ASSUME CircuitInv, NEW c \in Callers, HalfOpen(c) PROVE CircuitInv'
<1>1. PICK row \in circuit, mine \in call[c].row :
        circuit' = {[row EXCEPT !.state = Written(row.state, mine.state, "half_open")]}
  BY DEF HalfOpen
<1> DEFINE new == [row EXCEPT !.state = Written(row.state, mine.state, "half_open")]
<1>2. row \in Row /\ mine \in Row /\ Earned(row) /\ Earned(mine)
  BY <1>1 DEF CircuitInv, TypeOK, Call, OpenIsEarned, InHandEarned
<1>3. new \in Row
  BY <1>2 DEF Row, Written
<1>4. mine.state = "open"
  BY <1>1 DEF HalfOpen, CircuitInv, InHandEarned
<1>5. Earned(new)' /\ recorded' \in 0 .. Threshold /\ recorded <= recorded'
  BY <1>2, <1>4, ThresholdAssumption DEF HalfOpen, CircuitInv, TypeOK, Earned, Written, Row
<1>6. call[c].intent \in {"allow", "success", "failure"}
  BY DEF CircuitInv, TypeOK, Call
<1> QED BY <1>1, <1>3, <1>5, <1>6, RowWriteStep DEF HalfOpen

LEMMA RecordSuccessStep == ASSUME CircuitInv, NEW c \in Callers, RecordSuccess(c) PROVE CircuitInv'
<1>1. PICK row \in circuit, mine \in call[c].row :
        circuit' = {[state |-> Written(row.state, mine.state, "closed"),
                     failures |-> Written(row.failures, mine.failures, 0),
                     opened |-> Written(row.opened, mine.opened, "none")]}
  BY DEF RecordSuccess
<1> DEFINE new == [state |-> Written(row.state, mine.state, "closed"),
                   failures |-> Written(row.failures, mine.failures, 0),
                   opened |-> Written(row.opened, mine.opened, "none")]
<1>2. row \in Row /\ Earned(row)
  BY <1>1 DEF CircuitInv, TypeOK, OpenIsEarned
<1>3. new \in Row
  BY <1>2, ThresholdAssumption DEF Row, Written
<1>4. recorded \in 0 .. Threshold
  BY DEF CircuitInv, TypeOK
<1>5. CASE new = Clean /\ Alone(c) /\ recorded' = 0
  <2>1. Earned(new)'
    BY <1>5, ThresholdAssumption DEF Earned, Clean
  <2> QED BY <1>1, <1>3, <1>5, <2>1, ThresholdAssumption, RowWriteStep DEF RecordSuccess
<1>6. CASE recorded' = recorded
  <2>1. Earned(new)'
    BY <1>2, <1>4, <1>6, ThresholdAssumption DEF Earned, Written, Row
  <2> QED BY <1>1, <1>3, <1>4, <1>6, <2>1, ThresholdAssumption, RowWriteStep DEF RecordSuccess
<1> QED BY <1>1, <1>5, <1>6 DEF RecordSuccess

LEMMA RecordFailureStep == ASSUME CircuitInv, NEW c \in Callers, RecordFailure(c) PROVE CircuitInv'
<1>1. PICK row \in circuit, mine \in call[c].row :
        LET failures == UpToThreshold(mine.failures + 1) IN
          circuit' = {IF failures < Threshold THEN [row EXCEPT !.failures = failures]
                      ELSE [state |-> Written(row.state, mine.state, "open"),
                            failures |-> failures, opened |-> "recent"]}
  BY DEF RecordFailure
<1>2. row \in Row /\ mine \in Row /\ Earned(row) /\ Earned(mine)
  BY <1>1 DEF CircuitInv, TypeOK, Call, OpenIsEarned, InHandEarned
<1>3. /\ recorded \in 0 .. Threshold /\ recorded' \in 0 .. Threshold
      /\ recorded <= recorded'
  BY ThresholdAssumption DEF RecordFailure, UpToThreshold, CircuitInv, TypeOK
<1> DEFINE failures == UpToThreshold(mine.failures + 1)
<1>4. failures \in 0 .. Threshold /\ failures <= recorded'
  BY <1>2, <1>3, ThresholdAssumption DEF RecordFailure, UpToThreshold, Earned, Row
<1>5. CASE failures < Threshold
  <2> DEFINE new == [row EXCEPT !.failures = failures]
  <2>1. new \in Row /\ Earned(new)'
    BY <1>2, <1>3, <1>4, ThresholdAssumption DEF Earned, Row
  <2> QED BY <1>1, <1>3, <1>5, <2>1, RowWriteStep DEF RecordFailure
<1>6. CASE ~ (failures < Threshold)
  <2> DEFINE new == [state |-> Written(row.state, mine.state, "open"),
                     failures |-> failures, opened |-> "recent"]
  <2>1. recorded' = Threshold
    BY <1>3, <1>4, <1>6, ThresholdAssumption
  <2>2. new \in Row /\ Earned(new)'
    BY <1>2, <1>4, <2>1 DEF Earned, Row, Written
  <2> QED BY <1>1, <1>3, <1>6, <2>2, RowWriteStep DEF RecordFailure
<1> QED BY <1>5, <1>6

LEMMA RipenStep == ASSUME CircuitInv, Ripen PROVE CircuitInv'
<1>1. PICK row \in circuit : circuit' = {[row EXCEPT !.opened = "ripe"]}
  BY DEF Ripen
<1>2. row \in Row /\ Earned(row)
  BY <1>1 DEF CircuitInv, TypeOK, OpenIsEarned
<1>3. TypeOK'
  BY <1>1, <1>2 DEF Ripen, CircuitInv, TypeOK, Row
<1>4. OpenIsEarned' /\ InHandEarned' /\ RowIsThere'
  BY <1>1, <1>2 DEF Ripen, CircuitInv, OpenIsEarned, InHandEarned, RowIsThere, Earned, Row, At
<1> QED BY <1>3, <1>4 DEF CircuitInv

(* The steps that change only what a caller has in hand.                   *)
LEMMA CallerStep ==
  ASSUME CircuitInv, NEW c \in Callers,
         Begin(c) \/ Select(c) \/ Refresh(c) \/ Allowed(c) \/ Refused(c) \/ Answer(c) \/ Dropped(c)
  PROVE  CircuitInv'
<1>1. call[c].intent \in {"allow", "success", "failure"}
  BY DEF CircuitInv, TypeOK, Call
<1>2. CASE Begin(c) \/ Allowed(c) \/ Answer(c) \/ Dropped(c)
  BY <1>2, CallerMoveStep DEF Begin, Allowed, Answer, Dropped, Holding
<1>3. CASE Select(c)
  <2>1. CASE circuit = {} /\ Moves(c, "create", call[c].intent, {})
    BY <1>1, <1>3, <2>1, CallerMoveStep DEF Select, Holding
  <2>2. ASSUME NEW row \in circuit,
               Moves(c, IF Due(row) THEN "half_open" ELSE "got", call[c].intent, circuit)
        PROVE  CircuitInv'
    <3>1. circuit = {row}
      BY <2>2 DEF CircuitInv, TypeOK
    <3> QED BY <1>1, <1>3, <2>2, <3>1, CallerMoveStep DEF Select, Holding, Due
  <2> QED BY <1>3, <2>1, <2>2 DEF Select
<1>4. CASE Refresh(c)
  BY <1>1, <1>4, CallerMoveStep DEF Refresh, Holding, CircuitInv, RowIsThere
<1>5. CASE Refused(c)
  <2>1. PICK row \in call[c].row :
          /\ row.state = "open"
          /\ Moves(c, "got", "failure", {row}) \/ Moves(c, "half_open", "failure", {row})
    BY <1>5 DEF Refused
  <2>2. call[c].row = {row}
    BY <2>1 DEF CircuitInv, TypeOK, Call
  <2> QED BY <1>5, <2>1, <2>2, CallerMoveStep DEF Refused, Holding
<1> QED BY <1>2, <1>3, <1>4, <1>5

LEMMA CircuitNextInv == CircuitInv /\ [Next]_vars => CircuitInv'
<1> SUFFICES ASSUME CircuitInv, [Next]_vars PROVE CircuitInv'
  OBVIOUS
<1>1. ASSUME NEW c \in Callers, Works(c) \/ Dropped(c)
      PROVE  CircuitInv'
  BY <1>1, CallerStep, CreateStep, HalfOpenStep, RecordSuccessStep, RecordFailureStep DEF Works
<1>2. CASE Ripen
  BY <1>2, RipenStep
<1>3. CASE UNCHANGED vars
  BY <1>3 DEF vars, CircuitInv, TypeOK, OpenIsEarned, InHandEarned, RowIsThere, Earned, At
<1> QED BY <1>1, <1>2, <1>3 DEF Next

LEMMA CircuitInvariance == Spec => []CircuitInv
BY CircuitInitInv, CircuitNextInv, PTL DEF Spec
-----------------------------------------------------------------------------
(* The row and the callers keep their types, and a caller has a row object *)
(* in hand exactly when it is about to use it.                             *)
THEOREM CircuitTypeCorrect == Spec => []TypeOK
<1>1. CircuitInv => TypeOK
  BY DEF CircuitInv
<1> QED BY <1>1, CircuitInvariance, PTL

(* No circuit opens, or stays open or half open, without as many recorded  *)
(* failures as its threshold asks for.                                     *)
THEOREM OpenAlwaysEarned == Spec => []OpenIsEarned
<1>1. CircuitInv => OpenIsEarned
  BY DEF CircuitInv
<1> QED BY <1>1, CircuitInvariance, PTL
-----------------------------------------------------------------------------
(***************************************************************************)
(* The checkpoints.                                                        *)
(***************************************************************************)
(* A live process has seen all that is settled or stored, and no snapshot  *)
(* under way is older than what is settled.                                *)
Fresher ==
  /\ \A row \in stored : settled <= row.version
  /\ settled > 0 => stored # {}
  /\ phase # "down" =>
       /\ settled <= runtime.version
       /\ \A row \in stored : row.version <= runtime.version
  /\ \A s \in Busy : /\ settled <= save[s].snapshot.version
                     /\ save[s].snapshot.version <= runtime.version

CheckpointInv == CheckpointTypeOK /\ ModeShown /\ Fresher

LEMMA FreshTyped == Fresh \in Runtime /\ SystemMode(Fresh.faults) = "nominal"
BY VersionsAssumption DEF Fresh, Runtime, Severities, SystemMode

LEMMA ModeTyped ==
  ASSUME NEW faults PROVE SystemMode(faults) \in {"nominal", "degraded", "safe_degraded"}
BY DEF SystemMode

LEMMA CheckpointInitInv == CheckpointInit => CheckpointInv
<1>1. SUFFICES ASSUME CheckpointInit PROVE CheckpointInv
  OBVIOUS
<1>2. CheckpointTypeOK
  BY <1>1, FreshTyped, VersionsAssumption
  DEF CheckpointInit, CheckpointTypeOK, Save, NoSave, Tables, Busy
<1>3. ModeShown
  BY <1>1 DEF CheckpointInit, ModeShown
<1>4. Fresher
  BY <1>1 DEF CheckpointInit, Fresher, Busy
<1> QED BY <1>2, <1>3, <1>4 DEF CheckpointInv

(* A saver takes a snapshot of the runtime as it is after the step.        *)
LEMMA BeginStep ==
  ASSUME CheckpointInv, NEW s \in Savers, Begins(s, runtime'), phase # "down", phase' # "down",
         UNCHANGED <<stored, settled>>, runtime' \in Runtime,
         runtime.version <= runtime'.version, phase' \in {"up", "stopping"},
         shown' \in {"nominal", "degraded", "safe_degraded"},
         shown' = SystemMode(runtime'.faults)
  PROVE  CheckpointInv'
<1>1. CheckpointTypeOK'
  BY DEF CheckpointInv, CheckpointTypeOK, Begins, Save, Tables
<1>2. ModeShown'
  BY DEF ModeShown
<1>3. \A t \in Busy' : t = s \/ (t \in Busy /\ save'[t] = save[t])
  BY DEF Busy, Begins, CheckpointInv, CheckpointTypeOK
<1>4. save'[s].snapshot = runtime'
  BY DEF Begins, CheckpointInv, CheckpointTypeOK
<1>5. Fresher'
  <2>1. \A row \in stored : row.version <= runtime'.version
    BY DEF CheckpointInv, CheckpointTypeOK, Fresher, Tables, Runtime
  <2>2. settled <= runtime'.version
    BY DEF CheckpointInv, CheckpointTypeOK, Fresher, Runtime
  <2>3. \A t \in Busy : save[t].snapshot.version <= runtime'.version
    BY DEF CheckpointInv, CheckpointTypeOK, Fresher, Runtime, Save, Busy
  <2> QED BY <1>3, <1>4, <2>1, <2>2, <2>3, SMTT(30)
           DEF CheckpointInv, CheckpointTypeOK, Fresher, Runtime
<1> QED BY <1>1, <1>2, <1>5 DEF CheckpointInv

(* A saver that ends without writing.                                      *)
LEMMA EndStep ==
  ASSUME CheckpointInv, NEW s \in Savers, SaveEnds(s),
         UNCHANGED <<phase, runtime, shown, stored, settled>>
  PROVE  CheckpointInv'
<1>1. \A t \in Busy' : t \in Busy /\ save'[t] = save[t]
  BY DEF Busy, SaveEnds, CheckpointInv, CheckpointTypeOK
<1>2. CheckpointTypeOK'
  BY <1>1, FreshTyped DEF CheckpointInv, CheckpointTypeOK, SaveEnds, Save, NoSave, Tables
<1>3. ModeShown' /\ Fresher'
  BY <1>1 DEF CheckpointInv, ModeShown, Fresher
<1> QED BY <1>2, <1>3 DEF CheckpointInv

LEMMA StartStep == CheckpointInv /\ ProcessStart => CheckpointInv'
<1>1. SUFFICES ASSUME CheckpointInv, ProcessStart PROVE CheckpointInv'
  OBVIOUS
<1>2. /\ phase = "down" /\ phase' = "up" /\ UNCHANGED <<stored, save, settled>>
      /\ \/ stored = {} /\ runtime' = Fresh
         \/ stored = {runtime'}
      /\ runtime' \in Runtime
  BY <1>1, FreshTyped DEF ProcessStart, Hydrated, CheckpointInv, CheckpointTypeOK, Tables
<1>3. Busy = {} /\ Busy' = {}
  BY <1>1, <1>2 DEF CheckpointInv, CheckpointTypeOK, Busy
<1>4. CheckpointTypeOK' /\ ModeShown'
  BY <1>1, <1>2, <1>3, ModeTyped DEF ProcessStart, CheckpointInv, CheckpointTypeOK, ModeShown
<1>5. Fresher'
  BY <1>1, <1>2, <1>3 DEF CheckpointInv, CheckpointTypeOK, Fresher, Runtime, Fresh
<1> QED BY <1>4, <1>5 DEF CheckpointInv

LEMMA DownStep == CheckpointInv /\ ProcessDown => CheckpointInv'
<1>1. SUFFICES ASSUME CheckpointInv, ProcessDown PROVE CheckpointInv'
  OBVIOUS
<1>2. Busy' = {}
  BY <1>1 DEF ProcessDown, Busy
<1>3. CheckpointTypeOK'
  BY <1>1, <1>2, FreshTyped DEF CheckpointInv, CheckpointTypeOK, ProcessDown, Save, NoSave, Tables
<1>4. ModeShown' /\ Fresher'
  BY <1>1, <1>2 DEF CheckpointInv, ModeShown, Fresher, ProcessDown
<1> QED BY <1>3, <1>4 DEF CheckpointInv

LEMMA ChangeStep ==
  ASSUME CheckpointInv, NEW h \in Handlers, NEW faults \in [Faults -> Severities \cup {"none"}],
         phase = "up", runtime.version < MaxVersion, Changed(faults), Begins(h, runtime'),
         UNCHANGED <<phase, stored, settled>>
  PROVE  CheckpointInv'
<1>1. runtime' \in Runtime /\ runtime.version <= runtime'.version
  BY VersionsAssumption DEF Changed, CheckpointInv, CheckpointTypeOK, Runtime
<1>2. shown' = SystemMode(runtime'.faults)
  BY DEF Changed
<1>3. shown' \in {"nominal", "degraded", "safe_degraded"}
  BY <1>2, ModeTyped
<1> QED BY <1>1, <1>2, <1>3, BeginStep DEF Savers

LEMMA ReadingStep ==
  ASSUME CheckpointInv, NEW s \in Savers, Begins(s, runtime), phase # "down",
         phase' \in {"up", "stopping"}, UNCHANGED <<runtime, shown, stored, settled>>
  PROVE  CheckpointInv'
<1>1. runtime' \in Runtime /\ runtime.version <= runtime'.version
  BY DEF CheckpointInv, CheckpointTypeOK, Runtime
<1>2. Begins(s, runtime')
  BY DEF Begins
<1> QED BY <1>1, <1>2, BeginStep DEF CheckpointInv, CheckpointTypeOK, ModeShown

LEMMA SelectStep ==
  ASSUME CheckpointInv, NEW s \in Savers, SaveSelect(s)
  PROVE  CheckpointInv'
<1>1. Busy' = Busy /\ \A t \in Busy : save'[t].snapshot = save[t].snapshot
  <2>1. save[s].at # "idle" /\ save'[s].at # "idle"
    BY DEF SaveSelect, CheckpointInv, CheckpointTypeOK, Save
  <2>2. save[s] # NoSave /\ save'[s] # NoSave
    BY <2>1 DEF NoSave
  <2> QED BY <2>2 DEF Busy, SaveSelect, CheckpointInv, CheckpointTypeOK, Save
<1>2. CheckpointTypeOK'
  BY <1>1 DEF SaveSelect, CheckpointInv, CheckpointTypeOK, Save
<1>3. ModeShown' /\ Fresher'
  BY <1>1 DEF SaveSelect, CheckpointInv, ModeShown, Fresher
<1> QED BY <1>2, <1>3 DEF CheckpointInv

(* A saver that writes its snapshot.                                       *)
LEMMA SnapshotStep ==
  ASSUME CheckpointInv, NEW s \in Busy, stored' = {save[s].snapshot}, Settles(s), SaveEnds(s),
         UNCHANGED <<phase, runtime, shown>>
  PROVE  CheckpointInv'
<1>1. \A t \in Busy' : t \in Busy /\ save'[t] = save[t]
  BY DEF Busy, SaveEnds, CheckpointInv, CheckpointTypeOK
<1>2. save[s].snapshot \in Runtime /\ save[s].snapshot.version \in Nat
  BY DEF CheckpointInv, CheckpointTypeOK, Save, Busy, Runtime
<1>3. phase # "down"
  BY DEF CheckpointInv, CheckpointTypeOK
<1>4. \A t \in Busy : save[t].snapshot.version \in Nat
  BY DEF CheckpointInv, CheckpointTypeOK, Save, Busy, Runtime
<1>5. settled' \in 0 .. MaxVersion
  BY <1>2 DEF Settles, CheckpointInv, CheckpointTypeOK, Runtime
<1>6. CheckpointTypeOK'
  BY <1>1, <1>2, <1>5, FreshTyped
     DEF CheckpointInv, CheckpointTypeOK, SaveEnds, Save, NoSave, Tables
<1>7. \A t \in Busy : settled' <= save[t].snapshot.version
  BY <1>2, <1>4 DEF Settles, Older, CheckpointInv, CheckpointTypeOK, Fresher
<1>8. Fresher'
  BY <1>1, <1>2, <1>3, <1>5, <1>7 DEF Settles, CheckpointInv, CheckpointTypeOK, Fresher, Runtime
<1> QED BY <1>6, <1>8 DEF CheckpointInv, ModeShown

LEMMA CommitStep ==
  ASSUME CheckpointInv, NEW s \in Savers, SaveCommit(s)
  PROVE  CheckpointInv'
<1>1. s \in Busy
  BY DEF SaveCommit, Busy, NoSave
<1>2. CASE stored' = {save[s].snapshot} /\ Settles(s)
  BY <1>1, <1>2, SnapshotStep DEF SaveCommit
<1>3. CASE UNCHANGED <<stored, settled>>
  BY <1>3, EndStep DEF SaveCommit
<1> QED BY <1>2, <1>3 DEF SaveCommit, Written

LEMMA CheckpointNextInv == CheckpointInv /\ [CheckpointNext]_checkpointVars => CheckpointInv'
<1> SUFFICES ASSUME CheckpointInv, [CheckpointNext]_checkpointVars PROVE CheckpointInv'
  OBVIOUS
<1>1. CASE ProcessStart
  BY <1>1, StartStep
<1>2. CASE ProcessStop
  BY <1>2, ReadingStep DEF ProcessStop, Savers
<1>3. CASE ProcessStopped \/ ProcessCrash
  BY <1>3, DownStep DEF ProcessStopped, ProcessCrash
<1>4. ASSUME NEW h \in Handlers, NEW f \in Faults, NEW severity \in Severities,
             ReportFault(h, f, severity)
      PROVE  CheckpointInv'
  <2>1. [runtime.faults EXCEPT ![f] = severity] \in [Faults -> Severities \cup {"none"}]
    BY DEF CheckpointInv, CheckpointTypeOK, Runtime
  <2> QED BY <1>4, <2>1, ChangeStep DEF ReportFault
<1>5. ASSUME NEW h \in Handlers, NEW f \in Faults, ClearFault(h, f)
      PROVE  CheckpointInv'
  <2>1. [runtime.faults EXCEPT ![f] = "none"] \in [Faults -> Severities \cup {"none"}]
    BY DEF CheckpointInv, CheckpointTypeOK, Runtime
  <2>2. CASE UNCHANGED <<runtime, shown>>
    <3>1. Begins(h, runtime)
      BY <1>5, <2>2 DEF ClearFault, Begins
    <3> QED BY <1>5, <2>2, <3>1, ReadingStep DEF ClearFault, Savers
  <2> QED BY <1>5, <2>1, <2>2, ChangeStep DEF ClearFault
<1>6. CASE LoopBegins
  <2>1. phase' \in {"up", "stopping"}
    BY <1>6 DEF LoopBegins, CheckpointInv, CheckpointTypeOK
  <2> QED BY <1>6, <2>1, ReadingStep DEF LoopBegins, Savers
<1>7. ASSUME NEW s \in Savers, SaveSelect(s) \/ SaveCommit(s) \/ SaveFails(s)
      PROVE  CheckpointInv'
  BY <1>7, SelectStep, CommitStep, EndStep DEF SaveFails
<1>8. CASE UNCHANGED checkpointVars
  BY <1>8 DEF checkpointVars, CheckpointInv, CheckpointTypeOK, ModeShown, Fresher, Busy
<1> QED BY <1>1, <1>2, <1>3, <1>4, <1>5, <1>6, <1>7, <1>8 DEF CheckpointNext

LEMMA CheckpointInvariance == CheckpointSpec => []CheckpointInv
BY CheckpointInitInv, CheckpointNextInv, PTL DEF CheckpointSpec
-----------------------------------------------------------------------------
(* The row and the savers keep their types, and no saver outlives its      *)
(* process.                                                                *)
THEOREM CheckpointTypeCorrect == CheckpointSpec => []CheckpointTypeOK
<1>1. CheckpointInv => CheckpointTypeOK
  BY DEF CheckpointInv
<1> QED BY <1>1, CheckpointInvariance, PTL

(* The HMI shows the mode that the active faults imply, also after a       *)
(* restart.                                                                *)
THEOREM ModeAlwaysShown == CheckpointSpec => []ModeShown
<1>1. CheckpointInv => ModeShown
  BY DEF CheckpointInv
<1> QED BY <1>1, CheckpointInvariance, PTL

(* What was written while no older snapshot was under way is never lost.   *)
THEOREM SettledAlwaysSurvives == CheckpointSpec => []SettledSurvives
<1>1. CheckpointInv => SettledSurvives
  BY DEF CheckpointInv, CheckpointTypeOK, Fresher, SettledSurvives, Runtime
<1> QED BY <1>1, CheckpointInvariance, PTL
-----------------------------------------------------------------------------
(***************************************************************************)
(* The composition.                                                        *)
(***************************************************************************)

(* A step of the composition is a step of the component that is followed,  *)
(* and the others stutter.                                                 *)
LEMMA ProgressImplements == ProgressSpec => Spec /\ CheckpointSpec
<1>1. ProgressInit => Init /\ CheckpointInit
  BY DEF ProgressInit
<1>2. [ProgressNext]_allVars => [Next]_vars /\ [CheckpointNext]_checkpointVars
  BY DEF ProgressNext, allVars
<1> QED BY <1>1, <1>2, PTL DEF ProgressSpec, Spec, CheckpointSpec

(* Also beside the other components an open circuit was earned, and what   *)
(* has settled in the checkpoint table is not lost.                        *)
THEOREM ProgressIsSafe == ProgressSpec => [](OpenIsEarned /\ SettledSurvives)
BY ProgressImplements, OpenAlwaysEarned, SettledAlwaysSurvives, PTL
=============================================================================
