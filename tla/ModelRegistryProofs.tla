------------------------ MODULE ModelRegistryProofs ------------------------
(***************************************************************************)
(* What the model registry guarantees for any number of versions and       *)
(* sessions.                                                               *)
(***************************************************************************)
EXTENDS ModelRegistry, Functions, FiniteSetTheorems, TLAPS

-----------------------------------------------------------------------------
(***************************************************************************)
(* The inductive invariant.                                                *)
(***************************************************************************)

Activating == {"demote", "lock", "commit"}

(* A session knows a version that exists, and one that is to be activated  *)
(* was read with a passed validation.                                      *)
SessionSound(h, s) ==
  /\ s.at \notin {"idle", "count"} => s.version \in Versions
  /\ s.at \in Activating \cup {"judge", "validate", "retire"} => s.version \in Registered
  /\ s.at \in Activating => h \in Activators /\ Vetted(s.row) /\ s.version \in vouched
  /\ s.at = "judge" => h \in Activators /\ s.row.status = "registered"
  /\ s.at = "insert" => \A u \in Versions : u < s.version => u \in Registered
  /\ s.rows \subseteq Registered

Sound == \A h \in Sessions : SessionSound(h, session[h])

(* Every passed validation is on record, and so is every active version.   *)
Vouching == \A v \in Versions :
  models[v].status = "active" \/ models[v].validated = "passed" => v \in vouched

(* Each active version was activated last by a session of its own, and an  *)
(* activation under way leaves no other active version of its session.     *)
Tenure ==
  /\ \A v \in Active : answered[v] \in Activators
  /\ \A u, v \in Active : answered[u] = answered[v] => u = v
  /\ \A h \in Sessions : session[h].at \in {"lock", "commit"} =>
       \A v \in Active \ (session[h].rows \cup {session[h].version}) : answered[v] # h

Inv == TypeOK /\ Sound /\ Vouching /\ Tenure

LEMMA InitInv == Init => Inv
<1>1. SUFFICES ASSUME Init PROVE Inv
  OBVIOUS
<1>2. TypeOK
  BY <1>1, VersionsAssumption
  DEF Init, TypeOK, Versions, Row, NoRow, Verdicts, Statuses, Session, Idle, Places, Registered
<1>3. Sound
  BY <1>1 DEF Init, Sound, SessionSound, Idle, Activating
<1>4. Vouching
  BY <1>1 DEF Init, Vouching, NoRow
<1>5. Tenure
  BY <1>1 DEF Init, Tenure, Active, NoRow, Idle
<1> QED BY <1>2, <1>3, <1>4, <1>5 DEF Inv
-----------------------------------------------------------------------------
(***************************************************************************)
(* A step of one session, by what it does to the rest.                     *)
(***************************************************************************)

(* When no version disappears and no validation is forgotten, the other    *)
(* sessions stay sound.                                                    *)
LEMMA OthersSound ==
  ASSUME Inv, NEW h \in Sessions, NEW s,
         session' = [session EXCEPT ![h] = s],
         SessionSound(h, s)',
         Registered \subseteq Registered', vouched \subseteq vouched'
  PROVE  Sound'
<1> SUFFICES ASSUME NEW g \in Sessions PROVE SessionSound(g, session[g])'
  BY DEF Sound
<1>1. CASE g = h
  <2>1. session'[g] = s
    BY <1>1 DEF Inv, TypeOK
  <2> QED BY <1>1, <2>1 DEF SessionSound
<1>2. CASE g # h
  <2>1. session'[g] = session[g]
    BY <1>2 DEF Inv, TypeOK
  <2>2. SessionSound(g, session[g])
    BY DEF Inv, Sound
  <2> QED BY <2>1, <2>2 DEF SessionSound
<1> QED BY <1>1, <1>2

(* When nothing becomes active and the session is not activating, tenure   *)
(* stays as it is.                                                         *)
LEMMA TenureKept ==
  ASSUME Inv, NEW h \in Sessions, NEW s,
         session' = [session EXCEPT ![h] = s], s.at \notin {"lock", "commit"},
         Active' \subseteq Active, answered' = answered
  PROVE  Tenure'
<1>1. \A g \in Sessions : session'[g].at \in {"lock", "commit"} =>
        session'[g] = session[g]
  BY DEF Inv, TypeOK
<1> QED BY <1>1 DEF Inv, Tenure

(* A step that only reads.                                                 *)
LEMMA ReadStep ==
  ASSUME Inv, NEW h \in Sessions, NEW s \in Session,
         session' = [session EXCEPT ![h] = s], s.at \notin {"lock", "commit"},
         SessionSound(h, s), UNCHANGED <<models, vouched, answered>>
  PROVE  Inv'
<1>1. Registered' = Registered /\ Active' = Active
  BY DEF Registered, Active
<1>2. TypeOK'
  BY <1>1 DEF Inv, TypeOK
<1>3. Sound'
  <2>1. SessionSound(h, s)'
    BY <1>1 DEF SessionSound
  <2> QED BY <1>1, <2>1, OthersSound
<1>4. Vouching'
  BY DEF Inv, Vouching
<1>5. Tenure'
  BY <1>1, TenureKept
<1> QED BY <1>2, <1>3, <1>4, <1>5 DEF Inv

(* What Goes and Ends put into a session.                                  *)
LEMMA GoesTyped ==
  ASSUME NEW place \in Places, NEW v \in 0 .. MaxVersion + 1, NEW row \in Row
  PROVE  [at |-> place, version |-> v, row |-> row, rows |-> {}] \in Session
BY DEF Session

LEMMA IdleTyped == Idle \in Session /\ NoRow \in Row
BY VersionsAssumption DEF Idle, NoRow, Row, Session, Places, Verdicts, Statuses

LEMMA IdleSound == \A h \in Sessions : SessionSound(h, Idle)
BY DEF SessionSound, Idle, Activating

LEMMA VersionsTyped == Versions \subseteq 0 .. MaxVersion + 1 /\ 0 \in 0 .. MaxVersion + 1
BY VersionsAssumption DEF Versions
-----------------------------------------------------------------------------
(***************************************************************************)
(* Reading steps.                                                          *)
(***************************************************************************)

LEMMA EndStep ==
  ASSUME Inv, NEW h \in Sessions, Ends(h), UNCHANGED <<models, vouched, answered>>
  PROVE  Inv'
<1>1. Idle \in Session /\ Idle.at \notin {"lock", "commit"} /\ SessionSound(h, Idle)
  BY IdleTyped, IdleSound DEF Idle
<1> QED BY <1>1, ReadStep DEF Ends

LEMMA GoStep ==
  ASSUME Inv, NEW h \in Sessions, NEW place \in Places, NEW v \in Versions \cup {0},
         NEW row \in Row, Goes(h, place, v, row), place \notin {"lock", "commit"},
         SessionSound(h, [at |-> place, version |-> v, row |-> row, rows |-> {}]),
         UNCHANGED <<models, vouched, answered>>
  PROVE  Inv'
<1> DEFINE s == [at |-> place, version |-> v, row |-> row, rows |-> {}]
<1>1. s \in Session
  BY GoesTyped, VersionsTyped
<1>2. s.at \notin {"lock", "commit"}
  OBVIOUS
<1>3. session' = [session EXCEPT ![h] = s]
  BY DEF Goes
<1> HIDE DEF s
<1> QED BY <1>1, <1>2, <1>3, ReadStep DEF s

LEMMA CountStep ==
  ASSUME Inv, NEW h \in Activators, PipelineBegins(h)
  PROVE  Inv'
<1>1. SessionSound(h, [at |-> "count", version |-> 0, row |-> NoRow, rows |-> {}])
  BY DEF SessionSound, Activating
<1> QED BY <1>1, GoStep, IdleTyped DEF PipelineBegins, Places, Sessions

LEMMA RegisterReadStep ==
  ASSUME Inv, NEW h \in Sessions, NextVersionRead(h)
  PROVE  Inv'
<1>1. PICK n \in Versions : IsNextVersion(n) /\ Goes(h, "insert", n, NoRow)
  BY DEF NextVersionRead
<1>2. \A u \in Versions : u < n => u \in Registered
  BY <1>1, VersionsAssumption DEF IsNextVersion, Versions
<1>3. SessionSound(h, [at |-> "insert", version |-> n, row |-> NoRow, rows |-> {}])
  BY <1>2 DEF SessionSound, Activating
<1> QED BY <1>1, <1>3, GoStep, IdleTyped DEF NextVersionRead, Places

(* A vetted version has been vouched for.                                  *)
LEMMA VettedVouched ==
  ASSUME Inv, NEW v \in Versions, Vetted(models[v])
  PROVE  models[v] \in Row /\ v \in Registered /\ v \in vouched
BY DEF Inv, TypeOK, Vouching, Vetted, Registered

LEMMA DemotableStep ==
  ASSUME Inv, NEW h \in Activators, NEW v \in Versions, Vetted(models[v]),
         Goes(h, "demote", v, models[v]), UNCHANGED <<models, vouched, answered>>
  PROVE  Inv'
<1>1. models[v] \in Row /\ v \in Registered /\ v \in vouched
  BY VettedVouched
<1>2. SessionSound(h, [at |-> "demote", version |-> v, row |-> models[v], rows |-> {}])
  BY <1>1 DEF SessionSound, Activating
<1> QED BY <1>1, <1>2, GoStep DEF Places, Sessions

LEMMA NamedStep ==
  ASSUME Inv, NEW h \in Activators, NEW v \in Versions,
         NEW place \in {"fetch", "rollback", "choose", "retrain"},
         Goes(h, place, v, NoRow), UNCHANGED <<models, vouched, answered>>
  PROVE  Inv'
<1>1. SessionSound(h, [at |-> place, version |-> v, row |-> NoRow, rows |-> {}])
  BY DEF SessionSound, Activating
<1>2. place \in Places /\ place \notin {"lock", "commit"}
  BY DEF Places
<1> QED BY <1>1, <1>2, GoStep, IdleTyped DEF Sessions

LEMMA ClerkStep ==
  ASSUME Inv, NEW h \in Clerks, NEW v \in Versions, NEW place \in {"validate", "retire"},
         ClerkReads(h, place, v)
  PROVE  Inv'
<1>1. SessionSound(h, [at |-> place, version |-> v, row |-> models[v], rows |-> {}])
  BY DEF SessionSound, Activating, ClerkReads
<1>2. models[v] \in Row /\ place \in Places
  BY DEF Inv, TypeOK, Places
<1> QED BY <1>1, <1>2, GoStep DEF ClerkReads, Sessions
-----------------------------------------------------------------------------
(***************************************************************************)
(* Writing steps other than the activation.                                *)
(***************************************************************************)

(* Active versions may go, validations may come.                           *)
LEMMA WriteStep ==
  ASSUME Inv, NEW h \in Sessions, NEW s \in Session,
         session' = [session EXCEPT ![h] = s], s.at \notin {"lock", "commit"},
         SessionSound(h, s)',
         NEW v \in Versions, NEW row \in Row, models' = [models EXCEPT ![v] = row],
         row.status # "absent",
         \A u \in Versions : u < v => u \in Registered,
         row.status = "active" => v \in Active,
         vouched' = vouched \/ vouched' = vouched \cup {v},
         row.validated = "passed" => v \in vouched',
         answered' = answered
  PROVE  Inv'
<1>1. Registered' = Registered \cup {v}
  BY DEF Registered, Inv, TypeOK
<1>2. Active' \subseteq Active
  BY DEF Active, Inv, TypeOK
<1>3. TypeOK'
  <2>1. \A u, w \in Versions : u < w /\ w \in Registered' => u \in Registered'
    BY <1>1 DEF Inv, TypeOK
  <2> QED BY <2>1 DEF Inv, TypeOK
<1>4. Sound'
  BY <1>1, OthersSound
<1>5. Vouching'
  BY DEF Inv, TypeOK, Vouching, Active
<1>6. Tenure'
  BY <1>2, TenureKept
<1> QED BY <1>3, <1>4, <1>5, <1>6 DEF Inv

LEMMA InsertStep ==
  ASSUME Inv, NEW h \in Sessions, RegisterInsert(h)
  PROVE  Inv'
<1>0. PICK v : v = session[h].version
  OBVIOUS
<1>1. v \in Versions /\ (\A u \in Versions : u < v => u \in Registered)
  BY <1>0 DEF Inv, Sound, SessionSound, RegisterInsert, At
<1>2. CASE v \in Registered /\ Ends(h) /\ UNCHANGED <<models, vouched>>
  BY <1>2, EndStep DEF RegisterInsert
<1>3. ASSUME v \notin Registered,
             NEW verdict \in (IF h \in Clerks THEN Verdicts ELSE {"none"}),
             models' = [models EXCEPT ![v] = [status |-> "registered", validated |-> verdict]],
             vouched' = IF verdict = "passed" THEN vouched \cup {v} ELSE vouched,
             IF h \in Clerks THEN Ends(h)
             ELSE Goes(h, "judge", v, [status |-> "registered", validated |-> verdict])
      PROVE  Inv'
  <2> DEFINE row == [status |-> "registered", validated |-> verdict]
             judge == [at |-> "judge", version |-> v, row |-> row, rows |-> {}]
             s == IF h \in Clerks THEN Idle ELSE judge
  <2>1. row \in Row
    BY <1>3 DEF Row, Statuses, Verdicts
  <2>2. v \in Registered'
    BY <1>1, <1>3 DEF Registered, Inv, TypeOK
  <2>3. s \in Session /\ s.at \notin {"lock", "commit"}
    <3>1. judge \in Session
      BY <1>1, <2>1, GoesTyped, VersionsTyped DEF Places
    <3> QED BY <3>1, IdleTyped DEF Idle
  <2>4. SessionSound(h, s)'
    <3>1. CASE h \in Clerks
      BY <3>1 DEF SessionSound, Idle, Activating
    <3>2. CASE h \notin Clerks
      BY <3>2, <2>2, <1>1 DEF SessionSound, Sessions, Activating
    <3> QED BY <3>1, <3>2
  <2>5. session' = [session EXCEPT ![h] = s]
    BY <1>3 DEF Ends, Goes
  <2>6. answered' = answered
    BY DEF RegisterInsert
  <2>7. row.status = "registered" /\ row.validated = verdict
    OBVIOUS
  <2>8. verdict = "passed" => v \in vouched'
    BY <1>3
  <2>9. vouched' = vouched \/ vouched' = vouched \cup {v}
    BY <1>3
  <2> HIDE DEF s, row
  <2>10. models' = [models EXCEPT ![v] = row]
    BY <1>3 DEF row
  <2> QED BY <1>1, <2>1, <2>3, <2>4, <2>5, <2>6, <2>7, <2>8, <2>9, <2>10, WriteStep
<1> QED BY <1>0, <1>2, <1>3 DEF RegisterInsert

(* Judged changes the validation of a version that exists.                 *)
LEMMA JudgedStep ==
  ASSUME Inv, NEW h \in Sessions, NEW s \in Session,
         session' = [session EXCEPT ![h] = s], s.at \notin {"lock", "commit"},
         NEW v \in Registered, NEW passed \in BOOLEAN, Judged(v, passed),
         SessionSound(h, s)', answered' = answered
  PROVE  Inv'
<1> DEFINE row == [models[v] EXCEPT !.validated = IF passed THEN "passed" ELSE "failed"]
<1>1. v \in Versions /\ models[v] \in Row /\ models[v].status # "absent"
  BY DEF Registered, Inv, TypeOK
<1>2. /\ row \in Row
      /\ row.status = models[v].status
      /\ row.validated = IF passed THEN "passed" ELSE "failed"
  BY <1>1 DEF Row, Verdicts
<1>3. models' = [models EXCEPT ![v] = row]
  BY <1>1 DEF Judged, Inv, TypeOK
<1>4. \A u \in Versions : u < v => u \in Registered
  BY <1>1 DEF Inv, TypeOK
<1>5. /\ vouched' = vouched \/ vouched' = vouched \cup {v}
      /\ row.validated = "passed" => v \in vouched'
  BY <1>2 DEF Judged
<1>6. row.status = "active" => v \in Active
  BY <1>1, <1>2 DEF Active
<1>7. row.status # "absent"
  BY <1>1, <1>2
<1> HIDE DEF row
<1> QED BY <1>1, <1>2, <1>3, <1>4, <1>5, <1>6, <1>7, WriteStep

LEMMA TrainJudgeStep ==
  ASSUME Inv, NEW h \in Activators, NEW passed \in BOOLEAN, TrainJudge(h, passed)
  PROVE  Inv'
<1>0. PICK v, held : v = session[h].version /\ held = session[h].row
  OBVIOUS
<1> DEFINE row == [held EXCEPT !.validated = "passed"]
           next == [at |-> "demote", version |-> v, row |-> row, rows |-> {}]
<1>1. /\ h \in Sessions /\ v \in Registered /\ v \in Versions
      /\ held \in Row /\ held.status = "registered"
  BY <1>0 DEF Inv, Sound, SessionSound, TrainJudge, At, TypeOK, Session, Sessions
<1>2. Judged(v, passed) /\ answered' = answered
  BY <1>0 DEF TrainJudge
<1>3. CASE Ends(h)
  <2>1. SessionSound(h, Idle)'
    BY DEF SessionSound, Idle, Activating
  <2>2. Idle.at \notin {"lock", "commit"}
    BY DEF Idle
  <2> QED BY <1>1, <1>2, <1>3, <2>1, <2>2, IdleTyped, JudgedStep DEF Ends
<1>4. CASE passed /\ Goes(h, "demote", v, row)
  <2>1. row \in Row /\ Vetted(row)
    BY <1>1 DEF Row, Verdicts, Vetted
  <2>2. next \in Session /\ next.at \notin {"lock", "commit"}
    BY <1>1, <2>1, GoesTyped, VersionsTyped DEF Places
  <2>3. v \in vouched' /\ v \in Registered'
    BY <1>1, <1>2, <1>4 DEF Judged, Registered, Inv, TypeOK
  <2>4. SessionSound(h, next)'
    BY <1>1, <2>1, <2>3 DEF SessionSound, Activating, Vetted
  <2>5. session' = [session EXCEPT ![h] = next]
    BY <1>4 DEF Goes
  <2> HIDE DEF next
  <2> QED BY <1>1, <1>2, <2>2, <2>4, <2>5, JudgedStep
<1> QED BY <1>0, <1>3, <1>4 DEF TrainJudge

LEMMA ValidateCommitStep ==
  ASSUME Inv, NEW h \in Clerks, NEW passed \in BOOLEAN, ValidateCommit(h, passed)
  PROVE  Inv'
<1>1. h \in Sessions /\ session[h].version \in Registered
  BY DEF Inv, Sound, SessionSound, ValidateCommit, At, Sessions
<1>2. SessionSound(h, Idle)' /\ Idle.at \notin {"lock", "commit"}
  BY DEF SessionSound, Idle, Activating
<1> QED BY <1>1, <1>2, IdleTyped, JudgedStep DEF ValidateCommit, Ends

LEMMA RetireCommitStep ==
  ASSUME Inv, NEW h \in Clerks, RetireCommit(h)
  PROVE  Inv'
<1> DEFINE v == session[h].version
           row == [models[v] EXCEPT !.status =
                     Written(models[v].status, session[h].row.status, "retired")]
<1>1. h \in Sessions /\ v \in Registered /\ v \in Versions /\ models[v] \in Row
  BY DEF Inv, Sound, SessionSound, RetireCommit, At, Sessions, TypeOK, Registered
<1>2. /\ row \in Row
      /\ row.status \in {models[v].status, "retired"}
      /\ row.validated = models[v].validated
  BY <1>1 DEF Row, Statuses, Written
<1>3. models' = [models EXCEPT ![v] = row]
  BY <1>1 DEF RetireCommit, Inv, TypeOK
<1>4. \A u \in Versions : u < v => u \in Registered
  BY <1>1 DEF Inv, TypeOK
<1>5. row.status # "absent" /\ (row.status = "active" => v \in Active)
  BY <1>1, <1>2 DEF Active, Registered
<1>6. vouched' = vouched /\ (row.validated = "passed" => v \in vouched') /\ answered' = answered
  BY <1>1, <1>2 DEF RetireCommit, Inv, Vouching
<1>7. SessionSound(h, Idle)' /\ Idle.at \notin {"lock", "commit"}
  BY DEF SessionSound, Idle, Activating
<1>8. session' = [session EXCEPT ![h] = Idle]
  BY DEF RetireCommit, Ends
<1> HIDE DEF row, v
<1> QED BY <1>1, <1>2, <1>3, <1>4, <1>5, <1>6, <1>7, <1>8, IdleTyped, WriteStep
-----------------------------------------------------------------------------
(***************************************************************************)
(* The three steps of an activation.                                       *)
(***************************************************************************)

(* A session that keeps its version and row, and finds rows, stays sound.  *)
LEMMA Advance ==
  ASSUME Inv, NEW h \in Activators, session[h].at \in Activating,
         NEW place \in {"lock", "commit"}, NEW found \in SUBSET Registered,
         session' = [session EXCEPT ![h].at = place, ![h].rows = found],
         UNCHANGED <<models, vouched, answered>>
  PROVE  TypeOK' /\ Sound' /\ Vouching'
<1>0. PICK s : s = [session[h] EXCEPT !.at = place, !.rows = found]
  OBVIOUS
<1>1. /\ h \in Sessions /\ session[h] \in Session
      /\ session' = [session EXCEPT ![h] = s]
  BY <1>0 DEF Inv, TypeOK, Sessions
<1>2. /\ s \in Session /\ s.at = place /\ s.version = session[h].version
      /\ s.row = session[h].row /\ s.rows = found
  BY <1>0, <1>1 DEF Session, Places, Registered
<1>3. Registered' = Registered
  BY DEF Registered
<1>4. SessionSound(h, s)'
  <2>1. SessionSound(h, session[h])
    BY <1>1 DEF Inv, Sound
  <2> QED BY <1>2, <1>3, <2>1 DEF SessionSound, Activating
<1>5. Sound'
  BY <1>1, <1>3, <1>4, OthersSound
<1> QED BY <1>1, <1>2, <1>3, <1>5 DEF Inv, TypeOK, Vouching

LEMMA DemoteStep ==
  ASSUME Inv, NEW h \in Activators, Demote(h)
  PROVE  Inv'
<1>1. PICK found \in SUBSET Registered : found = Active \ {session[h].version}
  BY DEF Active, Registered
<1>2. session' = [session EXCEPT ![h].at = "lock", ![h].rows = found]
  BY <1>1 DEF Demote
<1>3. TypeOK' /\ Sound' /\ Vouching'
  BY <1>2, Advance DEF Demote, At, Activating
<1>4. Tenure'
  <2>1. /\ \A g \in Sessions \ {h} : session'[g] = session[g]
        /\ session'[h].rows = found /\ session'[h].version = session[h].version
    BY <1>2 DEF Inv, TypeOK, Sessions, Session
  <2>2. Active' = Active
    BY DEF Demote, Active
  <2> QED BY <1>1, <2>1, <2>2 DEF Inv, Tenure, Demote
<1> QED BY <1>3, <1>4 DEF Inv

LEMMA LockStep ==
  ASSUME Inv, NEW h \in Activators, Lock(h)
  PROVE  Inv'
<1>1. PICK found \in SUBSET Registered : found = session[h].rows \cap Active
  BY DEF Active, Registered
<1>2. session' = [session EXCEPT ![h].at = "commit", ![h].rows = found]
  BY <1>1 DEF Lock
<1>3. TypeOK' /\ Sound' /\ Vouching'
  BY <1>2, Advance DEF Lock, At, Activating
<1>4. Tenure'
  <2>1. /\ \A g \in Sessions \ {h} : session'[g] = session[g]
        /\ session'[h].rows = found /\ session'[h].version = session[h].version
    BY <1>2 DEF Inv, TypeOK, Sessions, Session
  <2>2. Active' = Active
    BY DEF Lock, Active
  <2>3. \A v \in Active \ (found \cup {session[h].version}) : answered[v] # h
    BY <1>1 DEF Inv, Tenure, Lock, At, Sessions
  <2> QED BY <2>1, <2>2, <2>3 DEF Inv, Tenure, Lock
<1> QED BY <1>3, <1>4 DEF Inv

LEMMA ActivateStep ==
  ASSUME Inv, NEW h \in Activators, Activate(h)
  PROVE  Inv'
<1>0. PICK s : s = session[h]
  OBVIOUS
<1>1. /\ h \in Sessions /\ s \in Session /\ s.at = "commit"
      /\ s.version \in Registered /\ s.version \in Versions /\ s.version \in vouched
      /\ session' = [session EXCEPT ![h] = Idle]
      /\ answered' = [answered EXCEPT ![s.version] = h]
      /\ vouched' = vouched
  BY <1>0 DEF Inv, TypeOK, Sound, SessionSound, Activate, At, Ends, Sessions, Activating, Registered
<1>2. models' = [v \in Versions |->
                   [models[v] EXCEPT !.status =
                      IF v = s.version THEN Written(@, s.row.status, "active")
                      ELSE IF v \in s.rows THEN "registered" ELSE @]]
  BY <1>0 DEF Activate
<1>3. \A v \in Versions :
        /\ models[v] \in Row /\ models'[v] \in Row
        /\ models'[v].validated = models[v].validated
        /\ models'[v].status = IF v = s.version
                               THEN Written(models[v].status, s.row.status, "active")
                               ELSE IF v \in s.rows THEN "registered" ELSE models[v].status
  <2> TAKE v \in Versions
  <2>1. models[v] \in Row
    BY DEF Inv, TypeOK
  <2>2. models'[v] = [models[v] EXCEPT !.status =
                        IF v = s.version THEN Written(@, s.row.status, "active")
                        ELSE IF v \in s.rows THEN "registered" ELSE @]
    BY <1>2
  <2> QED BY <2>1, <2>2 DEF Row, Statuses, Written
<1>4. Registered \subseteq Registered'
  BY <1>3 DEF Registered, Written
<1>5. \A v \in Active' : v = s.version \/ v \in Active \ (s.rows \cup {s.version})
  BY <1>3 DEF Active
<1>6. TypeOK'
  <2>1. models' \in [Versions -> Row]
    BY <1>2, <1>3
  <2>2. session' \in [Sessions -> Session] /\ answered' \in [Versions -> Sessions \cup {Nobody}]
    BY <1>1, IdleTyped DEF Inv, TypeOK
  <2>3. \A v \in Registered' : v \in Registered \/ v \in s.rows
    BY <1>1, <1>3 DEF Registered, Written
  <2>4. \A u, v \in Versions : u < v /\ v \in Registered' => u \in Registered'
    <3>1. s.rows \subseteq Registered
      BY <1>0, <1>1 DEF Inv, Sound, SessionSound
    <3> QED BY <1>4, <2>3, <3>1 DEF Inv, TypeOK
  <2> QED BY <1>1, <2>1, <2>2, <2>4 DEF Inv, TypeOK
<1>7. Sound'
  <2>1. SessionSound(h, Idle)'
    BY DEF SessionSound, Idle, Activating
  <2> QED BY <1>1, <1>4, <2>1, OthersSound
<1>8. Vouching'
  BY <1>1, <1>3, <1>5 DEF Inv, Vouching, Active
<1>9. Tenure'
  <2>1. \A v \in Active \ (s.rows \cup {s.version}) : answered[v] # h
    BY <1>0, <1>1 DEF Inv, Tenure
  <2>2. \A v \in Active' : answered'[v] = IF v = s.version THEN h ELSE answered[v]
    BY <1>1, <1>5 DEF Inv, TypeOK, Active
  <2>3. \A g \in Sessions : session'[g].at \in {"lock", "commit"} =>
          g # h /\ session'[g] = session[g]
    BY <1>1 DEF Inv, TypeOK, Idle
  <2> QED BY <1>5, <2>1, <2>2, <2>3 DEF Inv, Tenure
<1> QED BY <1>6, <1>7, <1>8, <1>9 DEF Inv
-----------------------------------------------------------------------------
(***************************************************************************)
(* The invariant is inductive.                                             *)
(***************************************************************************)

LEMMA StepInv == Inv /\ [Next]_vars => Inv'
<1> SUFFICES ASSUME Inv, [Next]_vars PROVE Inv'
  OBVIOUS
<1>1. ASSUME NEW h \in Sessions, RegisterRead(h) \/ RegisterInsert(h) \/ Dropped(h)
      PROVE  Inv'
  BY <1>1, RegisterReadStep, InsertStep, EndStep DEF RegisterRead, Dropped
<1>2. ASSUME NEW h \in Activators, TrainRead(h) \/ Retrain(h) \/ PipelineRead(h)
      PROVE  Inv'
  BY <1>2, CountStep, RegisterReadStep DEF TrainRead, Retrain, PipelineRead, Sessions
<1>3. ASSUME NEW h \in Activators, NEW passed \in BOOLEAN, TrainJudge(h, passed)
      PROVE  Inv'
  BY <1>3, TrainJudgeStep
<1>4. ASSUME NEW h \in Activators, NEW v \in Versions, Fetch(h, v) PROVE Inv'
  BY <1>4, DemotableStep DEF Fetch, Fetched
<1>5. ASSUME NEW h \in Activators, NEW v \in Versions, PromoteList(h, v) PROVE Inv'
  BY <1>5, NamedStep DEF PromoteList
<1>6. ASSUME NEW h \in Activators, PromoteFetch(h) PROVE Inv'
  <2>1. PICK v \in Versions : v = session[h].version
    BY <1>6 DEF PromoteFetch, At, Inv, Sound, SessionSound, Sessions
  <2> QED BY <1>6, <2>1, DemotableStep DEF PromoteFetch, Fetched
<1>7. ASSUME NEW h \in Activators, NEW place \in {"rollback", "choose", "retrain"},
             ActiveRead(h, place)
      PROVE  Inv'
  <2>1. PICK v \in Versions : Goes(h, place, v, NoRow)
    BY <1>7 DEF ActiveRead
  <2> QED BY <1>7, <2>1, NamedStep DEF ActiveRead
<1>8. ASSUME NEW h \in Activators, RollbackList(h) \/ AutoRollbackList(h) PROVE Inv'
  <2>1. PICK v \in Versions : Vetted(models[v]) /\ Goes(h, "demote", v, models[v])
    BY <1>8 DEF RollbackList, AutoRollbackList, Earlier
  <2> QED BY <1>8, <2>1, DemotableStep DEF RollbackList, AutoRollbackList
<1>9. ASSUME NEW h \in Activators, Demote(h) \/ Lock(h) \/ Activate(h) PROVE Inv'
  BY <1>9, DemoteStep, LockStep, ActivateStep
<1>10. ASSUME NEW h \in Clerks, NEW v \in Versions, ValidateRead(h, v) \/ RetireRead(h, v)
       PROVE  Inv'
  BY <1>10, ClerkStep DEF ValidateRead, RetireRead
<1>11. ASSUME NEW h \in Clerks, NEW passed \in BOOLEAN, ValidateCommit(h, passed)
       PROVE  Inv'
  BY <1>11, ValidateCommitStep
<1>12. ASSUME NEW h \in Clerks, RetireCommit(h) PROVE Inv'
  BY <1>12, RetireCommitStep
<1>13. CASE UNCHANGED vars
  <2>1. Registered' = Registered /\ Active' = Active
    BY <1>13 DEF vars, Registered, Active
  <2> QED BY <1>13, <2>1 DEF vars, Inv, TypeOK, Sound, SessionSound, Vouching, Tenure
<1> QED BY <1>1, <1>2, <1>3, <1>4, <1>5, <1>6, <1>7, <1>8, <1>9, <1>10, <1>11, <1>12, <1>13
        DEF Next

LEMMA Invariance == Spec => []Inv
BY InitInv, StepInv, PTL DEF Spec
-----------------------------------------------------------------------------
(* The table and the sessions keep their types, and versions are numbered  *)
(* without gaps, for any number of sessions.                               *)
THEOREM RegistryTypeCorrect == Spec => []TypeOK
<1>1. Inv => TypeOK
  BY DEF Inv
<1> QED BY <1>1, Invariance, PTL

(* No version is active that never passed a validation                     *)
(* (activate_model, record_validation, the pipelines and both rollbacks).  *)
THEOREM ActiveAlwaysVouched == Spec => []ActiveWasVouched
<1>1. Inv => ActiveWasVouched
  BY DEF Inv, Vouching, ActiveWasVouched, Active
<1> QED BY <1>1, Invariance, PTL

(* No two active versions were activated last by the same session.         *)
THEOREM OneActiveForEachSession == Spec => []OneActivePerSession
<1>1. Inv => OneActivePerSession
  BY DEF Inv, Tenure, OneActivePerSession
<1> QED BY <1>1, Invariance, PTL

(* Hence there are never more active versions than activating sessions.    *)
THEOREM ActiveAtMostSessions ==
  Spec => [](Cardinality(Active) <= Cardinality(Activators))
<1>1. Inv => Cardinality(Active) <= Cardinality(Activators)
  <2> SUFFICES ASSUME Inv PROVE Cardinality(Active) <= Cardinality(Activators)
    OBVIOUS
  <2> DEFINE f == [v \in Active |-> answered[v]]
  <2>1. f \in Injection(Active, Activators)
    BY DEF Inv, Tenure, Injection, IsInjective
  <2> QED BY <2>1, FS_Injection, SessionsAssumption
<1> QED BY <1>1, Invariance, PTL

-----------------------------------------------------------------------------
(***************************************************************************)
(* Row locks.                                                              *)
(***************************************************************************)

(* The rows that an activation has demoted, and not committed yet, are     *)
(* active to everybody else and belong to that activation alone.           *)
LocksHeld == \A h \in Sessions :
  /\ Locked(h) \subseteq Active
  /\ \A g \in Sessions \ {h} : Locked(g) \cap Locked(h) = {}

(* The session holds no lock after its step, and the others hold theirs.   *)
Yields(h) ==
  /\ Locked(h)' = {}
  /\ \A g \in Sessions \ {h} : Locked(g)' = Locked(g)

LEMMA EndsYields ==
  ASSUME Inv, NEW h \in Sessions, Ends(h)
  PROVE  Yields(h)
BY DEF Inv, TypeOK, Ends, Idle, Yields, Locked

LEMMA GoesYields ==
  ASSUME Inv, NEW h \in Sessions, NEW place, place # "commit", NEW v, NEW row,
         Goes(h, place, v, row)
  PROVE  Yields(h)
BY DEF Inv, TypeOK, Goes, Yields, Locked

(* Such a step keeps the locks if it leaves the rows of the others alone.  *)
LEMMA LocksKept ==
  ASSUME Inv, LocksHeld, NEW h \in Sessions, Yields(h),
         \A g \in Sessions \ {h} : \A v \in Locked(g) : models'[v].status = models[v].status
  PROVE  LocksHeld'
BY DEF LocksHeld, Active, Yields

LEMMA LocksStep == Inv /\ LocksHeld /\ [Next]_vars => LocksHeld'
<1> SUFFICES ASSUME Inv, LocksHeld, [Next]_vars PROVE LocksHeld'
  OBVIOUS
<1>2. ASSUME NEW h \in Sessions, Yields(h),
             NEW v \in Versions, NEW row, models' = [models EXCEPT ![v] = row],
             Free(h, v) \/ v \notin Registered
      PROVE  LocksHeld'
  <2>1. \A g \in Sessions \ {h} : v \notin Locked(g)
    BY <1>2 DEF Free, LocksHeld, Active, Registered
  <2>2. \A g \in Sessions \ {h} : \A u \in Locked(g) : models'[u].status = models[u].status
    BY <1>2, <2>1 DEF LocksHeld, Active, Inv, TypeOK
  <2> QED BY <1>2, <2>2, LocksKept
<1>3. ASSUME NEW h \in Sessions, NEW place \in Places \ {"commit"}, NEW v, NEW row,
             Goes(h, place, v, row), models' = models
      PROVE  LocksHeld'
  BY <1>3, GoesYields, LocksKept
<1>4. ASSUME NEW h \in Sessions, Ends(h), models' = models PROVE LocksHeld'
  BY <1>4, EndsYields, LocksKept
<1>5. ASSUME NEW h \in Sessions, RegisterInsert(h) PROVE LocksHeld'
  <2>1. session[h].version \in Versions
    BY <1>5 DEF RegisterInsert, At, Inv, Sound, SessionSound
  <2>2. CASE session[h].version \in Registered
    BY <1>4, <1>5, <2>2 DEF RegisterInsert
  <2>3. CASE session[h].version \notin Registered
    <3>1. PICK v, verdict :
            /\ v = session[h].version
            /\ models' = [models EXCEPT ![v] = [status |-> "registered", validated |-> verdict]]
            /\ Ends(h) \/ Goes(h, "judge", v, [status |-> "registered", validated |-> verdict])
      BY <1>5, <2>3 DEF RegisterInsert
    <3>2. Yields(h)
      BY <3>1, EndsYields, GoesYields
    <3> QED BY <1>2, <2>1, <2>3, <3>1, <3>2
  <2> QED BY <2>2, <2>3
<1>6. ASSUME NEW h \in Sessions, NEW v \in Versions, NEW passed \in BOOLEAN, Free(h, v),
             Judged(v, passed), Yields(h)
      PROVE  LocksHeld'
  <2>1. PICK row : models' = [models EXCEPT ![v] = row]
    BY <1>6 DEF Judged
  <2> QED BY <1>2, <1>6, <2>1
<1>7. ASSUME NEW h \in Activators, NEW passed \in BOOLEAN, TrainJudge(h, passed)
      PROVE  LocksHeld'
  <2>1. PICK v, row : /\ v = session[h].version
                      /\ Ends(h) \/ Goes(h, "demote", v, row)
    BY <1>7 DEF TrainJudge
  <2>2. v \in Versions
    BY <1>7, <2>1 DEF TrainJudge, At, Inv, Sound, SessionSound, Sessions
  <2>3. h \in Sessions /\ Yields(h)
    BY <2>1, EndsYields, GoesYields DEF Sessions
  <2> QED BY <1>6, <1>7, <2>1, <2>2, <2>3 DEF TrainJudge
<1>8. ASSUME NEW h \in Clerks, NEW passed \in BOOLEAN, ValidateCommit(h, passed)
      PROVE  LocksHeld'
  <2>1. session[h].version \in Versions
    BY <1>8 DEF ValidateCommit, At, Inv, Sound, SessionSound, Sessions
  <2>2. h \in Sessions /\ Yields(h)
    BY <1>8, EndsYields DEF ValidateCommit, Sessions
  <2> QED BY <1>6, <1>8, <2>1, <2>2 DEF ValidateCommit
<1>9. ASSUME NEW h \in Clerks, RetireCommit(h) PROVE LocksHeld'
  <2>1. PICK v, row : v = session[h].version /\ models' = [models EXCEPT ![v] = row]
    BY <1>9 DEF RetireCommit
  <2>2. v \in Versions
    BY <1>9, <2>1 DEF RetireCommit, At, Inv, Sound, SessionSound, Sessions
  <2>3. h \in Sessions /\ Yields(h)
    BY <1>9, EndsYields DEF RetireCommit, Sessions
  <2> QED BY <1>2, <1>9, <2>1, <2>2, <2>3 DEF RetireCommit
<1>10. ASSUME NEW h \in Activators, Demote(h) PROVE LocksHeld'
  <2>1. Yields(h) /\ models' = models
    BY <1>10 DEF Demote, Inv, TypeOK, Session, Sessions, Yields, Locked
  <2> QED BY <2>1, LocksKept DEF Sessions
<1>11. ASSUME NEW h \in Activators, Lock(h) PROVE LocksHeld'
  <2>1. /\ Locked(h)' = session[h].rows \cap Active
        /\ \A g \in Sessions \ {h} : Locked(g)' = Locked(g)
        /\ Active' = Active
    BY <1>11 DEF Lock, Locked, Inv, TypeOK, Session, Sessions, Active
  <2>2. \A g \in Sessions \ {h} : Locked(g) \cap session[h].rows = {}
    BY <1>11 DEF Lock, Free
  <2> QED BY <2>1, <2>2 DEF LocksHeld
<1>12. ASSUME NEW h \in Activators, Activate(h) PROVE LocksHeld'
  <2>1. \A g \in Sessions \ {h} : \A v \in Locked(g) :
          v \in Versions /\ v # session[h].version /\ v \notin session[h].rows
    BY <1>12 DEF Activate, At, Free, LocksHeld, Locked, Active, Sessions
  <2>2. \A v \in Versions : v # session[h].version /\ v \notin session[h].rows =>
          models'[v].status = models[v].status
    BY <1>12 DEF Activate, Inv, TypeOK, Row
  <2>3. h \in Sessions /\ Yields(h)
    BY <1>12, EndsYields DEF Activate, Sessions
  <2> QED BY <2>1, <2>2, <2>3, LocksKept
<1>13. CASE UNCHANGED vars
  BY <1>13 DEF vars, LocksHeld, Locked, Active
<1> QED BY <1>3, <1>4, <1>5, <1>7, <1>8, <1>9, <1>10, <1>11, <1>12, <1>13
        DEF Next, Fetch, Fetched, PromoteList, PromoteFetch, ActiveRead, RollbackList,
            AutoRollbackList, TrainRead, Retrain, PipelineBegins, PipelineRead, RegisterRead,
            NextVersionRead, Dropped, ValidateRead, RetireRead, ClerkReads,
            Sessions, Places

LEMMA LocksInvariance == Spec => []LocksHeld
<1>1. Init => LocksHeld
  BY DEF Init, LocksHeld, Locked, Idle
<1> QED BY <1>1, LocksStep, Invariance, PTL DEF Spec

(* A retired version comes back only through an activation that read it    *)
(* before it was retired.                                                  *)
THEOREM RetirementStays == Spec => RetirementSticks
<1> DEFINE Sticks == \A v \in Versions :
       models[v].status = "retired" /\ models'[v].status # "retired" =>
         \E h \in Activators :
           At(h, "commit") /\ session[h].version = v /\ session[h].row.status # "retired"
<1>1. Inv /\ LocksHeld /\ [Next]_vars => [Sticks]_vars
  <2> SUFFICES ASSUME Inv, LocksHeld, Next, NEW v \in Versions,
                      models[v].status = "retired", models'[v].status # "retired"
               PROVE  \E h \in Activators :
                        At(h, "commit") /\ session[h].version = v /\ session[h].row.status # "retired"
    BY DEF vars
  <2>1. models[v] \in Row /\ models' # models
    BY DEF Inv, TypeOK
  <2>2. ASSUME NEW h \in Sessions, RegisterInsert(h) PROVE FALSE
    BY <2>1, <2>2 DEF RegisterInsert, Inv, TypeOK, Registered
  <2>3. ASSUME NEW u, NEW passed \in BOOLEAN, Judged(u, passed) PROVE FALSE
    BY <2>1, <2>3 DEF Judged, Inv, TypeOK, Row
  <2>4. ASSUME NEW h \in Clerks, RetireCommit(h) PROVE FALSE
    BY <2>1, <2>4 DEF RetireCommit, Inv, TypeOK, Row, Written
  <2>5. ASSUME NEW h \in Activators, Activate(h)
        PROVE  At(h, "commit") /\ session[h].version = v /\ session[h].row.status # "retired"
    <3>1. At(h, "commit") /\ session[h].row.status # "retired"
      BY <2>5 DEF Activate, Vetted, At, Inv, Sound, SessionSound, Activating, Sessions
    <3>2. CASE v # session[h].version
      <4>1. v \in session[h].rows
        BY <2>1, <2>5, <3>2 DEF Activate, Row
      <4> QED BY <3>1, <4>1 DEF LocksHeld, Locked, At, Active, Sessions
    <3> QED BY <3>1, <3>2
  <2> QED BY <2>1, <2>2, <2>3, <2>4, <2>5
      DEF Next, Fetch, Fetched, PromoteList, PromoteFetch, ActiveRead, RollbackList,
          AutoRollbackList, Demote, Lock, TrainRead, Retrain, PipelineBegins, PipelineRead, TrainJudge, RegisterRead,
          NextVersionRead, Dropped, ValidateRead, RetireRead,
          ClerkReads, ValidateCommit
<1> QED BY <1>1, Invariance, LocksInvariance, PTL DEF Spec, RetirementSticks
=============================================================================
