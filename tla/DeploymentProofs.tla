---------------------------- MODULE DeploymentProofs ----------------------------
(* Proofs about Deployment: for any releases, backups and number of writes. *)
EXTENDS Deployment, TLAPS

-------------------------------------------------------------------------------
(* The inductive invariant *)

WithWriters == {"stage", "b_stop", "stop", "again"}

Stopped == {"b_dump", "b_check", "b_media", "b_complete"}

Excused == {"b_start", "again", "undo", "resume", "record"}

\* What is true of the operation at work before each of its steps: which release is where.
OpOK ==
  op # None =>
    /\ op.step # "end" => op.old = current
    /\ op.step \in BackupSteps \cup {"b_start", "stop", "resume", "again"} => op.old # None
    /\ op.step \in {"stage", "stop", "start", "record", "undo", "again"} => op.target # None
    /\ op.step \notin {"stage", "end"} /\ op.target # None /\ op.old # None =>
         Schema[op.target] = Schema[op.old]
    /\ op.step = "again" => op.target = op.old
    /\ op.step = "record" => db = Schema[op.target]

\* Whom it serves, as long as nothing failed that it cannot make good.
ServesOK ==
  op # None /\ op.served /\ ~op.escaped /\ op.failed \cap Excused = {} =>
    /\ current # None
    /\ op.step \in WithWriters \cup {"end"} => running = current
    /\ op.step = "record" => running = op.target

\* The backup under way, while the writers are stopped.
BackupOK ==
  op # None /\ op.step \in Stopped =>
    /\ running = None
    /\ backups[op.backup] \in BackupRecord
    /\ op.step \in {"b_check", "b_media", "b_complete"} => backups[op.backup].dump = data
    /\ op.step \in {"b_media", "b_complete"} => backups[op.backup].check = data
    /\ op.step = "b_complete" => backups[op.backup].media = data

IInv ==
  /\ TypeOK
  /\ OpOK /\ ServesOK /\ BackupOK
  /\ RecordedCanRun /\ BackupIsOneMoment /\ ServiceSurvives

-------------------------------------------------------------------------------
(* Lemmas *)

LEMMA OpFacts ==
  ASSUME TypeOK, op # None
  PROVE  /\ op \in OperationRecord /\ op.step \in Steps
         /\ op.target \in Releases \cup {None} /\ op.old \in Releases \cup {None}
         /\ op.backup \in Backups /\ op.failed \in SUBSET Steps
  BY DEF TypeOK, OperationRecord

\* The operation goes on with another step.
LEMMA GoesFacts ==
  ASSUME TypeOK, op # None, NEW step \in Steps, Goes(step)
  PROVE  /\ op' \in OperationRecord
         /\ op'.step = step /\ op'.target = op.target /\ op'.old = op.old
         /\ op'.backup = op.backup /\ op'.failed = op.failed
         /\ op'.escaped = op.escaped /\ op'.served = op.served
  BY DEF TypeOK, OperationRecord, Goes

\* The operation goes on after a step that failed, or ends with what nothing caught.
LEMMA FailsFacts ==
  ASSUME TypeOK, op # None, Fails
  PROVE  \E caught \in BOOLEAN :
           /\ op' \in OperationRecord
           /\ op'.step = AfterFault(op, caught) /\ op'.target = op.target /\ op'.old = op.old
           /\ op'.backup = op.backup /\ op'.failed = op.failed \cup {op.step}
           /\ op'.escaped = (op.escaped \/ (op.step \in Guarded /\ ~caught))
           /\ op'.served = op.served
  <1>1. PICK caught \in BOOLEAN :
          op' = [op EXCEPT !.step = AfterFault(op, caught), !.failed = @ \cup {op.step},
                           !.escaped = @ \/ (op.step \in Guarded /\ ~caught)]
    BY DEF Fails
  <1>2. AfterFault(op, caught) \in Steps
    BY DEF AfterFault, Steps, BackupSteps
  <1>3. op \in OperationRecord
    BY OpFacts
  <1>4. PICK escaped \in BOOLEAN :
          escaped = (op.escaped \/ (op.step \in Guarded /\ ~caught))
    OBVIOUS
  <1>5. op' = [op EXCEPT !.step = AfterFault(op, caught), !.failed = @ \cup {op.step},
                         !.escaped = escaped]
    BY <1>1, <1>4
  <1>6. /\ op' \in OperationRecord
        /\ op'.step = AfterFault(op, caught) /\ op'.target = op.target /\ op'.old = op.old
        /\ op'.backup = op.backup /\ op'.failed = op.failed \cup {op.step}
        /\ op'.escaped = escaped /\ op'.served = op.served
    BY <1>2, <1>3, <1>5 DEF OperationRecord
  <1> QED
    BY <1>4, <1>6

LEMMA AfterFacts ==
  ASSUME TypeOK, op # None
  PROVE  /\ After(op) \in Steps
         /\ op.step = "b_stop" => After(op) = "b_dump"
         /\ op.step = "b_dump" => After(op) = "b_check"
         /\ op.step = "b_check" => After(op) = "b_media"
         /\ op.step = "b_media" => After(op) = "b_complete"
         /\ op.step = "b_complete" => After(op) = "b_start"
         /\ op.step = "b_start" =>
              After(op) = IF op.target = None \/ op.failed # {} THEN "end" ELSE "stop"
         /\ op.step = "stop" => After(op) = "start"
         /\ op.step = "start" => After(op) = "record"
         /\ op.step = "undo" => After(op) = IF op.old = None THEN "end" ELSE "resume"
         /\ op.step \in {"record", "resume", "again"} => After(op) = "end"
  <1>1. op.step \in Steps
    BY OpFacts
  <1> QED
    BY <1>1 DEF After, Steps, BackupSteps

LEMMA RowFacts ==
  ASSUME NEW r \in Releases, NEW dump \in Nat \cup {None}, NEW check \in Nat \cup {None},
         NEW media \in Nat \cup {None}
  PROVE  /\ BackupRow(r, dump, check, media, FALSE) \in BackupRecord
         /\ BackupRow(r, dump, check, media, TRUE) \in BackupRecord
  BY DEF BackupRow, BackupRecord

-------------------------------------------------------------------------------
(* The steps *)

LEMMA BeginsKeeps ==
  ASSUME IInv, op = None, NEW target \in Releases \cup {None}, NEW id \in Backups,
         NEW step \in {"stage", "b_stop"},
         step = "stage" => target # None,
         step = "b_stop" => target = None /\ current # None,
         op' = Operation(step, target, id),
         UNCHANGED <<running, db, data, files, backups, last>>
  PROVE  IInv'
  <1>1. /\ op' \in OperationRecord
        /\ op'.step = step /\ op'.target = target /\ op'.old = current
        /\ ~op'.escaped /\ op'.served = (current # None /\ running = current)
    BY DEF Operation, OperationRecord, IInv, TypeOK, Steps, BackupSteps
  <1>2. TypeOK' /\ RecordedCanRun' /\ BackupIsOneMoment'
    BY <1>1 DEF IInv, TypeOK, files, RecordedCanRun, BackupIsOneMoment, Complete, DrillPasses
  <1>3. OpOK' /\ BackupOK'
    BY <1>1 DEF OpOK, BackupOK, BackupSteps, Stopped, files
  <1>4. ServesOK'
    BY <1>1 DEF ServesOK, WithWriters, files
  <1>5. ServiceSurvives'
    BY DEF IInv, ServiceSurvives, files
  <1> QED
    BY <1>2, <1>3, <1>4, <1>5 DEF IInv


\* A step that only moves the operation: what must be seen is where it moves.
LEMMA MovesKeeps ==
  ASSUME IInv, op # None, op' \in OperationRecord, OpOK', ServesOK', BackupOK',
         UNCHANGED <<db, data, current, backups, last>>,
         running' \in Releases \cup {Mixed, None},
         staged' \subseteq Releases, begun' \subseteq Releases
  PROVE  IInv'
  BY NoneAssumption DEF IInv, TypeOK, RecordedCanRun, BackupIsOneMoment, Complete, DrillPasses,
         ServiceSurvives

\* A step that failed, in an operation that goes on to end, to restart or to undo.
LEMMA FailsKeeps ==
  ASSUME IInv, op # None, Fails, UNCHANGED current,
         op.step # "end",
         op.step \in {"stage"} => running' = running
  PROVE  /\ op' \in OperationRecord
         /\ OpOK' /\ ServesOK' /\ BackupOK'
  <1>1. PICK caught \in BOOLEAN :
          /\ op' \in OperationRecord
          /\ op'.step = AfterFault(op, caught) /\ op'.target = op.target /\ op'.old = op.old
          /\ op'.failed = op.failed \cup {op.step}
          /\ op'.escaped = (op.escaped \/ (op.step \in Guarded /\ ~caught))
          /\ op'.served = op.served
    BY FailsFacts DEF IInv
  <1>2. /\ op.step \in BackupSteps => op'.step = "b_start"
        /\ op.step \in {"stop", "start"} =>
             op'.step = "undo" \/ (op'.step = "end" /\ op'.escaped)
        /\ op.step \notin BackupSteps \cup {"stop", "start"} => op'.step = "end"
        /\ op.step \in BackupSteps \cup {"stage", "stop", "start"} \cup Excused
    BY <1>1, OpFacts DEF AfterFault, Guarded, BackupSteps, Steps, IInv, Excused
  <1>3. OpOK'
    BY <1>1, <1>2 DEF IInv, OpOK, BackupSteps
  <1>4. ServesOK'
    BY <1>1, <1>2 DEF IInv, ServesOK, WithWriters, BackupSteps, Excused
  <1>5. BackupOK'
    BY <1>1, <1>2 DEF BackupOK, Stopped, BackupSteps
  <1> QED
    BY <1>1, <1>3, <1>4, <1>5

\* Where deploy goes on once the release is there.
LEMMA OnwardKeeps ==
  ASSUME IInv, op # None, op.step = "stage", Onward,
         UNCHANGED <<running, db, data, current, backups, last>>
  PROVE  /\ op' \in OperationRecord
         /\ OpOK' /\ ServesOK' /\ BackupOK'
  <1>1. /\ op.old = current /\ op.target # None /\ op.target \in Releases
        /\ op.old \in Releases \cup {None}
    BY OpFacts DEF IInv, OpOK
  <1>2. CASE ~SameSchema(op.target, op.old)
    BY <1>2, FailsKeeps DEF Onward
  <1>3. CASE SameSchema(op.target, op.old)
    <2>1. \E step \in {"again", "start", "b_stop"} :
            /\ Goes(step)
            /\ step = "again" => op.old = op.target
            /\ step = "b_stop" => op.old # None
      BY <1>3 DEF Onward
    <2>2. PICK step \in {"again", "start", "b_stop"} :
            /\ Goes(step)
            /\ step = "again" => op.old = op.target
            /\ step = "b_stop" => op.old # None
      BY <2>1
    <2>3. step \in Steps
      BY DEF Steps, BackupSteps
    <2>4. /\ op' \in OperationRecord
          /\ op'.step = step /\ op'.target = op.target /\ op'.old = op.old
          /\ op'.failed = op.failed
          /\ op'.escaped = op.escaped /\ op'.served = op.served
      BY <2>2, <2>3, GoesFacts DEF IInv
    <2>5. op.old # None => Schema[op.target] = Schema[op.old]
      BY <1>3 DEF SameSchema
    <2>6. OpOK'
      BY <1>1, <2>2, <2>4, <2>5 DEF OpOK, BackupSteps
    <2>7. ServesOK' /\ BackupOK'
      BY <2>4 DEF ServesOK, BackupOK, Stopped, IInv, WithWriters
    <2> QED
      BY <2>4, <2>6, <2>7
  <1> QED
    BY <1>2, <1>3

LEMMA StageKeeps ==
  ASSUME IInv, StageKnown \/ \E built \in BOOLEAN : StageNew(built)
  PROVE  IInv'
  <1>1. /\ op # None /\ op.step = "stage"
        /\ UNCHANGED <<running, db, data, current, backups, last>>
    BY DEF StageKnown, StageNew, At, files
  <1>2. op.target \in Releases
    BY <1>1, OpFacts DEF IInv, OpOK
  <1>3. staged' \subseteq Releases /\ begun' \subseteq Releases
    BY <1>2 DEF StageKnown, StageNew, files, IInv, TypeOK
  <1>4. Onward \/ Fails
    BY DEF StageKnown, StageNew
  <1>5. op' \in OperationRecord /\ OpOK' /\ ServesOK' /\ BackupOK'
    BY <1>1, <1>4, OnwardKeeps, FailsKeeps
  <1> QED
    BY <1>1, <1>3, <1>5, MovesKeeps DEF IInv, TypeOK

LEMMA StepFailsKeeps ==
  ASSUME IInv, StepFails
  PROVE  IInv'
  <1>1. /\ op # None /\ op.step # "end" /\ Fails
        /\ op.step = "stage" => running' = running
        /\ running' \in {running, Mixed, None}
        /\ UNCHANGED <<db, data, current, staged, begun, backups, last>>
    BY DEF StepFails, files, BackupSteps
  <1>2. op' \in OperationRecord /\ OpOK' /\ ServesOK' /\ BackupOK'
    BY <1>1, FailsKeeps
  <1> QED
    BY <1>1, <1>2, MovesKeeps DEF IInv, TypeOK

\* Services start on the database of the release in current.json, or on the first one's.
LEMMA StartsKeeps ==
  ASSUME IInv, NEW ok \in BOOLEAN, Starts(ok)
  PROVE  IInv'
  <1>1. PICK r \in {op.target, op.old} :
          /\ op # None /\ op.step \in {"start", "again", "b_start", "resume"}
          /\ op.step \in {"start", "again"} => r = op.target
          /\ op.step \in {"b_start", "resume"} => r = op.old
          /\ Up(r, ok)
    BY DEF Starts, At
  <1>2. /\ IF ok THEN Succeeds ELSE Fails
        /\ UNCHANGED <<data, current, staged, begun, backups, last>>
    BY DEF Starts, files
  <1>3. /\ op.old = current /\ r \in Releases /\ Schema[r] \in Nat
        /\ current # None => Schema[r] = Schema[current]
    BY <1>1, OpFacts, SchemaAssumption DEF IInv, OpOK, BackupSteps
  <1>4. /\ db' \in Nat /\ running' \in Releases \cup {Mixed, None}
        /\ db' = db \/ db' = Schema[r]
        /\ ok => running' = r /\ db' = Schema[r]
    BY <1>1, <1>3 DEF Up, IInv, TypeOK
  <1>5. /\ op' \in OperationRecord /\ OpOK' /\ ServesOK' /\ BackupOK'
    <2>1. CASE ~ok
      BY <1>1, <1>2, <2>1, FailsKeeps
    <2>2. CASE ok
      <3>1. /\ op' \in OperationRecord
            /\ op'.step = After(op) /\ op'.target = op.target /\ op'.old = op.old
            /\ op'.failed = op.failed
            /\ op'.escaped = op.escaped /\ op'.served = op.served
        BY <1>1, <1>2, <2>2, GoesFacts, AfterFacts DEF Succeeds, IInv
      <3>2. /\ op.step = "b_start" =>
                 After(op) = IF op.target = None \/ op.failed # {} THEN "end" ELSE "stop"
            /\ op.step = "start" => After(op) = "record"
            /\ op.step \in {"resume", "again"} => After(op) = "end"
        BY <1>1, AfterFacts DEF IInv
      <3>3. OpOK'
        BY <1>1, <1>2, <1>3, <1>4, <2>2, <3>1, <3>2 DEF IInv, OpOK, BackupSteps
      <3>4. ServesOK'
        BY <1>1, <1>2, <1>3, <1>4, <2>2, <3>1, <3>2
           DEF IInv, ServesOK, OpOK, WithWriters, BackupSteps
      <3>5. BackupOK'
        BY <1>1, <3>1, <3>2 DEF BackupOK, Stopped
      <3> QED
        BY <3>1, <3>3, <3>4, <3>5
    <2> QED
      BY <2>1, <2>2
  <1>6. RecordedCanRun'
    BY <1>2, <1>3, <1>4 DEF IInv, RecordedCanRun
  <1>7. ServiceSurvives'
    BY <1>5, NoneAssumption DEF ServiceSurvives
  <1> QED
    BY <1>2, <1>4, <1>5, <1>6, <1>7
       DEF IInv, TypeOK, BackupIsOneMoment, Complete, DrillPasses

LEMMA StopKeeps ==
  ASSUME IInv, Stop
  PROVE  IInv'
  <1>1. /\ op # None /\ op.step \in {"stop", "undo"} /\ running' = None /\ Succeeds
        /\ UNCHANGED <<db, data, current, staged, begun, backups, last>>
    BY DEF Stop, At, StopsWith, files
  <1>2. /\ op' \in OperationRecord
        /\ op'.step = After(op) /\ op'.target = op.target /\ op'.old = op.old
        /\ op'.failed = op.failed
        /\ op'.escaped = op.escaped /\ op'.served = op.served
    BY <1>1, GoesFacts, AfterFacts DEF Succeeds, IInv
  <1>3. /\ op.step = "stop" => After(op) = "start"
        /\ op.step = "undo" => After(op) = IF op.old = None THEN "end" ELSE "resume"
    BY <1>1, AfterFacts DEF IInv
  <1>4. OpOK'
    BY <1>1, <1>2, <1>3 DEF IInv, OpOK, BackupSteps
  <1>5. ServesOK' /\ BackupOK'
    BY <1>1, <1>2, <1>3 DEF IInv, ServesOK, OpOK, BackupOK, WithWriters, BackupSteps, Stopped
  <1>6. ServiceSurvives'
    BY <1>2, NoneAssumption DEF ServiceSurvives
  <1> QED
    BY <1>1, <1>2, <1>4, <1>5, <1>6
       DEF IInv, TypeOK, RecordedCanRun, BackupIsOneMoment, Complete, DrillPasses

LEMMA RecordKeeps ==
  ASSUME IInv, Record
  PROVE  IInv'
  <1>1. /\ op # None /\ op.step = "record" /\ current' = op.target /\ Goes(After(op))
        /\ UNCHANGED <<running, db, data, staged, begun, backups, last>>
    BY DEF Record, At, Succeeds
  <1>2. /\ op' \in OperationRecord /\ op'.step = "end"
        /\ op'.failed = op.failed
        /\ op'.escaped = op.escaped /\ op'.served = op.served
    BY <1>1, GoesFacts, AfterFacts DEF IInv
  <1>3. op.target \in Releases /\ db = Schema[op.target]
    BY <1>1, OpFacts DEF IInv, OpOK
  <1>4. OpOK' /\ BackupOK'
    BY <1>2 DEF OpOK, BackupOK, BackupSteps, Stopped
  <1>5. ServesOK'
    BY <1>1, <1>2, <1>3, ReleasesAssumption DEF IInv, ServesOK
  <1>6. RecordedCanRun' /\ ServiceSurvives'
    BY <1>1, <1>2, <1>3, NoneAssumption DEF RecordedCanRun, ServiceSurvives
  <1> QED
    BY <1>1, <1>2, <1>3, <1>4, <1>5, <1>6
       DEF IInv, TypeOK, BackupIsOneMoment, Complete, DrillPasses

LEMMA BackupStopsKeeps ==
  ASSUME IInv, BackupStops
  PROVE  IInv'
  <1> DEFINE row == BackupRow(op.old, None, None, None, FALSE)
  <1>1. /\ op # None /\ op.step = "b_stop" /\ running' = None /\ Goes(After(op))
        /\ backups' = [backups EXCEPT ![op.backup] = row]
        /\ UNCHANGED <<db, data, current, staged, begun, last>>
    BY DEF BackupStops, At, StopsWith, Succeeds, files
  <1>2. /\ op' \in OperationRecord /\ op'.step = "b_dump" /\ op'.target = op.target
        /\ op'.old = op.old /\ op'.backup = op.backup
        /\ op'.failed = op.failed
        /\ op'.escaped = op.escaped /\ op'.served = op.served
    BY <1>1, GoesFacts, AfterFacts DEF IInv
  <1>3. op.old \in Releases /\ op.backup \in Backups /\ op.old = current
    BY <1>1, OpFacts DEF IInv, OpOK, BackupSteps
  <1>4. row \in BackupRecord /\ ~row.complete
    BY <1>3 DEF BackupRow, BackupRecord
  <1> HIDE DEF row
  <1>5. /\ backups' \in [Backups -> BackupRecord \cup {None}]
        /\ backups'[op.backup] = row
        /\ \A b \in Backups : b # op.backup => backups'[b] = backups[b]
    BY <1>1, <1>3, <1>4 DEF IInv, TypeOK
  <1>6. TypeOK'
    BY <1>1, <1>2, <1>5 DEF IInv, TypeOK
  <1>7. OpOK' /\ ServesOK'
    BY <1>1, <1>2 DEF IInv, OpOK, ServesOK, BackupSteps, WithWriters
  <1>8. BackupOK'
    BY <1>1, <1>2, <1>4, <1>5 DEF BackupOK
  <1>9. BackupIsOneMoment'
    <2> SUFFICES ASSUME NEW b \in Backups, b \in Complete'
                 PROVE  DrillPasses(b)' /\ backups'[b].media = backups'[b].dump
      BY DEF BackupIsOneMoment, Complete
    <2>1. b # op.backup
      BY <1>4, <1>5 DEF Complete
    <2> QED
      BY <1>5, <2>1 DEF IInv, BackupIsOneMoment, Complete, DrillPasses
  <1>10. RecordedCanRun' /\ ServiceSurvives'
    BY <1>1, <1>2, NoneAssumption DEF IInv, RecordedCanRun, ServiceSurvives
  <1> QED
    BY <1>6, <1>7, <1>8, <1>9, <1>10 DEF IInv

\* Each part is written while the writers are stopped, so the last one meets the same data.
LEMMA BackupWritesKeeps ==
  ASSUME IInv, BackupWrites
  PROVE  IInv'
  <1> DEFINE id == op.backup
             old == backups[id]
             new == backups'[id]
  <1>1. /\ op # None /\ op.step \in Stopped /\ Goes(After(op))
        /\ UNCHANGED <<running, db, data, current, staged, begun, last>>
    BY DEF BackupWrites, BackupSteps, Stopped, Succeeds, files
  <1>2. /\ op' \in OperationRecord /\ op'.step = After(op) /\ op'.target = op.target
        /\ op'.old = op.old /\ op'.backup = id
        /\ op'.failed = op.failed
        /\ op'.escaped = op.escaped /\ op'.served = op.served
        /\ op.step = "b_dump" => After(op) = "b_check"
        /\ op.step = "b_check" => After(op) = "b_media"
        /\ op.step = "b_media" => After(op) = "b_complete"
        /\ op.step = "b_complete" => After(op) = "b_start"
    BY <1>1, GoesFacts, AfterFacts DEF IInv
  <1>3. /\ op.old # None /\ op.old = current
        /\ op.target # None => Schema[op.target] = Schema[op.old]
    BY <1>1 DEF IInv, OpOK, BackupSteps, Stopped
  <1>4. id \in Backups /\ old \in BackupRecord /\ running = None /\ data \in Nat
    BY <1>1, OpFacts DEF IInv, BackupOK, TypeOK
  <1>5. /\ backups' = [backups EXCEPT ![id] =
               CASE op.step = "b_dump" -> BackupRow(old.release, data, None, None, FALSE)
                 [] op.step = "b_check" -> BackupRow(old.release, old.dump, data, None, FALSE)
                 [] op.step = "b_media" -> BackupRow(old.release, old.dump, old.check, data, FALSE)
                 [] OTHER -> BackupRow(old.release, old.dump, old.check, old.media, TRUE)]
    BY DEF BackupWrites
  <1>6. /\ op.step = "b_dump" => new = BackupRow(old.release, data, None, None, FALSE)
        /\ op.step = "b_check" => new = BackupRow(old.release, old.dump, data, None, FALSE)
        /\ op.step = "b_media" => new = BackupRow(old.release, old.dump, old.check, data, FALSE)
        /\ op.step = "b_complete" =>
             new = BackupRow(old.release, old.dump, old.check, old.media, TRUE)
        /\ \A b \in Backups : b # id => backups'[b] = backups[b]
    BY <1>4, <1>5 DEF IInv, TypeOK
  <1>7. /\ new \in BackupRecord
        /\ op.step = "b_dump" => new.dump = data
        /\ op.step = "b_check" => new.dump = old.dump /\ new.check = data
        /\ op.step = "b_media" =>
             new.dump = old.dump /\ new.check = old.check /\ new.media = data
        /\ op.step = "b_complete" =>
             new.dump = old.dump /\ new.check = old.check /\ new.media = old.media
        /\ op.step # "b_complete" => ~new.complete
    <2>1. /\ old.release \in Releases /\ old.dump \in Nat \cup {None}
          /\ old.check \in Nat \cup {None} /\ old.media \in Nat \cup {None}
      BY <1>4 DEF BackupRecord
    <2> HIDE DEF new, old
    <2>2. CASE op.step = "b_dump"
      <3>1. new = BackupRow(old.release, data, None, None, FALSE)
        BY <1>6, <2>2
      <3>2. new \in BackupRecord
        BY <1>4, <2>1, <3>1, RowFacts
      <3> QED
        BY <2>2, <3>1, <3>2 DEF BackupRow
    <2>3. CASE op.step = "b_check"
      <3>1. new = BackupRow(old.release, old.dump, data, None, FALSE)
        BY <1>6, <2>3
      <3>2. new \in BackupRecord
        BY <1>4, <2>1, <3>1, RowFacts
      <3> QED
        BY <2>3, <3>1, <3>2 DEF BackupRow
    <2>4. CASE op.step = "b_media"
      <3>1. new = BackupRow(old.release, old.dump, old.check, data, FALSE)
        BY <1>6, <2>4
      <3>2. new \in BackupRecord
        BY <1>4, <2>1, <3>1, RowFacts
      <3> QED
        BY <2>4, <3>1, <3>2 DEF BackupRow
    <2>5. CASE op.step = "b_complete"
      <3>1. new = BackupRow(old.release, old.dump, old.check, old.media, TRUE)
        BY <1>6, <2>5
      <3>2. new \in BackupRecord
        BY <1>4, <2>1, <3>1, RowFacts
      <3> QED
        BY <2>5, <3>1, <3>2 DEF BackupRow
    <2> QED
      BY <1>1, <2>2, <2>3, <2>4, <2>5 DEF Stopped
  <1>8. backups' \in [Backups -> BackupRecord \cup {None}]
    <2>1. \A b \in Backups : backups'[b] \in BackupRecord \cup {None}
      BY <1>6, <1>7 DEF IInv, TypeOK
    <2>2. backups' = [b \in Backups |-> backups'[b]]
      BY <1>5 DEF IInv, TypeOK
    <2> QED
      BY <2>1, <2>2
  <1> HIDE DEF new
  <1>9. TypeOK'
    BY <1>1, <1>2, <1>8 DEF IInv, TypeOK
  <1>10. OpOK' /\ ServesOK'
    BY <1>1, <1>2, <1>3 DEF IInv, OpOK, ServesOK, BackupSteps, WithWriters, Stopped
  <1>11. BackupOK'
    <2>1. /\ op.step \in {"b_check", "b_media", "b_complete"} => old.dump = data
          /\ op.step \in {"b_media", "b_complete"} => old.check = data
      BY <1>1 DEF IInv, BackupOK
    <2>2. backups'[op'.backup] \in BackupRecord /\ running' = None /\ data' = data
      BY <1>1, <1>2, <1>4, <1>7 DEF new
    <2>3. CASE op.step \in {"b_dump", "b_check", "b_media"}
      BY <1>2, <1>7, <2>1, <2>2, <2>3 DEF BackupOK, new
    <2>4. CASE op.step = "b_complete"
      BY <1>2, <2>4 DEF BackupOK, Stopped
    <2> QED
      BY <1>1, <2>3, <2>4 DEF Stopped
  <1>12. BackupIsOneMoment'
    <2> SUFFICES ASSUME NEW b \in Backups, b \in Complete'
                 PROVE  DrillPasses(b)' /\ backups'[b].media = backups'[b].dump
      BY DEF BackupIsOneMoment, Complete
    <2>1. CASE b = id
      <3>1. op.step = "b_complete"
        BY <1>7, <2>1 DEF Complete, new
      <3> QED
        BY <1>1, <1>7, <2>1, <3>1 DEF IInv, BackupOK, Stopped, DrillPasses, new
    <2>2. CASE b # id
      BY <1>6, <2>2 DEF IInv, BackupIsOneMoment, Complete, DrillPasses
    <2> QED
      BY <2>1, <2>2
  <1>13. RecordedCanRun' /\ ServiceSurvives'
    BY <1>1, <1>2, NoneAssumption DEF IInv, RecordedCanRun, ServiceSurvives
  <1> QED
    BY <1>9, <1>10, <1>11, <1>12, <1>13 DEF IInv

LEMMA EndKeeps ==
  ASSUME IInv, End \/ Killed
  PROVE  IInv'
  <1>1. /\ op # None /\ op' = None
        /\ UNCHANGED <<running, db, data, current, staged, begun, backups>>
        /\ \/ last' = op /\ op.step = "end"
           \/ last' = None
    BY DEF End, Killed, At, files
  <1>2. ServiceSurvives'
    BY <1>1 DEF IInv, ServiceSurvives, ServesOK, Excused
  <1> QED
    BY <1>1, <1>2 DEF IInv, TypeOK, OpOK, ServesOK, BackupOK, RecordedCanRun, BackupIsOneMoment,
                      Complete, DrillPasses

\* Writers that are stopped do not write into a backup.
LEMMA WriteKeeps ==
  ASSUME IInv, Write
  PROVE  IInv'
  <1>1. /\ running # None /\ data' = data + 1
        /\ UNCHANGED <<running, db, current, staged, begun, backups, op, last>>
    BY DEF Write, files
  <1>2. BackupOK'
    BY <1>1 DEF IInv, BackupOK
  <1> QED
    BY <1>1, <1>2 DEF IInv, TypeOK, OpOK, ServesOK, RecordedCanRun, BackupIsOneMoment,
                      Complete, DrillPasses, ServiceSurvives

-------------------------------------------------------------------------------
(* Theorems *)

LEMMA InitHolds == Init => IInv
  BY DEF Init, IInv, TypeOK, OpOK, ServesOK, BackupOK, RecordedCanRun, BackupIsOneMoment,
         Complete, ServiceSurvives

LEMMA StepHolds == IInv /\ [Next]_vars => IInv'
  <1> SUFFICES ASSUME IInv, [Next]_vars PROVE IInv'
    OBVIOUS
  <1>1. CASE UNCHANGED vars
    BY <1>1 DEF vars, files, IInv, TypeOK, OpOK, ServesOK, BackupOK, RecordedCanRun,
                BackupIsOneMoment, Complete, DrillPasses, ServiceSurvives
  <1>2. ASSUME NEW r \in Releases, NEW rollback \in BOOLEAN, NEW id \in Backups,
               Deploy(r, rollback, id)
        PROVE  IInv'
    <2>1. r # None /\ r \in Releases \cup {None}
      BY ReleasesAssumption
    <2> QED
      BY <1>2, <2>1, BeginsKeeps DEF Deploy
  <1>3. ASSUME NEW id \in Backups, Backup(id) PROVE IInv'
    BY <1>3, BeginsKeeps DEF Backup
  <1>4. CASE Next
    BY <1>2, <1>3, <1>4, StageKeeps, StartsKeeps, StopKeeps, RecordKeeps, BackupStopsKeeps,
       BackupWritesKeeps, StepFailsKeeps, EndKeeps, WriteKeeps DEF Next
  <1> QED
    BY <1>1, <1>4

\* The inductive invariant: which release is where before every step of an operation.
THEOREM Invariant == Spec => []IInv
  BY InitHolds, StepHolds, PTL DEF Spec

\* Files, backups and operations have their form.
THEOREM TypeCorrect == Spec => []TypeOK
  BY Invariant, PTL DEF IInv

\* Whatever fails or is killed, current.json names a release the database fits (deploy).
THEOREM RecordedReleaseCanRun == Spec => []RecordedCanRun
  BY Invariant, PTL DEF IInv

\* A complete backup is of one moment, for any number of writes and backups (backup).
THEOREM BackupsAreConsistent == Spec => []BackupIsOneMoment
  BY Invariant, PTL DEF IInv

\* An operation that ended by itself leaves the release in current.json serving, if it found
\* it serving, its own restarts and stop, errors its handler does not catch and an unwritten
\* current.json apart (deploy, backup).
THEOREM ServiceIsKept == Spec => []ServiceSurvives
  BY Invariant, PTL DEF IInv
=============================================================================
