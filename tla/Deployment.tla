------------------------------- MODULE Deployment -------------------------------
(***************************************************************************)
(* Releases on the staging server (scripts/server.py deploy, backup,       *)
(* restore, and the services of ops/compose.server.yaml).  An operation is *)
(* a sequence of steps, most of them a docker command; any step may fail,  *)
(* and the operator's process may be killed between two of them.  Only one *)
(* operation runs at a time (operation_lock), the lock of a killed one is  *)
(* gone.                                                                   *)
(*                                                                         *)
(* A release brings a set of migrations, here its number: the migrations   *)
(* of a greater number contain those of a smaller one.  Services of        *)
(* another release start only once its migrations are in the database.     *)
(* Data are one counter, of rows and files alike, that only writers move.  *)
(***************************************************************************)
EXTENDS Integers

CONSTANTS
  Releases,
  Schema,       \* migrations of each release (schema_fingerprint)
  Broken,       \* releases whose compose file docker does not accept
  Backups,      \* ids of backups
  Mixed,        \* some of the writers run, of one release or of several
  None,
  MaxData       \* bound: writes

ASSUME SchemaAssumption == Schema \in [Releases -> Nat \ {0}] /\ Broken \subseteq Releases
ASSUME ReleasesAssumption ==
  None \notin Releases /\ Mixed \notin Releases \cup {None} /\ MaxData \in Nat

VARIABLES
  running,      \* release whose writers run, None or Mixed
  db,           \* migrations in the database, 0 when it is empty
  data,
  current,      \* release in current.json
  staged,       \* releases with a manifest
  begun,        \* releases with a directory and no manifest
  backups,      \* directories of backups
  op,           \* the operation at work
  last          \* history: the last operation that ended by itself

vars == <<running, db, data, current, staged, begun, backups, op, last>>

files == <<current, staged, begun>>

-------------------------------------------------------------------------------
(* Operations *)

\* Where an operation goes on after a step, and after a step that failed: backup restarts
\* the active release whatever happened; deploy stops what it started and resumes, if what
\* the stop or the start raised is the error it catches (OperationError).  Any other, of
\* reading the configuration or of what docker says of the containers, ends the operation.
BackupSteps == {"b_stop", "b_dump", "b_check", "b_media", "b_complete"}

Steps == {"stage", "b_start", "stop", "start", "record", "undo", "resume", "again", "end"}
           \cup BackupSteps

\* The steps in deploy's try.
Guarded == {"stop", "start"}

OperationRecord ==
  [step : Steps, target : Releases \cup {None}, old : Releases \cup {None},
   backup : Backups, failed : SUBSET Steps, escaped : BOOLEAN, served : BOOLEAN]

ASSUME NoneAssumption == None \notin OperationRecord

After(o) ==
  CASE o.step = "b_stop" -> "b_dump"
    [] o.step = "b_dump" -> "b_check"
    [] o.step = "b_check" -> "b_media"
    [] o.step = "b_media" -> "b_complete"
    [] o.step = "b_complete" -> "b_start"
    [] o.step = "b_start" -> IF o.target = None \/ o.failed # {} THEN "end" ELSE "stop"
    [] o.step = "stop" -> "start"
    [] o.step = "start" -> "record"
    [] o.step = "undo" -> IF o.old = None THEN "end" ELSE "resume"
    [] OTHER -> "end"

\* Mutant: what failed to start is stopped, and that is all.
AfterFaultGivesUp(o, caught) ==
  CASE o.step \in BackupSteps -> "b_start"
    [] OTHER -> "end"

AfterFault(o, caught) ==
  CASE o.step \in BackupSteps -> "b_start"
    [] o.step \in Guarded /\ caught -> "undo"
    [] OTHER -> "end"

\* target is None in a backup the operator asked for; failed, escaped, served: history.
Operation(step, target, id) ==
  [step |-> step, target |-> target, old |-> current, backup |-> id, failed |-> {},
   escaped |-> FALSE, served |-> current # None /\ running = current]

Goes(step) == op' = [op EXCEPT !.step = step]

Succeeds == Goes(After(op))

Fails ==
  \E caught \in BOOLEAN :
    op' = [op EXCEPT !.step = AfterFault(op, caught), !.failed = @ \cup {op.step},
                     !.escaped = @ \/ (op.step \in Guarded /\ ~caught)]

At(step) == IF op = None THEN FALSE ELSE op.step = step

\* A step that fails.  A stop of the writers may have stopped all of them or some, the
\* others fail without an effect.
StepFails ==
  /\ op # None
  /\ op.step \in BackupSteps \cup {"stage", "stop", "undo", "record"}
  /\ running' \in IF op.step \in {"b_stop", "stop", "undo"} /\ running # None
                 THEN {running, Mixed, None} ELSE {running}
  /\ Fails
  /\ UNCHANGED <<db, data, files, backups, last>>

-------------------------------------------------------------------------------
(* Releases *)

\* Mutant: a release that is there already is not compared.
SameWhenBuilt(r, old) == old # None /\ r \notin staged => Schema[r] = Schema[old]

\* Schema changes need another plan.
SameSchema(r, old) == old # None => Schema[r] = Schema[old]

Deploy(r, rollback, id) ==
  /\ op = None
  /\ backups[id] = None
  /\ rollback => r \in staged
  /\ op' = Operation("stage", r, id)
  /\ UNCHANGED <<running, db, data, files, backups, last>>

\* Where deploy goes on once the release is there.
Onward ==
  IF ~SameSchema(op.target, op.old) THEN Fails
  ELSE IF op.old = op.target THEN Goes("again")
  ELSE Goes(IF op.old = None THEN "start" ELSE "b_stop")

StageKnown ==
  /\ At("stage") /\ op.target \in staged
  /\ Onward
  /\ UNCHANGED <<running, db, data, files, backups, last>>

\* The directory is made first: what fails afterwards, also the comparison of schemas,
\* leaves it without a manifest, and such a release is not staged again.
StageNew(built) ==
  /\ At("stage") /\ op.target \notin staged \cup begun
  /\ IF built /\ SameSchema(op.target, op.old)
     THEN staged' = staged \cup {op.target} /\ begun' = begun /\ Onward
     ELSE begun' = begun \cup {op.target} /\ staged' = staged /\ Fails
  /\ UNCHANGED <<running, db, data, current, backups, last>>

\* compose up: the migrations must know the database; then the services are replaced, or
\* some of them when it fails on the way.
Up(r, ok) ==
  \/ /\ ~ok
     /\ UNCHANGED <<running, db>>
  \/ /\ r \notin Broken /\ db <= Schema[r]
     /\ db' = Schema[r]
     /\ running' \in IF ok THEN {r} ELSE {running, Mixed, None, r}

\* start, at the four places where it is called.
Starts(ok) ==
  /\ \/ At("start") /\ Up(op.target, ok)
     \/ At("again") /\ Up(op.target, ok)
     \/ At("b_start") /\ Up(op.old, ok)
     \/ At("resume") /\ Up(op.old, ok)
  /\ IF ok THEN Succeeds ELSE Fails
  /\ UNCHANGED <<data, files, backups, last>>

\* compose stop of the writers, with the compose file of the release named.
StopsWith(r) == r \notin Broken /\ running' = None

Stop ==
  /\ \/ At("stop") /\ StopsWith(op.old)
     \/ At("undo") /\ StopsWith(op.target)
  /\ Succeeds
  /\ UNCHANGED <<db, data, files, backups, last>>

Record ==
  /\ At("record")
  /\ current' = op.target
  /\ Succeeds
  /\ UNCHANGED <<running, db, data, staged, begun, backups, last>>

-------------------------------------------------------------------------------
(* Backups *)

BackupRow(release, dump, check, media, complete) ==
  [release |-> release, dump |-> dump, check |-> check, media |-> media, complete |-> complete]

Backup(id) ==
  /\ op = None
  /\ backups[id] = None
  /\ current # None
  /\ op' = Operation("b_stop", None, id)
  /\ UNCHANGED <<running, db, data, files, backups, last>>

\* Mutant: the writers go on.
BackupUnderWay ==
  /\ At("b_stop")
  /\ backups' = [backups EXCEPT ![op.backup] = BackupRow(op.old, None, None, None, FALSE)]
  /\ Succeeds
  /\ UNCHANGED <<running, db, data, files, last>>

BackupStops ==
  /\ At("b_stop") /\ StopsWith(op.old)
  /\ backups' = [backups EXCEPT ![op.backup] = BackupRow(op.old, None, None, None, FALSE)]
  /\ Succeeds
  /\ UNCHANGED <<db, data, files, last>>

\* pg_dump, the counts of all tables, the archive of files, and complete.json at the end.
BackupWrites ==
  LET row == backups[op.backup]
      written ==
        CASE op.step = "b_dump" -> BackupRow(row.release, data, None, None, FALSE)
          [] op.step = "b_check" -> BackupRow(row.release, row.dump, data, None, FALSE)
          [] op.step = "b_media" -> BackupRow(row.release, row.dump, row.check, data, FALSE)
          [] OTHER -> BackupRow(row.release, row.dump, row.check, row.media, TRUE)
  IN /\ op # None
     /\ op.step \in BackupSteps \ {"b_stop"}
     /\ backups' = [backups EXCEPT ![op.backup] = written]
     /\ Succeeds
     /\ UNCHANGED <<running, db, data, files, last>>

Complete == {b \in Backups : IF backups[b] = None THEN FALSE ELSE backups[b].complete}

\* restore: the drill passes.  It works on copies and changes nothing here.
DrillPasses(b) == b \in Complete /\ backups[b].dump = backups[b].check

-------------------------------------------------------------------------------
End ==
  /\ At("end")
  /\ op' = None
  /\ last' = op
  /\ UNCHANGED <<running, db, data, files, backups>>

\* The process is killed.  Containers stay as they are.
Killed ==
  /\ op # None
  /\ op' = None
  /\ last' = None
  /\ UNCHANGED <<running, db, data, files, backups>>

\* The writers at work.
Write ==
  /\ running # None
  /\ data < MaxData
  /\ data' = data + 1
  /\ UNCHANGED <<running, db, files, backups, op, last>>

Init ==
  /\ running = None /\ db = 0 /\ data = 0
  /\ current = None /\ staged = {} /\ begun = {}
  /\ backups = [b \in Backups |-> None]
  /\ op = None /\ last = None

Next ==
  \/ \E r \in Releases, rollback \in BOOLEAN, id \in Backups : Deploy(r, rollback, id)
  \/ StageKnown
  \/ \E built \in BOOLEAN : StageNew(built)
  \/ \E ok \in BOOLEAN : Starts(ok)
  \/ Stop
  \/ Record
  \/ \E id \in Backups : Backup(id)
  \/ BackupStops
  \/ BackupWrites
  \/ StepFails
  \/ End
  \/ Killed
  \/ Write

Spec == Init /\ [][Next]_vars

-------------------------------------------------------------------------------
(* Properties *)

BackupRecord ==
  [release : Releases, dump : Nat \cup {None}, check : Nat \cup {None},
   media : Nat \cup {None}, complete : BOOLEAN]

TypeOK ==
  /\ running \in Releases \cup {Mixed, None}
  /\ db \in Nat /\ data \in Nat
  /\ current \in Releases \cup {None}
  /\ staged \subseteq Releases /\ begun \subseteq Releases
  /\ op \in OperationRecord \cup {None}
  /\ last \in OperationRecord \cup {None}
  /\ backups \in [Backups -> BackupRecord \cup {None}]

\* The release in current.json can be started on the database as it is, wherever a first
\* deploy, a deploy or a rollback failed or was killed: no failed attempt leaves migrations
\* behind that it does not know ("Only code with the exact same migration fingerprint can
\* be resumed").
RecordedCanRun == current # None => db = Schema[current]

\* A complete backup is of one moment: its files are those of its rows, and the drill that
\* restores it finds the counts it expects ("All writes are stopped across PostgreSQL dump
\* and media/config snapshot").
BackupIsOneMoment ==
  \A b \in Complete : DrillPasses(b) /\ backups[b].media = backups[b].dump

\* An operation that ended by itself on a server that served the release in current.json
\* leaves the release in current.json serving (deploy, backup), with four exceptions, each a
\* gap of the code: a restart failed (of backup, of a deploy of the active release, or the
\* one that resumes the previous release); the handler's own stop failed, so that nothing
\* was resumed, as it must where docker refuses the new compose file (although "При отказе
\* возвращается прежняя версия", docs/deployment.md:168); the stop or the start raised what
\* the handler does not catch (OSError, ValueError, KeyError); current.json was not written.
ServiceSurvives ==
  op = None /\ last # None =>
    (last.served /\ ~last.escaped
       /\ last.failed \cap {"b_start", "again", "undo", "resume", "record"} = {} =>
       running = current)
=============================================================================
