--------------------------- MODULE CatalogMigration ---------------------------
(* catalog migrate (catalog/migrations.py) and catalog backup                *)
(* (catalog/backup.py) as processes on one Catalog file. Neither takes the   *)
(* job lock. SQLite gives them one writer at a time, transactions and copies *)
(* of one committed state; everything else is theirs.                        *)
EXTENDS Naturals, FiniteSets

CONSTANTS
  Migrators, Savers,  \* processes
  First, Target,      \* schema of the Catalog at the beginning, and of the program
  Output,             \* the file each saver is told to write
  MaxFaults           \* failures and kills

Nobody == "nobody"
Processes == Migrators \cup Savers

CatalogMigrationAssumption ==
  /\ First \in Nat \ {0} /\ Target \in Nat /\ First <= Target /\ MaxFaults \in Nat
  /\ Migrators \cap Savers = {} /\ Nobody \notin Processes

Steps == First .. (Target - 1)

VARIABLES
  db,       \* what is committed: its user_version and how far its tables are
  writer,   \* who holds the write lock of SQLite
  pc,
  from,     \* per migrator: the version it found when it started
  tx,       \* per migrator: the Catalog as its transaction sees it
  path,     \* per process: the file its backup shall have
  temp,     \* per process: its copy, not yet published
  backups,  \* the published files: their content, or Absent
  result,
  faults    \* bound

migrationVars == <<db, writer, pc, from, tx, path, temp, backups, result, faults>>

Saved(t, p) == [version |-> t.version, tables |-> t.tables, by |-> p]
Absent == [version |-> 0, tables |-> 0, by |-> Nobody]
Holds(b, n) == b.version = n /\ b.tables = n
Whole(n) == [version |-> n, tables |-> n]
Numbers == 1..(Cardinality(Migrators) + MaxFaults)
(* Names by the second; all happens in one.                                  *)
Automatic == {<<v, n>> : v \in First..Target, n \in Numbers}
Manual == {<<0, Output[s]>> : s \in Savers}
Paths == Automatic \cup Manual

MigrationInit ==
  /\ db = Whole(First) /\ writer = Nobody
  /\ pc = [p \in Processes |-> "start"]
  /\ from = [m \in Migrators |-> 0]
  /\ tx = [m \in Migrators |-> db]
  /\ path = [p \in Processes |-> IF p \in Savers THEN <<0, Output[p]>> ELSE <<First, 1>>]
  /\ temp = [p \in Processes |-> Absent]
  /\ backups = [n \in Paths |-> Absent]
  /\ result = [p \in Processes |-> "none"]
  /\ faults = 0

Goes(p, a, b) == pc[p] = a /\ pc' = [pc EXCEPT ![p] = b]
Ends(p, r) == pc' = [pc EXCEPT ![p] = "ended"] /\ result' = [result EXCEPT ![p] = r]
Release(p) == writer' = IF writer = p THEN Nobody ELSE writer
(* The transaction is rolled back, the temporary file is unlinked.           *)
Fails(p) ==
  /\ Ends(p, "error") /\ Release(p)
  /\ temp' = [temp EXCEPT ![p] = Absent]
Fault == faults < MaxFaults /\ faults' = faults + 1

-----------------------------------------------------------------------------

(* _automatic_backup_path: the first name that is free now.                  *)
FreeName(v, n) ==
  backups[<<v, n>>] = Absent /\ \A k \in Numbers : k < n => backups[<<v, k>>] # Absent

ReadVersion(m) ==
  /\ pc[m] = "start"
  /\ from' = [from EXCEPT ![m] = db.version]
  /\ IF db.version = Target
     THEN Ends(m, IF db = Whole(Target) THEN "current" ELSE "error") /\ UNCHANGED path
     ELSE /\ \E n \in Numbers : FreeName(db.version, n) /\ path' = [path EXCEPT ![m] = <<db.version, n>>]
          /\ pc' = [pc EXCEPT ![m] = "planned"] /\ UNCHANGED result
  /\ UNCHANGED <<db, writer, tx, temp, backups, faults>>

BeginImmediate(m) ==
  /\ writer = Nobody /\ Goes(m, "planned", "backup")
  /\ writer' = m /\ tx' = [tx EXCEPT ![m] = db]
  /\ UNCHANGED <<db, from, path, temp, backups, result, faults>>

(* SQLite gives up on a lock after five seconds. The handler then asks       *)
(* backup_result, which is still None, for its path.                         *)
Busy(m) ==
  /\ pc[m] = "planned" /\ writer # Nobody
  /\ Ends(m, "AttributeError")
  /\ UNCHANGED <<db, writer, from, tx, path, temp, backups, faults>>

(* ALTER TABLE ADD COLUMN and CREATE TABLE need tables of the version before *)
Applies(v, t) == t.tables = v

Migrate(m) ==
  /\ \E v \in Steps :
       /\ pc[m] = "migrating" /\ v = from[m]
       /\ IF Applies(v, tx[m])
          THEN /\ tx' = [tx EXCEPT ![m] = [version |-> v + 1, tables |-> IF @.tables > v THEN @.tables ELSE v + 1]]
               /\ from' = [from EXCEPT ![m] = v + 1]
               /\ pc' = [pc EXCEPT ![m] = IF v + 1 = Target THEN "checking" ELSE "migrating"]
               /\ UNCHANGED <<writer, temp, result>>
          ELSE Fails(m) /\ UNCHANGED <<from, tx>>
  /\ UNCHANGED <<db, path, backups, faults>>

(* quick_check, the final validator, foreign_key_check, commit.              *)
Commit(m) ==
  /\ pc[m] = "checking"
  /\ IF tx[m] = Whole(Target)
     THEN db' = tx[m] /\ Ends(m, "migrated") /\ Release(m) /\ UNCHANGED temp
     ELSE Fails(m) /\ UNCHANGED db
  /\ UNCHANGED <<from, tx, path, backups, faults>>

-----------------------------------------------------------------------------
(* backup_catalog, called by a saver or by a migrator in its transaction.    *)

(* The source is opened on its own: it sees what is committed.               *)
BeginBackup(p) ==
  /\ pc[p] = IF p \in Savers THEN "start" ELSE "backup"
  /\ IF backups[path[p]] # Absent
     THEN Fails(p)
     ELSE /\ pc' = [pc EXCEPT ![p] = "copying"] /\ temp' = [temp EXCEPT ![p] = Saved(db, p)]
          /\ UNCHANGED <<writer, result>>
  /\ UNCHANGED <<db, from, tx, path, backups, faults>>

(* The copy must be of the version read before.                              *)
Copy(p) ==
  /\ pc[p] = "copying"
  /\ IF db.version # temp[p].version
     THEN Fails(p)
     ELSE /\ pc' = [pc EXCEPT ![p] = "copied"] /\ temp' = [temp EXCEPT ![p] = Saved(db, p)]
          /\ UNCHANGED <<writer, result>>
  /\ UNCHANGED <<db, from, tx, path, backups, faults>>

LookForOther(p) ==
  /\ pc[p] = "copied"
  /\ IF backups[path[p]] # Absent
     THEN Fails(p)
     ELSE pc' = [pc EXCEPT ![p] = "publishing"] /\ UNCHANGED <<writer, temp, result>>
  /\ UNCHANGED <<db, from, tx, path, backups, faults>>

PublishCopy(p) ==
  /\ pc[p] = "publishing"
  /\ backups' = [backups EXCEPT ![path[p]] = temp[p]]
  /\ temp' = [temp EXCEPT ![p] = Absent]
  /\ IF p \in Savers THEN Ends(p, "saved") ELSE pc' = [pc EXCEPT ![p] = "migrating"] /\ UNCHANGED result
  /\ UNCHANGED <<db, writer, from, tx, path, faults>>

-----------------------------------------------------------------------------
(* An error of the disk or of SQLite; a kill.                                *)

Working(p) == pc[p] \notin {"start", "planned", "ended"}

(* Mutant: a failed migration commits what it has done so far.               *)
WrongError(p) ==
  /\ Working(p) /\ Fault /\ Fails(p)
  /\ db' = IF p \in Migrators /\ pc[p] \in {"migrating", "checking"} THEN tx[p] ELSE db
  /\ UNCHANGED <<from, tx, path, backups>>
Error(p) ==
  /\ Working(p) /\ Fault /\ Fails(p)
  /\ UNCHANGED <<db, from, tx, path, backups>>

Kill(p) ==
  /\ Working(p) /\ Fault
  /\ Ends(p, "killed") /\ Release(p)
  /\ UNCHANGED <<db, from, tx, path, temp, backups>>

Again(p) ==
  /\ pc[p] = "ended" /\ result[p] \in {"error", "killed", "AttributeError"} /\ p \in Migrators
  /\ db.version # Target /\ Fault
  /\ pc' = [pc EXCEPT ![p] = "start"] /\ result' = [result EXCEPT ![p] = "none"]
  /\ temp' = [temp EXCEPT ![p] = Absent]
  /\ UNCHANGED <<db, writer, from, tx, path, backups>>

MigrationNext ==
  \/ \E m \in Migrators : ReadVersion(m) \/ BeginImmediate(m) \/ Busy(m) \/ Migrate(m) \/ Commit(m)
  \/ \E p \in Processes : BeginBackup(p) \/ Copy(p) \/ LookForOther(p) \/ PublishCopy(p)
  \/ \E p \in Processes : Error(p) \/ Kill(p) \/ Again(p)

MigrationSpec == MigrationInit /\ [][MigrationNext]_migrationVars

-----------------------------------------------------------------------------

(* The write lock is held by the migrator that is inside its transaction,    *)
(* and by no one else (catalog/migrations.py:224).                           *)
MigrationTypeOK ==
  /\ db \in [version : First..Target, tables : First..Target]
  /\ \A n \in Paths : backups[n] = Absent \/ \E v \in First..Target : Holds(backups[n], v)
  /\ \A m \in Migrators :
       (writer = m) <=> pc[m] \in {"backup", "copying", "copied", "publishing", "migrating", "checking"}

(* The Catalog is the old one or the new one, whatever fails or is killed    *)
(* and however many migrate it (catalog/migrations.py:242).                  *)
OldOrNew == db \in {Whole(First), Whole(Target)}

(* Once the Catalog is new, the old one is in a published backup that        *)
(* nothing took away (docs/DISCOVERY_AND_BATCH.md:2623).                     *)
OldIsKept == db # Whole(First) => \E n \in Automatic : n[1] = First /\ Holds(backups[n], First)

(* Who reports a migration has made it, alone, and its backup is the Catalog *)
(* as it was before (catalog/migrations.py:259).                             *)
ReportsTrue ==
  /\ Cardinality({m \in Migrators : result[m] = "migrated"}) <= 1
  /\ \A m \in Migrators : result[m] = "migrated" => db = Whole(Target) /\ Holds(backups[path[m]], First)
  /\ \A m \in Migrators : result[m] = "current" => db = Whole(Target)

(* The Catalog is whole, old or new, the old one is kept and no program       *)
(* reports what it has not done.                                              *)
MigrationsHold == MigrationTypeOK /\ OldOrNew /\ OldIsKept /\ ReportsTrue

(* "Refuses to overwrite" (docs/DISCOVERY_AND_BATCH.md:2543): what is        *)
(* published under a name stays.                                             *)
NotOverwritten == [][\A n \in Paths : backups[n] # Absent => backups'[n] = backups[n]]_backups

(* A migration that cannot be completed raises CatalogMigrationError, as its *)
(* docstring says (catalog/migrations.py:161).                               *)
FailsAsDocumented == \A m \in Migrators : result[m] # "AttributeError"

=============================================================================
