--------------------------- MODULE Database_proofs --------------------------
(***************************************************************************)
(* Proofs about the database in operation: its files (Storage), the        *)
(* retention of its events (Retention) and its paged lists (Pages), for    *)
(* any number of operators, backup files, events and requests and for any  *)
(* settings, capacity and page sizes.                                      *)
(***************************************************************************)
EXTENDS Database, TLAPS, FiniteSetTheorems

----------------------------------------------------------------------------
(* The files. *)

\* The committed state of the database, whether or not a transaction is open.
Committed == IF main = Torn THEN journal ELSE main

BackingUp(o) == commands[o].at \in {"vacuum", "write", "verify", "cleanup", "created"}

\* The service finds its database whole, a torn one has its journal, and a
\* restore has the database to itself.
FilesInv ==
    /\ service = "up" => main \in Contents /\ journal = None
    /\ service = "writing" => main = Torn /\ last < MaxCommits
    /\ main = Torn => journal \in Contents
    /\ \A o \in Operators :
         /\ Idle(o) <=> File(o) = None
         /\ Restoring(o) => service = "down" /\ \A p \in Operators \ {o} : Idle(p)

\* What a backup has read and written so far.
SnapshotInv ==
    \A o \in Operators :
      /\ BackingUp(o) => main # None /\ commands[o].before \subseteq Committed
      /\ commands[o].at \in {"write", "verify", "created"} =>
           /\ commands[o].stage \in Contents
           /\ commands[o].before \subseteq commands[o].stage
           /\ commands[o].stage \subseteq Committed
      /\ o \notin clashed =>
           /\ commands[o].at = "vacuum" => backups[File(o)] = None
           /\ commands[o].at = "write" => backups[File(o)] = o
           /\ commands[o].at \in {"verify", "created"} =>
                backups[File(o)] = commands[o].stage
           /\ \A p \in Operators \ {o} : ~Idle(o) => File(p) # File(o)

\* What a restore has moved so far.
RestoreInv ==
    \A o \in Operators :
      /\ commands[o].at = "stage" => backups[File(o)] \in Contents
      /\ commands[o].at \in {"preserve", "install", "removeRollback", "undo", "restored"} =>
           commands[o].stage \in Contents
      /\ commands[o].at \in {"install", "removeRollback", "undo"} =>
           /\ commands[o].found => rollback # None /\ (rollback = Torn => journal \in Contents)
           /\ ~commands[o].found => rollback = None
      /\ commands[o].at = "install" => main = None
      /\ commands[o].at = "removeRollback" => commands[o].found
      /\ commands[o].at \in {"removeRollback", "restored"} => main = commands[o].stage
      /\ commands[o].at = "restored" => rollback = None

\* Beside no hot journal a restore moves a whole database, and the rollback file
\* holds all of it until the end.
LossInv ==
    ~hot =>
      /\ journal # None => main = Torn
      /\ \A o \in Operators :
           /\ Restoring(o) => journal = None
           /\ commands[o].at \in {"install", "removeRollback", "undo"} /\ commands[o].found =>
                rollback \in Contents /\ committed \ {0} \subseteq rollback

StorageInv ==
    /\ StorageTypeOK /\ FilesInv /\ SnapshotInv /\ RestoreInv /\ LossInv /\ NothingLost

\* A command is replaced.
LEMMA Stepped ==
    ASSUME StorageTypeOK, NEW o \in Operators, NEW c \in Commands, Step(o, c)
    PROVE  /\ commands' \in [Operators -> Commands]
           /\ commands'[o] = c
           /\ \A p \in Operators \ {o} : commands'[p] = commands[p]
  BY Zenon DEF StorageTypeOK, Step

\* A command that moves on keeps the rest of what it knows.
LEMMA Moved ==
    ASSUME NEW c \in Commands, NEW at,
           at \in {"idle", "vacuum", "write", "verify", "cleanup", "created", "stage",
                  "preserve", "install", "removeRollback", "undo", "restored", "failed"}
    PROVE  LET d == [c EXCEPT !.at = at]
           IN  /\ d \in Commands /\ d.at = at
               /\ d.file = c.file /\ d.stage = c.stage
               /\ d.before = c.before /\ d.found = c.found
  BY Zenon DEF Commands

\* A command moves on and keeps what it holds.
LEMMA Continued ==
    ASSUME StorageTypeOK, NEW o \in Operators, NEW at, Continue(o, at),
           at \in {"idle", "vacuum", "write", "verify", "cleanup", "created", "stage",
                  "preserve", "install", "removeRollback", "undo", "restored", "failed"}
    PROVE  \E c \in Commands :
             /\ Step(o, c) /\ c.at = at /\ c.file = File(o)
             /\ c.stage = commands[o].stage /\ c.before = commands[o].before
             /\ c.found <=> commands[o].found
<1> DEFINE c == [commands[o] EXCEPT !.at = at]
<1>1. commands[o] \in Commands
  BY Zenon DEF StorageTypeOK
<1>2. /\ c \in Commands /\ c.at = at /\ c.file = File(o)
      /\ c.stage = commands[o].stage /\ c.before = commands[o].before
  BY <1>1, Zenon DEF Commands, File
<1>3. c.found <=> commands[o].found
  BY <1>1, Zenon DEF Commands
<1>4. Step(o, c)
  BY Zenon DEF Continue
<1> HIDE DEF c
<1> QED BY <1>2, <1>3, <1>4, Zenon

\* A command without an overlap had none before.
LEMMA Observed ==
    ASSUME Observe
    PROVE  /\ clashed' \subseteq Operators
           /\ \A o \in Operators : o \notin clashed' /\ commands'[o].at # "idle" =>
                /\ o \notin clashed
                /\ \A p \in Operators \ {o} : commands'[p].file # commands'[o].file
  BY Zenon DEF Observe

\* An empty file is no missing one and not torn.
LEMMA EmptyFile == {} \in Contents /\ {} # None /\ {} # Torn
  BY StorageAssumption, Zenon DEF Contents

\* What an open of the database finds.
LEMMA OpenedFiles ==
    ASSUME StorageTypeOK, FilesInv
    PROVE  /\ Opened \in Contents \cup {Torn}
           /\ main # None => Committed \in Contents
           /\ main # None /\ Opened # Torn => Opened = Committed
           /\ main = None => Opened = {}
           /\ journal = None /\ main # None => Opened = main
<1>2. main \in Contents => main # None /\ main # Torn
  BY StorageAssumption, Zenon
<1>3. journal \in Contents => journal # None /\ journal # Torn
  BY StorageAssumption, Zenon
<1>4. main \in {None, Torn} \cup Contents /\ None # Torn
  BY StorageAssumption, Zenon DEF StorageTypeOK, Files
<1>5. main = Torn => journal \in Contents
  BY Zenon DEF FilesInv
<1>6. CASE main = None
  BY <1>4, <1>6, EmptyFile, Zenon DEF Opened
<1>7. CASE main = {}
  BY <1>7, EmptyFile, Zenon DEF Opened, Committed
<1>8. CASE main = Torn
  BY <1>3, <1>4, <1>5, <1>8, EmptyFile, Zenon DEF Opened, Committed
<1>9. CASE main \in Contents /\ main # {}
  BY <1>2, <1>9, Zenon DEF Opened, Committed
<1> QED BY <1>4, <1>6, <1>7, <1>8, <1>9, Zenon

\* At first there is no database, no backup and no command.
LEMMA InitStorageInv == StorageInit => StorageInv
<1> SUFFICES ASSUME StorageInit PROVE StorageInv
  BY Zenon
<1>1. NoCommand \in Commands
  BY Zenon DEF NoCommand, Commands, Files, Contents
<1>2. None \in Files /\ 0 \in Commits /\ NoCommand.stage # Torn
  BY StorageAssumption DEF Files, Commits, NoCommand
<1>3. StorageTypeOK
  BY <1>1, <1>2, EmptyFile, StorageAssumption, Zenon DEF StorageInit, StorageTypeOK
<1>4. FilesInv /\ SnapshotInv /\ RestoreInv /\ LossInv /\ NothingLost
  BY StorageAssumption, Zenon
  DEF StorageInit, FilesInv, SnapshotInv, RestoreInv, LossInv, NothingLost,
     NoCommand, Idle, File, Restoring, BackingUp
<1> QED BY <1>3, <1>4, Zenon DEF StorageInv

(* The service. *)

\* The service opens the database, and SQLite rolls a torn one back.
LEMMA StartInv == ASSUME StorageInv, Start, Observe PROVE StorageInv'
<1> USE DEF StorageInv, Start, history
<1>1. /\ main' = Opened \cup {0} /\ Opened \in Contents /\ main' \in Contents
      /\ main # None => Opened = Committed
  BY StorageAssumption, OpenedFiles DEF Contents, Commits
<1>2. StorageTypeOK'
  BY <1>1, Observed, StorageAssumption, Zenon DEF StorageTypeOK, Files
<1>3. FilesInv'
  BY <1>1, StorageAssumption, Zenon DEF FilesInv, Idle, File, Restoring
<1>4. SnapshotInv'
  BY <1>1, Observed, StorageAssumption, Zenon DEF SnapshotInv, Committed, BackingUp, Idle, File
<1>5. RestoreInv'
  BY <1>1, Zenon DEF RestoreInv, Restoring, File
<1>6. LossInv' /\ NothingLost'
  BY <1>1, StorageAssumption, Zenon DEF LossInv, NothingLost, Restoring, Opened
<1> QED BY <1>2, <1>3, <1>4, <1>5, <1>6, Zenon

\* A transaction begins: the journal keeps the state before it.
LEMMA WriteInv == ASSUME StorageInv, Write, Observe PROVE StorageInv'
<1> USE DEF StorageInv, Write, history
<1>1. main \in Contents /\ main # None /\ main # Torn /\ journal = None
      /\ \A o \in Operators : ~Restoring(o)
  BY StorageAssumption, Zenon DEF FilesInv
<1>2. StorageTypeOK'
  BY <1>1, Observed, StorageAssumption, Zenon DEF StorageTypeOK, Files
<1>3. FilesInv'
  BY <1>1, StorageAssumption, Zenon DEF FilesInv, Idle, File, Restoring
<1>4. SnapshotInv'
  BY <1>1, Observed, StorageAssumption, Zenon DEF SnapshotInv, Committed, BackingUp, Idle, File
<1>5. RestoreInv'
  BY <1>1, Zenon DEF RestoreInv, Restoring, File
<1>6. LossInv' /\ NothingLost'
  BY <1>1, EmptyFile, StorageAssumption, Zenon DEF LossInv, NothingLost, Restoring, Opened
<1> QED BY <1>2, <1>3, <1>4, <1>5, <1>6, Zenon

\* A transaction commits.
LEMMA CommitInv == ASSUME StorageInv, Commit, Observe PROVE StorageInv'
<1> USE DEF StorageInv, Commit
<1>1. /\ main = Torn /\ journal \in Contents /\ \A o \in Operators : ~Restoring(o)
      /\ main' \in Contents /\ main' # None /\ main' # Torn
      /\ last' \in Commits /\ committed' \in Contents
  <2>1. last + 1 \in Commits /\ journal \in Contents /\ committed \in Contents
    BY StorageAssumption DEF FilesInv, StorageTypeOK, Commits
  <2>2. \A c \in Contents : c \cup {last + 1} \in Contents
    BY <2>1, Zenon DEF Contents
  <2> QED BY <2>1, <2>2, StorageAssumption, Zenon DEF FilesInv
<1>2. StorageTypeOK'
  BY <1>1, Observed, StorageAssumption, Zenon DEF StorageTypeOK, Files
<1>3. FilesInv'
  BY <1>1, StorageAssumption, Zenon DEF FilesInv, Idle, File, Restoring
<1>4. SnapshotInv'
  BY <1>1, Observed, StorageAssumption DEF SnapshotInv, Committed, BackingUp, Idle, File
<1>5. RestoreInv'
  BY <1>1, Zenon DEF RestoreInv, Restoring, File
<1>6. LossInv' /\ NothingLost'
  BY <1>1, StorageAssumption, Zenon DEF LossInv, NothingLost, Restoring, Opened
<1> QED BY <1>2, <1>3, <1>4, <1>5, <1>6, Zenon

\* The service stops, or is killed in a transaction.
LEMMA StopInv == ASSUME StorageInv, Stop, Observe PROVE StorageInv'
<1> USE DEF StorageInv, Stop, files, history
<1>2. StorageTypeOK'
  BY Observed, Zenon DEF StorageTypeOK
<1>3. FilesInv'
  BY Zenon DEF FilesInv, Idle, File, Restoring
<1>4. SnapshotInv'
  BY Observed DEF SnapshotInv, Committed, BackingUp, Idle, File
<1>5. RestoreInv'
  BY Zenon DEF RestoreInv, Restoring, File
<1>6. LossInv' /\ NothingLost'
  BY Zenon DEF LossInv, NothingLost, Restoring, Opened
<1> QED BY <1>2, <1>3, <1>4, <1>5, <1>6, Zenon
(* Commands. *)

\* A backup command starts, on a path that nothing is at.
LEMMA BackupInv ==
    ASSUME StorageInv, NEW o \in Operators, NEW f \in BackupFiles, Backup(o, f), Observe
    PROVE  StorageInv'
<1> USE DEF StorageInv, Backup, files, history
<1> DEFINE c == [NoCommand EXCEPT !.at = "vacuum", !.file = f, !.before = Committed]
<1>1. /\ c \in Commands /\ c.at = "vacuum" /\ c.file = f /\ c.before = Committed
      /\ c.stage = None /\ Step(o, c)
  BY OpenedFiles, Zenon DEF NoCommand, Commands, Files, Committed
<1> HIDE DEF c
<1>2. /\ commands' \in [Operators -> Commands] /\ commands'[o] = c
      /\ \A p \in Operators \ {o} : commands'[p] = commands[p]
  BY <1>1, Stepped, Zenon
<1>3. StorageTypeOK'
  BY <1>1, <1>2, Observed, StorageAssumption, Zenon DEF StorageTypeOK
<1>4. FilesInv'
  BY <1>1, <1>2, StorageAssumption DEF FilesInv, Idle, File, Restoring
<1>5. SnapshotInv'
  BY <1>1, <1>2, Observed, StorageAssumption DEF SnapshotInv, Committed, BackingUp, Idle, File
<1>6. RestoreInv'
  BY <1>1, <1>2 DEF RestoreInv, Restoring, File
<1>7. LossInv' /\ NothingLost'
  BY <1>1, <1>2, Zenon DEF LossInv, NothingLost, Restoring, Opened
<1> QED BY <1>3, <1>4, <1>5, <1>6, <1>7, Zenon

\* VACUUM INTO opens its file and reads the committed state.
LEMMA VacuumInv ==
    ASSUME StorageInv, NEW o \in Operators, Vacuum(o), Observe PROVE StorageInv'
<1> USE DEF StorageInv, Vacuum, Recover, history
<1> DEFINE c == [commands[o] EXCEPT !.at = "write", !.stage = Opened]
<1>1. /\ main # None /\ Opened = Committed /\ Opened \in Contents /\ ~Restoring(o)
      /\ \A p \in Operators : ~Restoring(p)
  BY OpenedFiles, Zenon DEF SnapshotInv, BackingUp, FilesInv, Restoring, Idle
<1>2. /\ c \in Commands /\ c.at = "write" /\ c.file = File(o) /\ c.stage = Opened
      /\ c.before = commands[o].before /\ Step(o, c)
  BY <1>1, Zenon DEF StorageTypeOK, Commands, Files, File
<1> HIDE DEF c
<1>3. /\ commands' \in [Operators -> Commands] /\ commands'[o] = c
      /\ \A p \in Operators \ {o} : commands'[p] = commands[p]
  BY <1>2, Stepped, Zenon
<1>4. File(o) \in BackupFiles
  BY Zenon DEF FilesInv, Idle, StorageTypeOK, Commands, File
<1>5. backups' = [backups EXCEPT ![File(o)] = o]
  BY Zenon DEF Put
<1>6. StorageTypeOK'
  BY <1>1, <1>2, <1>3, <1>5, Observed, StorageAssumption, Zenon DEF StorageTypeOK, Files
<1>7. FilesInv'
  BY <1>1, <1>2, <1>3, StorageAssumption DEF FilesInv, Idle, File, Restoring
<1>8. SnapshotInv'
  BY <1>1, <1>2, <1>3, <1>4, <1>5, Observed, StorageAssumption
  DEF SnapshotInv, Committed, BackingUp, Idle, File, StorageTypeOK
<1>9. RestoreInv'
  BY <1>1, <1>2, <1>3 DEF RestoreInv, Restoring
<1>10. LossInv' /\ NothingLost'
  BY <1>1, <1>2, <1>3, StorageAssumption DEF LossInv, NothingLost, Restoring, Opened
<1> QED BY <1>6, <1>7, <1>8, <1>9, <1>10, Zenon

\* VACUUM INTO finds the path taken.
LEMMA VacuumFailsInv ==
    ASSUME StorageInv, NEW o \in Operators, VacuumFails(o), Observe PROVE StorageInv'
<1> USE DEF StorageInv, VacuumFails, files, history
<1> DEFINE c == [commands[o] EXCEPT !.at = "cleanup"]
<1>1. /\ c \in Commands /\ c.at = "cleanup" /\ c.file = File(o)
      /\ c.stage = commands[o].stage /\ c.before = commands[o].before /\ Step(o, c)
  BY Moved DEF StorageTypeOK, Continue, File
<1> HIDE DEF c
<1>2. /\ commands' \in [Operators -> Commands] /\ commands'[o] = c
      /\ \A p \in Operators \ {o} : commands'[p] = commands[p]
  BY <1>1, Stepped, Zenon
<1>3. StorageTypeOK'
  BY <1>1, <1>2, Observed, StorageAssumption, Zenon DEF StorageTypeOK
<1>4. FilesInv'
  BY <1>1, <1>2, StorageAssumption DEF FilesInv, Idle, File, Restoring
<1>5. SnapshotInv'
  BY <1>1, <1>2, Observed, StorageAssumption DEF SnapshotInv, Committed, BackingUp, Idle, File
<1>6. RestoreInv'
  BY <1>1, <1>2 DEF RestoreInv, Restoring, File
<1>7. LossInv' /\ NothingLost'
  BY <1>1, <1>2, Zenon DEF LossInv, NothingLost, Restoring, Opened
<1> QED BY <1>3, <1>4, <1>5, <1>6, <1>7, Zenon

\* VACUUM INTO has written its file.
LEMMA VacuumEndsInv ==
    ASSUME StorageInv, NEW o \in Operators, VacuumEnds(o), Observe PROVE StorageInv'
<1> USE DEF StorageInv, VacuumEnds, history
<1> DEFINE c == [commands[o] EXCEPT !.at = "verify"]
<1>1. /\ c \in Commands /\ c.at = "verify" /\ c.file = File(o)
      /\ c.stage = commands[o].stage /\ c.before = commands[o].before /\ Step(o, c)
  BY Moved DEF StorageTypeOK, Continue, File
<1> HIDE DEF c
<1>2. /\ commands' \in [Operators -> Commands] /\ commands'[o] = c
      /\ \A p \in Operators \ {o} : commands'[p] = commands[p]
  BY <1>1, Stepped, Zenon
<1>3. /\ \A p \in Operators : ~Restoring(p)
      /\ File(o) \in BackupFiles /\ commands[o].stage \in Contents
      /\ backups' = IF backups[File(o)] = o
                    THEN [backups EXCEPT ![File(o)] = commands[o].stage] ELSE backups
  BY Zenon DEF Put, SnapshotInv, FilesInv, Restoring, Idle, StorageTypeOK, Commands, File
<1>4. StorageTypeOK'
  BY <1>1, <1>2, <1>3, Observed, StorageAssumption DEF StorageTypeOK, Files
<1>5. FilesInv'
  BY <1>1, <1>2, StorageAssumption DEF FilesInv, Idle, File, Restoring
<1>6. SnapshotInv'
  BY <1>1, <1>2, <1>3, Observed, StorageAssumption
  DEF SnapshotInv, Committed, BackingUp, Idle, File, StorageTypeOK
<1>7. RestoreInv'
  BY <1>1, <1>2, <1>3 DEF RestoreInv, Restoring
<1>8. LossInv' /\ NothingLost'
  BY <1>1, <1>2, Zenon DEF LossInv, NothingLost, Restoring, Opened
<1> QED BY <1>4, <1>5, <1>6, <1>7, <1>8, Zenon

\* A backup checks its file.
LEMMA VerifyInv ==
    ASSUME StorageInv, NEW o \in Operators, Verify(o), Observe PROVE StorageInv'
<1> USE DEF StorageInv, Verify, history
<1>1. /\ \A p \in Operators : ~Restoring(p)
      /\ File(o) \in BackupFiles /\ commands[o].stage \in Contents
  BY Zenon DEF SnapshotInv, FilesInv, Restoring, Idle, StorageTypeOK, Commands, File
<1>2. PICK at \in {"created", "cleanup"} :
        /\ Continue(o, at)
        /\ \/ /\ at = "created" /\ backups[File(o)] \notin {Torn} \cup Operators
              /\ backups' = [backups EXCEPT ![File(o)] = Created(File(o))]
           \/ at = "cleanup" /\ UNCHANGED backups
  BY Zenon DEF Put, Verified
<1> DEFINE c == [commands[o] EXCEPT !.at = at]
<1>3. /\ c \in Commands /\ c.at = at /\ c.file = File(o)
      /\ c.stage = commands[o].stage /\ c.before = commands[o].before /\ Step(o, c)
  BY <1>2, Moved DEF StorageTypeOK, Continue, File
<1> HIDE DEF c
<1>4. /\ commands' \in [Operators -> Commands] /\ commands'[o] = c
      /\ \A p \in Operators \ {o} : commands'[p] = commands[p]
  BY <1>3, Stepped, Zenon
<1>5. /\ backups' \in [BackupFiles -> Operators \cup Files]
      /\ \A f \in BackupFiles \ {File(o)} : backups'[f] = backups[f]
      /\ at = "created" => backups'[File(o)] = Created(File(o))
  <2>1. at = "created" => Created(File(o)) \in Contents
    BY <1>1, <1>2, EmptyFile, Zenon DEF Created, StorageTypeOK, Files
  <2> QED BY <1>1, <1>2, <2>1, Zenon DEF StorageTypeOK, Files
<1>6. StorageTypeOK'
  BY <1>3, <1>4, <1>5, Observed, StorageAssumption DEF StorageTypeOK
<1>7. FilesInv'
  BY <1>2, <1>3, <1>4, StorageAssumption, SMTT(20) DEF FilesInv, Idle, File, Restoring
<1>8. SnapshotInv'
  <2>1. \A p \in Operators \ {o} : ~Idle(p) => File(p) \in BackupFiles
    BY Zenon DEF FilesInv, StorageTypeOK, Commands, File, Idle
  <2>2. at = "created" /\ o \notin clashed => backups'[File(o)] = commands[o].stage
    BY <1>1, <1>2, <1>5, StorageAssumption, Zenon DEF SnapshotInv, Created
  <2> QED BY <1>1, <1>2, <1>3, <1>4, <1>5, <2>1, <2>2, Observed, StorageAssumption
    DEF SnapshotInv, Committed, BackingUp, Idle, File
<1>9. RestoreInv'
  BY <1>1, <1>2, <1>3, <1>4 DEF RestoreInv, Restoring
<1>10. LossInv' /\ NothingLost'
  BY <1>2, <1>3, <1>4 DEF LossInv, NothingLost, Restoring, Opened
<1> QED BY <1>6, <1>7, <1>8, <1>9, <1>10, Zenon

\* A failed backup removes what is at its path.
LEMMA CleanupInv ==
    ASSUME StorageInv, NEW o \in Operators, Cleanup(o), Observe PROVE StorageInv'
<1> USE DEF StorageInv, Cleanup, Exit, history
<1>1. /\ \A p \in Operators : ~Restoring(p)
      /\ File(o) \in BackupFiles
  BY SMTT(20) DEF SnapshotInv, FilesInv, Restoring, Idle, StorageTypeOK, Commands, File
<1> DEFINE c == NoCommand
<1>2. c \in Commands /\ c.at = "idle" /\ c.file = None /\ c.stage = None /\ Step(o, c)
  BY EmptyFile, Zenon DEF NoCommand, Commands, Files
<1> HIDE DEF c
<1>3. /\ commands' \in [Operators -> Commands] /\ commands'[o] = c
      /\ \A p \in Operators \ {o} : commands'[p] = commands[p]
  BY <1>2, Stepped, Zenon
<1>4. backups' = [backups EXCEPT ![File(o)] = None]
  BY Zenon DEF Put
<1>5. StorageTypeOK'
  BY <1>2, <1>3, <1>4, Observed, StorageAssumption, Zenon DEF StorageTypeOK, Files
<1>6. FilesInv'
  BY <1>2, <1>3, StorageAssumption DEF FilesInv, Idle, File, Restoring
<1>7. SnapshotInv'
  BY <1>1, <1>2, <1>3, <1>4, Observed, StorageAssumption
  DEF SnapshotInv, Committed, BackingUp, Idle, File, StorageTypeOK
<1>8. RestoreInv'
  BY <1>1, <1>2, <1>3 DEF RestoreInv, Restoring
<1>9. LossInv' /\ NothingLost'
  BY <1>2, <1>3, Zenon DEF LossInv, NothingLost, Restoring, Opened
<1> QED BY <1>5, <1>6, <1>7, <1>8, <1>9, Zenon

\* While o restores, the other commands are idle and the service is down.
LEMMA Alone ==
    ASSUME StorageInv, NEW o \in Operators, Restoring(o)
    PROVE  /\ service = "down" /\ File(o) \in BackupFiles
           /\ \A p \in Operators \ {o} : commands[p].at = "idle"
  BY Zenon DEF StorageInv, FilesInv, Restoring, Idle, StorageTypeOK, Commands, File

\* While a restore runs there is no backup.
LEMMA NoBackup ==
    ASSUME NEW o \in Operators, Observe,
           commands'[o].at \in {"stage", "preserve", "install", "removeRollback", "undo",
                               "restored", "failed"},
           \A p \in Operators \ {o} : commands'[p].at = "idle"
    PROVE  SnapshotInv'
  BY Observed, Zenon DEF SnapshotInv, BackingUp, Idle, File

\* A restore command starts, while nothing else runs.
LEMMA RestoreCommandInv ==
    ASSUME StorageInv, NEW o \in Operators, NEW f \in BackupFiles, Restore(o, f), Observe
    PROVE  StorageInv'
<1> USE DEF StorageInv, Restore
<1> DEFINE c == [NoCommand EXCEPT !.at = "stage", !.file = f]
<1>1. /\ c \in Commands /\ c.at = "stage" /\ c.file = f /\ c.stage = None /\ Step(o, c)
  BY EmptyFile, Zenon DEF NoCommand, Commands, Files
<1> HIDE DEF c
<1>2. /\ commands' \in [Operators -> Commands] /\ commands'[o] = c
      /\ \A p \in Operators \ {o} : commands'[p] = commands[p]
  BY <1>1, Stepped, Zenon
<1>3. Created(f) \in Contents
  BY EmptyFile, Zenon DEF Created, Verified, StorageTypeOK, Files
<1>4. StorageTypeOK'
  BY <1>1, <1>2, <1>3, Observed, StorageAssumption, Zenon DEF StorageTypeOK, Files
<1>5. FilesInv'
  BY <1>1, <1>2, StorageAssumption DEF FilesInv, Idle, File, Restoring
<1>6. SnapshotInv'
  BY <1>1, <1>2, NoBackup, Zenon DEF Idle
<1>7. RestoreInv'
  BY <1>1, <1>2, <1>3 DEF RestoreInv, Idle, File, StorageTypeOK
<1>8. LossInv' /\ NothingLost'
  BY <1>1, <1>2, Zenon DEF LossInv, NothingLost, Restoring, Idle, Opened
<1> QED BY <1>4, <1>5, <1>6, <1>7, <1>8, Zenon

\* A restore copies the backup beside the database.
LEMMA StageInv ==
    ASSUME StorageInv, NEW o \in Operators, Stage(o), Observe PROVE StorageInv'
<1> USE DEF StorageInv, Stage, files, history
<1>1. Restoring(o) /\ backups[File(o)] \in Contents
  BY Zenon DEF Restoring, RestoreInv
<1>2. PICK c \in Commands :
        /\ Step(o, c) /\ c.file = File(o) /\ c.stage # Torn
        /\ \/ c.at = "preserve" /\ c.stage = backups[File(o)]
           \/ c.at = "failed"
  <2>1. CASE Continue(o, "failed")
    BY <2>1, Continued DEF StorageTypeOK
  <2>2. CASE Step(o, [commands[o] EXCEPT !.at = "preserve", !.stage = backups[File(o)]])
    <3> DEFINE d == [commands[o] EXCEPT !.at = "preserve", !.stage = backups[File(o)]]
    <3>1. d \in Commands /\ d.file = File(o) /\ d.at = "preserve" /\ d.stage = backups[File(o)]
      BY <1>1, Zenon DEF StorageTypeOK, Commands, Files, File
    <3> QED BY <1>1, <2>2, <3>1, StorageAssumption, Zenon
  <2> QED BY <2>1, <2>2, Zenon
<1>3. /\ commands' \in [Operators -> Commands] /\ commands'[o] = c
      /\ \A p \in Operators \ {o} : commands'[p] = commands[p]
  BY <1>2, Stepped, Zenon
<1>4. StorageTypeOK'
  BY <1>2, <1>3, Observed, StorageAssumption, Zenon DEF StorageTypeOK
<1>5. FilesInv'
  BY <1>1, <1>2, <1>3, Alone, StorageAssumption DEF FilesInv, Idle, File, Restoring
<1>6. SnapshotInv'
  BY <1>1, <1>2, <1>3, Alone, NoBackup
<1>7. RestoreInv'
  BY <1>1, <1>2, <1>3, Alone DEF RestoreInv
<1>8. LossInv' /\ NothingLost'
  BY <1>1, <1>2, <1>3, Alone, Zenon DEF LossInv, NothingLost, Restoring, Opened
<1> QED BY <1>4, <1>5, <1>6, <1>7, <1>8, Zenon

\* A restore moves the database away.
LEMMA PreserveInv ==
    ASSUME StorageInv, NEW o \in Operators, Preserve(o), Observe PROVE StorageInv'
<1> USE DEF StorageInv, Preserve, history
<1>1. Restoring(o) /\ commands[o].stage \in Contents
  BY Zenon DEF Restoring, RestoreInv
<1>2. PICK c \in Commands :
        /\ Step(o, c) /\ c.file = File(o) /\ c.stage = commands[o].stage
        /\ \/ /\ c.at = "install" /\ (c.found <=> main # None) /\ rollback = None
              /\ rollback' = main /\ main' = None
           \/ c.at = "failed" /\ UNCHANGED <<main, rollback>>
  <2>1. CASE Continue(o, "failed") /\ UNCHANGED <<main, rollback>>
    BY <2>1, Continued DEF StorageTypeOK
  <2>2. CASE /\ Step(o, [commands[o] EXCEPT !.at = "install", !.found = main # None])
             /\ rollback = None /\ rollback' = main /\ main' = None
    <3> DEFINE d == [commands[o] EXCEPT !.at = "install", !.found = main # None]
    <3>1. /\ d \in Commands /\ d.file = File(o) /\ d.at = "install"
          /\ d.stage = commands[o].stage /\ d.found = (main # None)
      BY Zenon DEF StorageTypeOK, Commands, File
    <3> QED BY <2>2, <3>1, Zenon
  <2> QED BY <2>1, <2>2, Zenon
<1>3. /\ commands' \in [Operators -> Commands] /\ commands'[o] = c
      /\ \A p \in Operators \ {o} : commands'[p] = commands[p]
  BY <1>2, Stepped, Zenon
<1>4. StorageTypeOK'
  BY <1>2, <1>3, Observed, StorageAssumption DEF StorageTypeOK, Files
<1>5. FilesInv'
  BY <1>1, <1>2, <1>3, Alone, StorageAssumption DEF FilesInv, Idle, File, Restoring
<1>6. SnapshotInv'
  BY <1>1, <1>2, <1>3, Alone, NoBackup
<1>7. RestoreInv'
  BY <1>1, <1>2, <1>3, Alone DEF RestoreInv, FilesInv
<1>8. CASE hot
  BY <1>4, <1>5, <1>6, <1>7, <1>8, Zenon DEF LossInv, NothingLost
<1>9. CASE ~hot
  <2>1. journal = None /\ main # Torn
    BY <1>1, <1>9, StorageAssumption, Zenon DEF LossInv, FilesInv
  <2>2. CASE c.at = "failed"
    BY <1>1, <1>2, <1>3, <1>4, <1>5, <1>6, <1>7, <2>2, Alone, Zenon
    DEF LossInv, NothingLost, Restoring, Opened
  <2>3. CASE c.at = "install"
    <3>1. committed \ {0} \subseteq Opened
      BY <1>2, <1>9, <2>3, Zenon DEF NothingLost
    <3>2. main # None => main \in Contents /\ Opened = main
      BY <2>1, OpenedFiles, Zenon DEF StorageTypeOK, Files
    <3>3. main = None => Opened = {}
      BY OpenedFiles, Zenon
    <3>4. LossInv'
      BY <1>1, <1>2, <1>3, <2>1, <2>3, <3>1, <3>2, Alone DEF LossInv, Restoring
    <3>5. NothingLost'
      BY <1>2, <2>1, <2>3, <3>1, <3>2, <3>3, StorageAssumption, Zenon DEF NothingLost
    <3> QED BY <1>4, <1>5, <1>6, <1>7, <3>4, <3>5, Zenon
  <2> QED BY <1>2, <2>2, <2>3, Zenon
<1> QED BY <1>8, <1>9, Zenon

\* A restore moves the copy into place.
LEMMA InstallInv ==
    ASSUME StorageInv, NEW o \in Operators, Install(o), Observe PROVE StorageInv'
<1> USE DEF StorageInv, Install
<1>1. /\ Restoring(o) /\ commands[o].stage \in Contents /\ main = None
      /\ commands[o].stage # Torn /\ commands[o].stage # None
  BY StorageAssumption, Zenon DEF Restoring, RestoreInv
<1>2. PICK c \in Commands :
        /\ Step(o, c) /\ c.file = File(o) /\ c.stage = commands[o].stage
        /\ c.found <=> commands[o].found
        /\ \/ /\ c.found /\ c.at = "removeRollback"
              /\ main' = c.stage /\ committed' = committed
           \/ ~c.found /\ c.at = "restored" /\ main' = c.stage /\ committed' = c.stage
           \/ c.at = "undo" /\ UNCHANGED <<main, committed>>
  <2>1. CASE Continue(o, "undo") /\ UNCHANGED <<main, committed>>
    BY <2>1, Continued
  <2>2. CASE /\ main' = commands[o].stage
             /\ Continue(o, IF commands[o].found THEN "removeRollback" ELSE "restored")
             /\ committed' = IF commands[o].found THEN committed ELSE commands[o].stage
    <3>1. CASE commands[o].found
      BY <2>2, <3>1, Continued
    <3>2. CASE ~commands[o].found
      BY <2>2, <3>2, Continued
    <3> QED BY <3>1, <3>2, Zenon
  <2> QED BY <2>1, <2>2, Zenon
<1>3. /\ commands' \in [Operators -> Commands] /\ commands'[o] = c
      /\ \A p \in Operators \ {o} : commands'[p] = commands[p]
  BY <1>2, Stepped, Zenon
<1>4. StorageTypeOK'
  BY <1>1, <1>2, <1>3, Observed, StorageAssumption DEF StorageTypeOK, Files
<1>5. FilesInv'
  BY <1>1, <1>2, <1>3, Alone, StorageAssumption DEF FilesInv, Idle, File, Restoring
<1>6. SnapshotInv'
  BY <1>1, <1>2, <1>3, Alone, NoBackup, SMTT(20)
<1>7. RestoreInv'
  BY <1>1, <1>2, <1>3, Alone DEF RestoreInv
<1>8. LossInv'
  BY <1>1, <1>2, <1>3, Alone, StorageAssumption DEF LossInv, Restoring
<1>9. NothingLost'
  <2> SUFFICES ASSUME ~hot PROVE NothingLost'
    BY Zenon DEF NothingLost
  <2>1. journal = None
    BY <1>1, Zenon DEF LossInv
  <2>2. main' = c.stage => Opened' = c.stage
    BY <1>1, <1>2, <2>1, EmptyFile, Zenon DEF Opened
  <2>3. CASE c.at = "removeRollback"
    BY <1>2, <2>3, StorageAssumption, Zenon DEF NothingLost, LossInv
  <2>4. CASE c.at = "restored"
    BY <1>1, <1>2, <2>2, <2>4, Zenon DEF NothingLost
  <2>5. CASE c.at = "undo"
    BY <1>2, <2>5, Zenon DEF NothingLost, Opened
  <2> QED BY <1>2, <2>3, <2>4, <2>5, Zenon
<1> QED BY <1>4, <1>5, <1>6, <1>7, <1>8, <1>9, Zenon

\* A restore removes the database it moved away.
LEMMA RemoveRollbackInv ==
    ASSUME StorageInv, NEW o \in Operators, RemoveRollback(o), Observe PROVE StorageInv'
<1> USE DEF StorageInv, RemoveRollback
<1>1. /\ Restoring(o) /\ commands[o].stage \in Contents /\ main = commands[o].stage
      /\ commands[o].stage # Torn /\ commands[o].stage # None /\ commands[o].found
  BY StorageAssumption, Zenon DEF Restoring, RestoreInv
<1>2. PICK c \in Commands :
        /\ Step(o, c) /\ c.file = File(o) /\ c.stage = commands[o].stage
        /\ c.found <=> commands[o].found
        /\ \/ c.at = "restored" /\ rollback' = None /\ committed' = c.stage
           \/ c.at = "undo" /\ UNCHANGED <<rollback, committed>>
  <2>1. CASE Continue(o, "undo") /\ UNCHANGED <<rollback, committed>>
    BY <2>1, Continued, Zenon
  <2>2. CASE /\ rollback' = None /\ Continue(o, "restored")
             /\ committed' = commands[o].stage
    BY <2>2, Continued
  <2> QED BY <2>1, <2>2, Zenon
<1>3. /\ commands' \in [Operators -> Commands] /\ commands'[o] = c
      /\ \A p \in Operators \ {o} : commands'[p] = commands[p]
  BY <1>2, Stepped, Zenon
<1>4. StorageTypeOK'
  BY <1>1, <1>2, <1>3, Observed, StorageAssumption DEF StorageTypeOK, Files
<1>5. FilesInv'
  BY <1>1, <1>2, <1>3, Alone, StorageAssumption DEF FilesInv, Idle, File, Restoring
<1>6. SnapshotInv'
  BY <1>1, <1>2, <1>3, Alone, NoBackup, SMTT(20)
<1>7. RestoreInv'
  BY <1>1, <1>2, <1>3, Alone DEF RestoreInv
<1>8. LossInv'
  BY <1>1, <1>2, <1>3, Alone, StorageAssumption DEF LossInv, Restoring
<1>9. NothingLost'
  <2> SUFFICES ASSUME ~hot PROVE NothingLost'
    BY Zenon DEF NothingLost
  <2>1. journal = None
    BY <1>1, Zenon DEF LossInv
  <2>2. Opened' = c.stage
    BY <1>1, <1>2, <2>1, EmptyFile, SMTT(20) DEF Opened
  <2>3. CASE c.at = "restored"
    BY <1>1, <1>2, <2>2, <2>3, SMTT(20) DEF NothingLost
  <2>4. CASE c.at = "undo"
    BY <1>2, <2>4, Zenon DEF NothingLost, Opened
  <2> QED BY <1>2, <2>3, <2>4, Zenon
<1> QED BY <1>4, <1>5, <1>6, <1>7, <1>8, <1>9, Zenon

\* A failed restore moves the database back.
LEMMA UndoInv ==
    ASSUME StorageInv, NEW o \in Operators, Undo(o), Observe PROVE StorageInv'
<1> USE DEF StorageInv, Undo, history
<1>1. Restoring(o)
  BY Zenon DEF Restoring
<1>2. PICK c \in Commands :
        Step(o, c) /\ c.file = File(o) /\ c.stage = commands[o].stage /\ c.at = "failed"
  BY Continued, Zenon
<1>3. /\ commands' \in [Operators -> Commands] /\ commands'[o] = c
      /\ \A p \in Operators \ {o} : commands'[p] = commands[p]
  BY <1>2, Stepped, Zenon
<1>0. /\ \A p \in Operators : commands'[p].at \in {"idle", "failed"}
      /\ \A p \in Operators \ {o} : commands'[p].at = "idle"
  BY <1>1, <1>2, <1>3, Alone
<1>4. StorageTypeOK'
  BY <1>2, <1>3, Observed, StorageAssumption, Zenon DEF StorageTypeOK, Files
<1>5. FilesInv'
  <2>1. main' = Torn => journal' \in Contents
    BY StorageAssumption, Zenon DEF FilesInv, RestoreInv
  <2>2. service' = "down"
    BY <1>1, Alone, SMTT(20)
  <2>3. \A p \in Operators : Idle(p)' <=> File(p)' = None
    BY <1>1, <1>2, <1>3, Alone, StorageAssumption, SMTT(20) DEF FilesInv, Idle, File
  <2> QED BY <1>0, <2>1, <2>2, <2>3, Zenon DEF FilesInv, Idle, Restoring
<1>6. SnapshotInv'
  BY <1>0, <1>2, <1>3, NoBackup, SMTT(20)
<1>7. RestoreInv'
  BY <1>0, Zenon DEF RestoreInv
<1>8. LossInv'
  <2> SUFFICES ASSUME ~hot PROVE LossInv'
    BY Zenon DEF LossInv
  <2>1. journal' = None
    BY <1>1, Zenon DEF LossInv
  <2>2. \A p \in Operators : commands'[p].at \notin {"install", "removeRollback", "undo"}
    BY <1>0, Zenon
  <2> QED BY <2>1, <2>2, Zenon DEF LossInv
<1>9. NothingLost'
  <2> SUFFICES ASSUME ~hot PROVE NothingLost'
    BY Zenon DEF NothingLost
  <2>1. CASE UNCHANGED <<main, rollback>>
    BY <2>1, Zenon DEF NothingLost, Opened
  <2>2. CASE commands[o].found /\ main' = rollback /\ rollback' = None
    <3>1. /\ journal = None /\ rollback \in Contents /\ rollback # Torn /\ rollback # None
          /\ committed \ {0} \subseteq rollback
      BY <1>1, <2>2, StorageAssumption, Zenon DEF LossInv
    <3>2. Opened' = rollback
      BY <2>2, <3>1, EmptyFile, Zenon DEF Opened
    <3> QED BY <3>1, <3>2, Zenon DEF NothingLost
  <2> QED BY <2>1, <2>2, Zenon
<1> QED BY <1>4, <1>5, <1>6, <1>7, <1>8, <1>9, Zenon

\* A command exits, or is killed.
LEMMA EndInv ==
    ASSUME StorageInv, NEW o \in Operators, End(o), Observe PROVE StorageInv'
<1> USE DEF StorageInv, End, Exit, history
<1>1. File(o) \in BackupFiles
  <2>1. commands[o].file \in BackupFiles \cup {None}
    BY Zenon DEF StorageTypeOK, Commands
  <2> QED BY <2>1, Zenon DEF FilesInv, File
<1> DEFINE c == NoCommand
<1>2. c \in Commands /\ c.at = "idle" /\ c.file = None /\ c.stage = None /\ Step(o, c)
  BY EmptyFile, Zenon DEF NoCommand, Commands, Files
<1> HIDE DEF c
<1>3. /\ commands' \in [Operators -> Commands] /\ commands'[o] = c
      /\ \A p \in Operators \ {o} : commands'[p] = commands[p]
  BY <1>2, Stepped, Zenon
<1>4. /\ backups' \in [BackupFiles -> Operators \cup Files]
      /\ \A f \in BackupFiles \ {File(o)} : backups'[f] = backups[f]
  BY <1>1, EmptyFile, Zenon DEF Put, StorageTypeOK, Files
<1>5. StorageTypeOK'
  BY <1>2, <1>3, <1>4, Observed, StorageAssumption, Zenon DEF StorageTypeOK
<1>6. FilesInv'
  BY <1>2, <1>3, StorageAssumption, ZenonT(30) DEF FilesInv, Idle, File, Restoring
<1>7. \A p \in Operators \ {o} : ~Idle(p) => File(p) \in BackupFiles
  <2>1. \A p \in Operators : commands[p].file \in BackupFiles \cup {None}
    BY Zenon DEF StorageTypeOK, Commands
  <2> QED BY <2>1, Zenon DEF FilesInv, File
<1>8. SnapshotInv'
  <2> SUFFICES ASSUME NEW p \in Operators
               PROVE  /\ BackingUp(p)' => main' # None /\ commands'[p].before \subseteq Committed'
                      /\ commands'[p].at \in {"write", "verify", "created"} =>
                           /\ commands'[p].stage \in Contents
                           /\ commands'[p].before \subseteq commands'[p].stage
                           /\ commands'[p].stage \subseteq Committed'
                      /\ p \notin clashed' =>
                           /\ commands'[p].at = "vacuum" => backups'[File(p)'] = None
                           /\ commands'[p].at = "write" => backups'[File(p)'] = p
                           /\ commands'[p].at \in {"verify", "created"} =>
                                backups'[File(p)'] = commands'[p].stage
                           /\ \A q \in Operators \ {p} : ~Idle(p)' => File(q)' # File(p)'
    BY Zenon DEF SnapshotInv
  <2>1. CASE p = o
    BY <1>2, <1>3, <2>1, Zenon DEF BackingUp, Idle
  <2>2. CASE p # o
    <3>1. commands'[p] = commands[p] /\ (BackingUp(p)' <=> BackingUp(p))
          /\ (Idle(p)' <=> Idle(p)) /\ File(p)' = File(p)
      BY <1>3, <2>2, Zenon DEF BackingUp, Idle, File
    <3>2. main' = main /\ Committed' = Committed
      BY Zenon DEF Committed
    <3>3. ASSUME p \notin clashed', ~Idle(p)
          PROVE  /\ p \notin clashed /\ backups'[File(p)] = backups[File(p)]
                 /\ \A q \in Operators \ {p} : File(q)' # File(p)'
      <4>1. p \notin clashed /\ \A q \in Operators \ {p} : File(q)' # File(p)'
        BY <3>1, <3>3, Observed, Zenon DEF Idle, File
      <4>2. File(o) # File(p)
        BY <2>2, <3>3, <4>1, Zenon DEF SnapshotInv
      <4>3. File(p) \in BackupFiles
        BY <1>7, <2>2, <3>3, ZenonT(30)
      <4> QED BY <1>4, <4>1, <4>2, <4>3, Zenon
    <3>4. Idle(p) => commands[p].at \notin {"write", "verify", "created", "vacuum"}
      BY Zenon DEF Idle
    <3> QED BY <3>1, <3>2, <3>3, <3>4, Zenon DEF SnapshotInv
  <2> QED BY <2>1, <2>2, Zenon
<1>9. RestoreInv'
  BY <1>2, <1>3, Zenon DEF RestoreInv, FilesInv, Restoring, Idle, File
<1>10. LossInv' /\ NothingLost'
  BY <1>2, <1>3, Zenon DEF LossInv, NothingLost, Restoring, Opened
<1> QED BY <1>5, <1>6, <1>7, <1>8, <1>9, <1>10, Zenon

\* A step that changes nothing.
LEMMA StillStorageInv == ASSUME StorageInv, UNCHANGED storageVars PROVE StorageInv'
<1> USE DEF StorageInv, storageVars, files, history
<1>1. StorageTypeOK'
  BY Zenon DEF StorageTypeOK
<1>2. FilesInv'
  BY Zenon DEF FilesInv, Idle, File, Restoring
<1>3. SnapshotInv'
  BY DEF SnapshotInv, Committed, BackingUp, Idle, File
<1>4. RestoreInv'
  BY Zenon DEF RestoreInv, File
<1>5. LossInv' /\ NothingLost'
  BY Zenon DEF LossInv, NothingLost, Restoring, Opened
<1> QED BY <1>1, <1>2, <1>3, <1>4, <1>5, Zenon

\* The invariant of the files is inductive.
LEMMA StorageInvariance == StorageSpec => []StorageInv
<1>1. StorageInit => StorageInv
  BY InitStorageInv, Zenon
<1>2. StorageInv /\ [StorageNext]_storageVars => StorageInv'
  <2> SUFFICES ASSUME StorageInv, [StorageNext]_storageVars PROVE StorageInv'
    BY Zenon
  <2>1. CASE Serve /\ Observe
    BY <2>1, StartInv, WriteInv, CommitInv, StopInv, Zenon DEF Serve
  <2>2. ASSUME NEW o \in Operators, BackUp(o), Observe PROVE StorageInv'
    BY <2>2, BackupInv, VacuumInv, VacuumFailsInv, VacuumEndsInv, VerifyInv, CleanupInv, Zenon
    DEF BackUp
  <2>3. ASSUME NEW o \in Operators, BringBack(o), Observe PROVE StorageInv'
    BY <2>3, RestoreCommandInv, StageInv, PreserveInv, InstallInv, RemoveRollbackInv, UndoInv, Zenon
    DEF BringBack
  <2>4. ASSUME NEW o \in Operators, End(o), Observe PROVE StorageInv'
    BY <2>4, EndInv, Zenon
  <2>5. CASE UNCHANGED storageVars
    BY <2>5, StillStorageInv, Zenon
  <2> QED BY <2>1, <2>2, <2>3, <2>4, <2>5, Zenon DEF StorageNext
<1> QED BY <1>1, <1>2, PTL DEF StorageSpec

\* A backup that is reported as created is one committed state of the database,
\* no older than the command (Backup).
THEOREM BackupsAreSnapshots == StorageSpec => []BackupIsSnapshot
<1>1. StorageInv => BackupIsSnapshot
  <2> SUFFICES ASSUME StorageInv, NEW o \in Operators,
                      commands[o].at = "created", o \notin clashed
               PROVE  /\ backups[File(o)] \notin {None, Torn} \cup Operators
                      /\ commands[o].before \subseteq backups[File(o)]
                      /\ backups[File(o)] \subseteq Committed
    BY Zenon DEF BackupIsSnapshot, Committed
  <2> QED BY StorageAssumption, Zenon DEF StorageInv, SnapshotInv
<1> QED BY <1>1, StorageInvariance, PTL

\* A restore that reports success has installed the verified copy and nothing
\* beside it (Restore).
THEOREM RestoresAreBackups == StorageSpec => []RestoredIsBackup
<1>1. StorageInv => RestoredIsBackup
  <2> SUFFICES ASSUME StorageInv, NEW o \in Operators, commands[o].at = "restored", ~hot
               PROVE  Opened = commands[o].stage /\ rollback = None
    BY Zenon DEF RestoredIsBackup
  <2>1. /\ main = commands[o].stage /\ main # None /\ rollback = None /\ journal = None
    BY StorageAssumption, Zenon DEF StorageInv, RestoreInv, LossInv, Restoring
  <2> QED BY <2>1, OpenedFiles, Zenon DEF StorageInv
<1> QED BY <1>1, StorageInvariance, PTL

\* Until a restore reports success every commit is in the database or in the
\* rollback file (Restore).
THEOREM CommitsAreKept == StorageSpec => []NothingLost
<1>1. StorageInv => NothingLost
  BY Zenon DEF StorageInv
<1> QED BY <1>1, StorageInvariance, PTL

----------------------------------------------------------------------------
(* Retention. *)

Prunes ==
    [at : {"idle", "batch", "sleep"}, cutoff : SUBSET Events, batch : Nat \ {0},
     maximum : Nat, deleted : Nat]

\* A prune has room for another batch.
PruneInv ==
    /\ prunes \in [Callers -> Prunes]
    /\ \A c \in Callers : prunes[c].maximum > 0 => prunes[c].deleted < prunes[c].maximum

\* The flag is held by the one prune of the service.
FlagInv ==
    /\ running <=> prunes["worker"].at = "batch" \/ prunes["api"].at = "batch"
    /\ ~(prunes["worker"].at = "batch" /\ prunes["api"].at = "batch")

\* Memory is ahead of the table by the one request that has yet to store its
\* settings.
Pending == {r \in Requests : saves[r] # NoRow}
SettingsInv ==
    /\ ~up => Pending = {}
    /\ up /\ ~apart =>
         \/ Pending = {} /\ dynamic = IF table = NoRow THEN FileSettings ELSE table
         \/ \E r \in Requests : Pending = {r} /\ saves[r] = dynamic

DataInv ==
    /\ status \in [Events -> {"pending", "delivered", "old", "gone"}]
    /\ up \in BOOLEAN /\ running \in BOOLEAN
    /\ dynamic \in Settings \cup {Off} /\ table \in Settings \cup {Off, NoRow}
    /\ saves \in [Requests -> Settings \cup {Off, NoRow}]

RetentionInv == DataInv /\ PruneInv /\ FlagInv /\ SettingsInv

\* Prunes that start, rest and sleep.
LEMMA PruneForms ==
    /\ NoPrune \in Prunes /\ NoPrune.at = "idle" /\ NoPrune.maximum = 0
    /\ [NoPrune EXCEPT !.at = "sleep"] \in Prunes
    /\ [NoPrune EXCEPT !.at = "sleep"].at = "sleep"
    /\ [NoPrune EXCEPT !.at = "sleep"].maximum = 0
    /\ \A cutoff \in SUBSET Events, batch \in Settings, maximum \in Nat :
         /\ NewPrune(cutoff, batch, maximum) \in Prunes
         /\ NewPrune(cutoff, batch, maximum).at = "batch"
         /\ NewPrune(cutoff, batch, maximum).deleted = 0
         /\ NewPrune(cutoff, batch, maximum).maximum = maximum
  BY RetentionAssumption DEF NoPrune, NewPrune, Prunes

\* A caller's prune is replaced.
LEMMA Became ==
    ASSUME PruneInv, NEW c \in Callers, NEW p \in Prunes, Become(c, p),
           p.maximum > 0 => p.deleted < p.maximum
    PROVE  /\ PruneInv' /\ prunes'[c] = p
           /\ \A d \in Callers \ {c} : prunes'[d] = prunes[d]
  BY Zenon DEF PruneInv, Become

\* A limit is never zero.
LEMMA LimitPositive ==
    ASSUME PruneInv, NEW c \in Callers PROVE Limit(prunes[c]) \in Nat \ {0}
<1>1. /\ prunes[c].batch \in Nat \ {0} /\ prunes[c].maximum \in Nat
      /\ prunes[c].deleted \in Nat
      /\ prunes[c].maximum > 0 => prunes[c].deleted < prunes[c].maximum
  BY Zenon DEF PruneInv, Prunes
<1> QED BY <1>1 DEF Limit

\* The invariant implies the types.
LEMMA RetentionTypes == RetentionInv => RetentionTypeOK
<1> SUFFICES ASSUME RetentionInv PROVE RetentionTypeOK
  BY Zenon
<1>1. \A c \in Callers :
        /\ prunes[c].at \in {"idle", "batch", "sleep"} /\ prunes[c].cutoff \subseteq Events
        /\ Limit(prunes[c]) \in Nat \ {0}
  BY LimitPositive, Zenon DEF RetentionInv, PruneInv, Prunes
<1> QED BY <1>1, Zenon DEF RetentionInv, DataInv, RetentionTypeOK

\* The service is down and nothing is stored.
LEMMA InitRetentionInv == RetentionInit => RetentionInv
<1> SUFFICES ASSUME RetentionInit PROVE RetentionInv
  BY Zenon
<1>1. DataInv
  BY RetentionAssumption, Zenon DEF RetentionInit, DataInv
<1>2. \A c \in Callers : prunes[c] = NoPrune
  BY Zenon DEF RetentionInit
<1>3. PruneInv
  BY <1>2, PruneForms DEF RetentionInit, PruneInv
<1>4. FlagInv
  BY <1>2, PruneForms, Zenon DEF RetentionInit, FlagInv, Callers
<1>5. SettingsInv
  BY Zenon DEF RetentionInit, SettingsInv, Pending
<1> QED BY <1>1, <1>3, <1>4, <1>5, Zenon DEF RetentionInv

\* Steps that leave the prunes and the flag alone.
LEMMA FlagStable ==
    ASSUME PruneInv, FlagInv, UNCHANGED <<prunes, running>> PROVE PruneInv' /\ FlagInv'
  BY Zenon DEF PruneInv, FlagInv

\* Steps that leave the settings alone.
LEMMA SettingsStable ==
    ASSUME SettingsInv, UNCHANGED <<up, dynamic, table, saves, apart>> PROVE SettingsInv'
  BY Zenon DEF SettingsInv, Pending

\* Events are delivered and grow old.
LEMMA FeedInv == ASSUME RetentionInv, Feed PROVE RetentionInv'
<1>1. /\ UNCHANGED <<up, dynamic, table, running, prunes, saves, apart>>
      /\ status' \in [Events -> {"pending", "delivered", "old", "gone"}]
  BY Zenon DEF Feed, Deliver, Age, RetentionInv, DataInv
<1>2. DataInv'
  BY <1>1, Zenon DEF RetentionInv, DataInv
<1> QED BY <1>1, <1>2, FlagStable, SettingsStable, Zenon DEF RetentionInv

\* A start reads the row, or notes that it could not.
LEMMA BootInv == ASSUME RetentionInv, Boot PROVE RetentionInv'
<1>1. DataInv'
  BY RetentionAssumption, Zenon DEF RetentionInv, DataInv, Boot
<1>2. SettingsInv'
  BY Zenon DEF RetentionInv, SettingsInv, Pending, Boot
<1> QED BY <1>1, <1>2, FlagStable, Zenon DEF RetentionInv, Boot

\* A stop drops the flag together with the prunes of the service.
LEMMA HaltInv == ASSUME RetentionInv, Halt PROVE RetentionInv'
<1>1. DataInv'
  BY Zenon DEF RetentionInv, DataInv, Halt
<1>2. SettingsInv'
  BY Zenon DEF RetentionInv, SettingsInv, Pending, Halt
<1>3. PruneInv' /\ FlagInv'
  BY PruneForms DEF RetentionInv, PruneInv, FlagInv, Halt, Callers
<1> QED BY <1>1, <1>2, <1>3, Zenon DEF RetentionInv

\* A configuration request changes memory.
LEMMA SetDynamicInv ==
    ASSUME RetentionInv, NEW r \in Requests, NEW s \in Settings \cup {Off}, SetDynamic(r, s)
    PROVE  RetentionInv'
<1>1. DataInv'
  BY Zenon DEF RetentionInv, DataInv, SetDynamic
<1>2. /\ saves'[r] = s /\ s # NoRow
      /\ \A q \in Requests \ {r} : saves'[q] = saves[q]
  BY RetentionAssumption, Zenon DEF RetentionInv, DataInv, SetDynamic
<1>3. SettingsInv'
  BY <1>2, Zenon DEF RetentionInv, SettingsInv, Pending, SetDynamic
<1> QED BY <1>1, <1>3, FlagStable, Zenon DEF RetentionInv, SetDynamic

\* It stores them, or fails.
LEMMA SaveInv ==
    ASSUME RetentionInv, NEW r \in Requests, SaveRetentionSettings(r) PROVE RetentionInv'
<1>1. DataInv'
  BY Zenon DEF RetentionInv, DataInv, SaveRetentionSettings
<1>2. saves'[r] = NoRow /\ \A q \in Requests \ {r} : saves'[q] = saves[q]
  BY Zenon DEF RetentionInv, DataInv, SaveRetentionSettings
<1>3. Pending' = Pending \ {r} /\ r \in Pending
  BY <1>2, Zenon DEF Pending, SaveRetentionSettings
<1>4. SettingsInv'
  BY <1>2, <1>3 DEF RetentionInv, SettingsInv, Pending, SaveRetentionSettings
<1> QED BY <1>1, <1>4, FlagStable, Zenon DEF RetentionInv, SaveRetentionSettings

\* The CLI writes the table.
LEMMA ConfigCLIInv ==
    ASSUME RetentionInv, NEW s \in Settings \cup {Off}, ConfigCLI(s) PROVE RetentionInv'
<1>1. DataInv'
  BY Zenon DEF RetentionInv, DataInv, ConfigCLI
<1>2. SettingsInv'
  BY Zenon DEF RetentionInv, SettingsInv, Pending, ConfigCLI
<1> QED BY <1>1, <1>2, FlagStable, Zenon DEF RetentionInv, ConfigCLI

\* The worker starts a prune, or sleeps.
LEMMA WorkInv == ASSUME RetentionInv, Work PROVE RetentionInv'
<1> USE DEF RetentionInv, Work, Callers
<1>1. DataInv' /\ SettingsInv'
  BY SettingsStable, Zenon DEF DataInv
<1>2. CASE dynamic = Off \/ running
  <2> DEFINE p == [NoPrune EXCEPT !.at = "sleep"]
  <2>0. p \in Prunes /\ p.at = "sleep" /\ p.maximum = 0
    BY PruneForms, Zenon
  <2>1. Become("worker", p) /\ UNCHANGED running
    BY <1>2, Zenon
  <2> HIDE DEF p
  <2>2. PruneInv' /\ prunes'["worker"].at = "sleep" /\ prunes'["api"] = prunes["api"]
    BY <2>0, <2>1, Became
  <2>3. FlagInv'
    BY <2>1, <2>2, Zenon DEF FlagInv
  <2> QED BY <1>1, <2>2, <2>3, Zenon
<1>3. CASE ~(dynamic = Off \/ running)
  <2>1. dynamic \in Settings /\ Old \in SUBSET Events /\ 0 \in Nat
    BY <1>3, Zenon DEF DataInv, Old
  <2> QED BY <1>1, <1>3, <2>1, PruneForms, Became DEF FlagInv
<1> QED BY <1>2, <1>3, <1>1, Zenon

\* Its timer fires.
LEMMA WakeInv == ASSUME RetentionInv, Wake PROVE RetentionInv'
<1> USE DEF RetentionInv, Wake, Callers
<1>1. DataInv' /\ SettingsInv'
  BY SettingsStable, Zenon DEF DataInv
<1> QED BY <1>1, PruneForms, Became DEF FlagInv

\* An administrator starts a prune.
LEMMA ManualInv == ASSUME RetentionInv, Manual PROVE RetentionInv'
<1> USE DEF RetentionInv, Callers
<1>1. PICK cutoff \in SUBSET Events, b \in Settings, n \in Nat :
        PruneAPI(cutoff, b, n) \/ PruneCLI(cutoff, b, n)
  BY RetentionAssumption, Zenon DEF Manual, Delivered
<1>2. DataInv' /\ SettingsInv'
  BY <1>1, SettingsStable, Zenon DEF DataInv, PruneAPI, PruneCLI
<1>3. CASE PruneAPI(cutoff, b, n)
  BY <1>2, <1>3, PruneForms, Became DEF FlagInv, PruneAPI
<1>4. CASE PruneCLI(cutoff, b, n)
  BY <1>2, <1>4, PruneForms, Became DEF FlagInv, PruneCLI
<1> QED BY <1>1, <1>3, <1>4, Zenon

\* A prune ends and gives the flag back.
LEMMA EndPruneInv ==
    ASSUME RetentionInv, NEW c \in Callers, prunes[c].at = "batch", EndPrune(c)
    PROVE  PruneInv' /\ FlagInv' /\ running' \in BOOLEAN
<1> USE DEF RetentionInv, Callers
<1> DEFINE p == IF c = "worker" THEN [NoPrune EXCEPT !.at = "sleep"] ELSE NoPrune
<1>1. p \in Prunes /\ p.at # "batch" /\ p.maximum = 0 /\ Become(c, p)
  BY PruneForms, SMTT(20) DEF EndPrune
<1> HIDE DEF p
<1>2. PruneInv' /\ prunes'[c] = p /\ \A d \in Callers \ {c} : prunes'[d] = prunes[d]
  BY <1>1, Became
<1> QED BY <1>1, <1>2, Zenon DEF EndPrune, FlagInv, DataInv

\* A batch is deleted, and the prune goes on or ends.
LEMMA BatchInv == ASSUME RetentionInv, NEW c \in Callers, Batch(c) PROVE RetentionInv'
<1> USE DEF RetentionInv
<1>1. SettingsInv'
  BY SettingsStable, Zenon DEF Batch
<1>2. PICK E \in SUBSET Eligible(c) :
        /\ status' = [e \in Events |-> IF e \in E THEN "gone" ELSE status[e]]
        /\ IF Finished(prunes[c], Cardinality(E)) THEN EndPrune(c)
           ELSE /\ Become(c, [prunes[c] EXCEPT !.deleted = @ + Cardinality(E)])
                /\ UNCHANGED running
  BY Zenon DEF Batch
<1>3. Cardinality(E) \in Nat
  <2>1. E \subseteq Events
    BY Zenon DEF Eligible, Delivered
  <2> QED BY <2>1, FS_Subset, FS_CardinalityType, RetentionAssumption, Zenon
<1>4. CASE Finished(prunes[c], Cardinality(E))
  <2>1. PruneInv' /\ FlagInv' /\ running' \in BOOLEAN
    BY <1>2, <1>4, EndPruneInv, Zenon DEF Batch
  <2>2. DataInv'
    BY <1>2, <2>1, Zenon DEF DataInv, Batch
  <2> QED BY <1>1, <2>1, <2>2, Zenon
<1>5. CASE ~Finished(prunes[c], Cardinality(E))
  <2> DEFINE p == [prunes[c] EXCEPT !.deleted = prunes[c].deleted + Cardinality(E)]
  <2>1. prunes[c] \in Prunes
    BY Zenon DEF PruneInv
  <2>2. /\ p \in Prunes /\ p.at = prunes[c].at /\ p.maximum = prunes[c].maximum
        /\ p.deleted = prunes[c].deleted + Cardinality(E)
    BY <1>3, <2>1 DEF Prunes
  <2>3. p.maximum > 0 => p.deleted < p.maximum
    BY <1>3, <1>5, <2>1, <2>2 DEF Finished, Prunes
  <2>4. Become(c, p) /\ UNCHANGED running
    BY <1>2, <1>5, Zenon
  <2> HIDE DEF p
  <2>5. PruneInv' /\ prunes'[c] = p /\ \A d \in Callers \ {c} : prunes'[d] = prunes[d]
    BY <2>2, <2>3, <2>4, Became, Zenon
  <2>6. FlagInv'
    BY <2>2, <2>4, <2>5 DEF FlagInv, Callers
  <2>7. DataInv'
    BY <1>2, <2>4, Zenon DEF DataInv, Batch
  <2> QED BY <1>1, <2>5, <2>6, <2>7, Zenon
<1> QED BY <1>4, <1>5, Zenon

\* A prune fails.
LEMMA FailInv == ASSUME RetentionInv, NEW c \in Callers, Fail(c) PROVE RetentionInv'
<1>1. PruneInv' /\ FlagInv' /\ running' \in BOOLEAN
  BY EndPruneInv, Zenon DEF Fail
<1>2. DataInv'
  BY <1>1, Zenon DEF RetentionInv, DataInv, Fail
<1> QED BY <1>1, <1>2, SettingsStable, Zenon DEF RetentionInv, Fail

\* The invariant of retention is inductive.
LEMMA RetentionInvariance == RetentionSpec => []RetentionInv
<1>1. RetentionInv /\ [RetentionNext]_retentionVars => RetentionInv'
  <2> SUFFICES ASSUME RetentionInv, [RetentionNext]_retentionVars PROVE RetentionInv'
    BY Zenon
  <2>1. CASE UNCHANGED retentionVars
    BY <2>1, FlagStable, SettingsStable, Zenon DEF retentionVars, RetentionInv, DataInv
  <2>2. CASE Configure
    BY <2>2, SetDynamicInv, ConfigCLIInv, Zenon DEF Configure
  <2>3. CASE \E c \in Callers : Batch(c) \/ Fail(c)
    BY <2>3, BatchInv, FailInv, Zenon
  <2>4. CASE \E r \in Requests : SaveRetentionSettings(r)
    BY <2>4, SaveInv, Zenon
  <2> QED BY <2>1, <2>2, <2>3, <2>4, FeedInv, ManualInv, BootInv, HaltInv, WorkInv, WakeInv, Zenon
    DEF RetentionNext
<1> QED BY <1>1, InitRetentionInv, PTL DEF RetentionSpec

\* The service prunes once at a time, and its flag is set exactly while it does
\* (Service.Prune).
THEOREM PrunesAlone == RetentionSpec => []OnePrune
<1>1. RetentionInv => OnePrune
  <2> SUFFICES ASSUME RetentionInv PROVE OnePrune
    BY Zenon
  <2> DEFINE busy == {c \in {"worker", "api"} : prunes[c].at = "batch"}
  <2>1. CASE ~running
    <3>1. busy = {}
      BY <2>1, Zenon DEF RetentionInv, FlagInv
    <3> QED BY <2>1, <3>1, FS_EmptySet, Zenon DEF OnePrune
  <2>2. CASE running
    <3>1. busy = {"worker"} \/ busy = {"api"}
      BY <2>2, Zenon DEF RetentionInv, FlagInv
    <3>2. Cardinality(busy) = 1
      BY <3>1, FS_Singleton, Zenon
    <3> QED BY <2>2, <3>2, Zenon DEF OnePrune
  <2> QED BY <2>1, <2>2, Zenon
<1> QED BY <1>1, RetentionInvariance, PTL

\* The service works by the settings in the database, apart from the cases that
\* the history variable names (handleRetention, newEngineOperations).
THEOREM SettingsAreStored == RetentionSpec => []SettingsAgree
<1>1. RetentionInv => SettingsAgree
  BY Zenon DEF RetentionInv, SettingsInv, Pending, SettingsAgree
<1> QED BY <1>1, RetentionInvariance, PTL

----------------------------------------------------------------------------
(* What a prune deletes. *)

Deleted == {e \in Events : status[e] # "gone" /\ status'[e] = "gone"}

\* Events only go by a batch of a prune: they are among those it was asked for,
\* delivered, and no more than its maximum allows; the worker's are old.
DeletesAsAsked ==
    [][Deleted # {} => \E c \in Callers :
         /\ prunes[c].at = "batch" /\ Deleted \subseteq Eligible(c)
         /\ prunes[c].maximum > 0 =>
              prunes[c].deleted + Cardinality(Deleted) <= prunes[c].maximum
         /\ c = "worker" => Deleted \subseteq Old]_retentionVars

\* The events a prune of the worker is asked for stay old until they go.
WorkerInv == \A e \in prunes["worker"].cutoff : status[e] \in {"old", "gone"}

\* Only a start of the worker's prune chooses events, and it chooses old ones.
LEMMA WorkerKeeps ==
    ASSUME RetentionInv, WorkerInv, [RetentionNext]_retentionVars
    PROVE  WorkerInv'
<1> USE DEF WorkerInv
<1>0. /\ prunes \in [Callers -> Prunes] /\ "worker" \in Callers
      /\ \A c \in Callers : prunes[c].cutoff \subseteq Events
      /\ status \in [Events -> {"pending", "delivered", "old", "gone"}]
      /\ NoPrune.cutoff = {} /\ [NoPrune EXCEPT !.at = "sleep"].cutoff = {}
      /\ \A E, b, n : NewPrune(E, b, n).cutoff = E
  <2>1. NoPrune.cutoff = {} /\ [NoPrune EXCEPT !.at = "sleep"].cutoff = {}
        /\ \A E, b, n : NewPrune(E, b, n).cutoff = E
    BY DEF NoPrune, NewPrune
  <2> QED BY <2>1, Zenon DEF RetentionInv, DataInv, PruneInv, Prunes, Callers
<1>1. ASSUME UNCHANGED <<status, prunes>> PROVE WorkerInv'
  BY <1>1, Zenon
<1>2. CASE Feed
  <2>1. prunes' = prunes /\ \A e \in Events : status[e] \in {"old", "gone"} =>
          status'[e] \in {"old", "gone"}
    BY <1>0, <1>2, Zenon DEF Feed, Deliver, Age
  <2> QED BY <1>0, <2>1, Zenon
<1>3. CASE Configure \/ Boot \/ \E r \in Requests : SaveRetentionSettings(r)
  BY <1>1, <1>3, Zenon DEF Configure, ConfigCLI, SetDynamic, Boot, SaveRetentionSettings
<1>4. CASE Manual
  <2>1. status' = status /\ prunes'["worker"] = prunes["worker"]
    BY <1>0, <1>4, Zenon DEF Manual, PruneAPI, PruneCLI, Become, Callers
  <2> QED BY <2>1, Zenon
<1>5. CASE Halt
  <2>1. status' = status /\ prunes'["worker"] = NoPrune
    BY <1>0, <1>5, Zenon DEF Halt
  <2> QED BY <1>0, <2>1, Zenon
<1>6. CASE Work
  <2>1. PICK p \in {[NoPrune EXCEPT !.at = "sleep"], NewPrune(Old, dynamic, 0)} :
          prunes' = [prunes EXCEPT !["worker"] = p]
    BY <1>6, Zenon DEF Work, Become
  <2>2. p.cutoff \subseteq Old
    BY DEF NoPrune, NewPrune
  <2>3. status' = status /\ prunes'["worker"] = p
    BY <1>0, <1>6, <2>1, Zenon DEF Work
  <2> QED BY <2>2, <2>3, Zenon DEF Old
<1>7. CASE Wake
  <2>1. status' = status /\ prunes'["worker"] = NoPrune
    BY <1>0, <1>7, Zenon DEF Wake, Become
  <2> QED BY <1>0, <2>1, Zenon
<1>8. ASSUME NEW c \in Callers, Batch(c) \/ Fail(c) PROVE WorkerInv'
  <2>1. prunes'["worker"].cutoff \in {prunes["worker"].cutoff, {}}
    <3>1. PICK n : \E p \in {NoPrune, [NoPrune EXCEPT !.at = "sleep"],
                             [prunes[c] EXCEPT !.deleted = n]} :
            prunes' = [prunes EXCEPT ![c] = p]
      BY <1>8, Zenon DEF Batch, Fail, EndPrune, Become
    <3>2. PICK p \in {NoPrune, [NoPrune EXCEPT !.at = "sleep"],
                      [prunes[c] EXCEPT !.deleted = n]} :
            prunes' = [prunes EXCEPT ![c] = p]
      BY <3>1, Zenon
    <3>3. prunes[c] \in Prunes
      BY <1>0, Zenon
    <3>4. p.cutoff \in {prunes[c].cutoff, {}}
      BY <3>3 DEF NoPrune, Prunes
    <3> QED BY <1>0, <3>2, <3>4, Zenon
  <2>2. \A e \in Events : status'[e] \in {status[e], "gone"}
    BY <1>0, <1>8, Zenon DEF Batch, Fail
  <2> QED BY <1>0, <2>1, <2>2, Zenon
<1> QED BY <1>1, <1>2, <1>3, <1>4, <1>5, <1>6, <1>7, <1>8, Zenon
        DEF RetentionNext, retentionVars

\* Retention deletes no event that is not delivered, none that its caller did
\* not ask for and no more than its caller allowed, with any number of batches
\* beside the prunes of others, and what the worker deletes is past the age of
\* the settings (PruneDeliveredBefore, Service.Prune).
THEOREM PrunesAsAsked == RetentionSpec => DeletesAsAsked
<1> DEFINE Asked(c) ==
             /\ prunes[c].at = "batch" /\ Deleted \subseteq Eligible(c)
             /\ prunes[c].maximum > 0 =>
                  prunes[c].deleted + Cardinality(Deleted) <= prunes[c].maximum
             /\ c = "worker" => Deleted \subseteq Old
<1>1. RetentionInit => WorkerInv
  <2>1. NoPrune.cutoff = {}
    BY DEF NoPrune
  <2> QED BY <2>1, Zenon DEF RetentionInit, WorkerInv, Callers
<1>2. ASSUME RetentionInv, WorkerInv, NEW c \in Callers, Batch(c) PROVE Asked(c)
  <2>1. PICK E \in SUBSET Eligible(c) :
          /\ \/ Cardinality(E) = Limit(prunes[c])
             \/ Cardinality(E) < Limit(prunes[c])
          /\ status' = [e \in Events |-> IF e \in E THEN "gone" ELSE status[e]]
    BY <1>2, Zenon DEF Batch
  <2>2. Deleted = E
    BY <2>1, Zenon DEF Deleted, Eligible, Delivered
  <2>3. IsFiniteSet(E)
    BY RetentionAssumption, FS_Subset, Zenon DEF Eligible, Delivered
  <2>4. Cardinality(E) \in Nat
    BY <2>3, FS_CardinalityType, Zenon
  <2>5. /\ prunes[c].batch \in Nat \ {0} /\ prunes[c].maximum \in Nat
        /\ prunes[c].deleted \in Nat
    BY <1>2, Zenon DEF RetentionInv, PruneInv, Prunes
  <2>6. prunes[c].maximum > 0 => prunes[c].deleted + Cardinality(E) <= prunes[c].maximum
    BY <2>1, <2>4, <2>5 DEF Limit
  <2>7. c = "worker" => E \subseteq Old
    BY <1>2, Zenon DEF WorkerInv, Eligible, Delivered, Old
  <2> QED BY <1>2, <2>2, <2>6, <2>7, Zenon DEF Batch
<1>3. ASSUME RetentionInv, RetentionNext, \A c \in Callers : ~Batch(c) PROVE Deleted = {}
  <2>1. \A e \in Events : status[e] # "gone" => status'[e] # "gone"
    BY <1>3, Zenon DEF RetentionInv, DataInv, RetentionNext, Feed, Deliver, Age, Configure,
       ConfigCLI, SetDynamic, Manual, PruneAPI, PruneCLI, SaveRetentionSettings, Boot, Halt,
       Work, Wake, Fail
  <2> QED BY <2>1, Zenon DEF Deleted
<1>4. RetentionInv /\ WorkerInv /\ [RetentionNext]_retentionVars =>
        [Deleted # {} => \E c \in Callers : Asked(c)]_retentionVars
  BY <1>2, <1>3, Zenon
<1> QED BY <1>1, <1>4, WorkerKeeps, RetentionInvariance, PTL DEF RetentionSpec, DeletesAsAsked

----------------------------------------------------------------------------
(* Pages: finite sets of keys and their descending order. *)

\* Sets of keys are finite.
LEMMA KeySets ==
    ASSUME NEW S \in SUBSET Keys, NEW T \in SUBSET S
    PROVE  /\ IsFiniteSet(S) /\ Cardinality(S) \in Nat
           /\ IsFiniteSet(T) /\ Cardinality(T) \in Nat /\ Cardinality(T) <= Cardinality(S)
           /\ Cardinality(T) = Cardinality(S) => T = S
<1>1. IsFiniteSet(Keys)
  BY PagesAssumption, FS_Interval DEF Keys
<1>2. IsFiniteSet(S) /\ IsFiniteSet(T)
  BY <1>1, FS_Subset, Zenon
<1> QED BY <1>2, FS_Subset, FS_CardinalityType, Zenon

\* Keys are integers.
LEMMA KeyInt == \A k \in Keys : k \in Int
  BY PagesAssumption DEF Keys

\* The position of k in the descending order of S.
Rank(S, k) == Cardinality({j \in S : j >= k})

\* It is one more than the number of greater keys, and grows as k falls.
LEMMA RankProperties ==
    ASSUME NEW S \in SUBSET Keys, NEW k \in S
    PROVE  /\ Rank(S, k) \in Nat /\ 1 <= Rank(S, k) /\ Rank(S, k) <= Cardinality(S)
           /\ Cardinality({j \in S : j > k}) = Rank(S, k) - 1
           /\ \A j \in S : j < k => Rank(S, j) > Rank(S, k)
<1> DEFINE U == {j \in S : j > k}
           V == {j \in S : j >= k}
<1>0. \A j \in S : j \in Int
  BY KeyInt, Zenon
<1>1. V = U \cup {k} /\ k \notin U /\ U \in SUBSET S /\ V \in SUBSET S
  BY <1>0
<1>2. /\ IsFiniteSet(U) /\ Cardinality(U) \in Nat
      /\ Cardinality(V) \in Nat /\ Cardinality(V) <= Cardinality(S)
      /\ Cardinality(S) \in Nat
  BY <1>1, KeySets, Zenon
<1>3. Cardinality(V) = Cardinality(U) + 1
  BY <1>1, <1>2, FS_AddElement, Zenon
<1>4. ASSUME NEW j \in S, j < k PROVE Rank(S, j) > Rank(S, k)
  <2> DEFINE W == {i \in S : i >= j}
  <2>1. W \in SUBSET Keys /\ V \in SUBSET W /\ j \in W /\ j \notin V
    BY <1>0, <1>4
  <2>2. /\ Cardinality(V) \in Nat /\ Cardinality(W) \in Nat
        /\ Cardinality(V) <= Cardinality(W) /\ Cardinality(V) # Cardinality(W)
    BY <2>1, KeySets, Zenon
  <2> QED BY <2>2 DEF Rank
<1> QED BY <1>2, <1>3, <1>4 DEF Rank

\* Every position is taken.
LEMMA RankOnto ==
    ASSUME NEW S \in SUBSET Keys, NEW n \in 1..Cardinality(S)
    PROVE  \E k \in S : Rank(S, k) = n
<1> DEFINE m == Cardinality(S)
           r == [k \in S |-> Rank(S, k)]
<1>1. IsFiniteSet(S) /\ m \in Nat
  BY KeySets, Zenon
<1>2. IsFiniteSet(1..m) /\ Cardinality(1..m) = m
  BY <1>1, FS_Interval
<1>3. r \in Injection(S, 1..m)
  <2>0. \A k \in S : Rank(S, k) \in Nat /\ 1 <= Rank(S, k) /\ Rank(S, k) <= m
    BY RankProperties, Zenon
  <2>1. r \in [S -> 1..m]
    BY <1>1, <2>0
  <2>2. \A j, k \in S : j # k => r[j] # r[k]
    <3> SUFFICES ASSUME NEW j \in S, NEW k \in S, j < k PROVE r[j] # r[k]
      BY KeyInt
    <3>1. /\ Rank(S, j) \in Nat /\ Rank(S, k) \in Nat /\ Rank(S, j) > Rank(S, k)
      BY RankProperties, Zenon
    <3> QED BY <3>1
  <2> QED BY <2>1, <2>2, Zenon DEF Injection, IsInjective
<1>4. r \in Surjection(S, 1..m)
  BY <1>1, <1>2, <1>3, FS_Injection, Zenon
<1> QED BY <1>4, Zenon DEF Surjection

\* A set of keys can be listed in descending order, and the list has every key.
LEMMA DescendingProperties ==
    ASSUME NEW S \in SUBSET Keys
    PROVE  /\ Descending(S) \in Seq(S) /\ Len(Descending(S)) = Cardinality(S)
           /\ \A i, j \in 1..Cardinality(S) :
                i < j => Descending(S)[i] > Descending(S)[j]
           /\ \A k \in S : \E i \in 1..Cardinality(S) : Descending(S)[i] = k
<1> DEFINE m == Cardinality(S)
           Falls(s) == \A i, j \in DOMAIN s : i < j => s[i] > s[j]
           q == [n \in 1..m |-> CHOOSE k \in S : Rank(S, k) = n]
<1>0. IsFiniteSet(S) /\ m \in Nat /\ \A k \in S : k \in Int
  BY KeySets, KeyInt, Zenon
<1>1. \A n \in 1..m : q[n] \in S /\ Rank(S, q[n]) = n
  BY RankOnto, Zenon
<1>2. q \in [1..m -> S]
  BY <1>1, Zenon
<1>3. Falls(q)
  <2> SUFFICES ASSUME NEW i \in 1..m, NEW j \in 1..m, i < j PROVE q[i] > q[j]
    BY Zenon
  <2>1. q[i] \in S /\ q[j] \in S /\ Rank(S, q[i]) = i /\ Rank(S, q[j]) = j
    BY <1>1, Zenon
  <2> HIDE DEF q
  <2>2. q[i] < q[j] => Rank(S, q[i]) > Rank(S, q[j])
    BY <2>1, RankProperties, Zenon
  <2> QED BY <1>0, <2>1, <2>2
<1> HIDE DEF q
<1>4. Descending(S) \in [1..m -> S] /\ Falls(Descending(S))
  BY <1>2, <1>3, Zenon DEF Descending
<1> DEFINE d == Descending(S)
<1> HIDE DEF d
<1>5. d \in [1..m -> S] /\ \A i, j \in 1..m : i < j => d[i] > d[j]
  BY <1>4, Zenon DEF d
<1>6. d \in Seq(S) /\ Len(d) = m
  BY <1>0, <1>5
<1>7. d \in Injection(1..m, S)
  <2>1. \A i, j \in 1..m : i # j => d[i] # d[j]
    BY <1>0, <1>5
  <2> QED BY <1>5, <2>1, Zenon DEF Injection, IsInjective
<1>8. Cardinality(1..m) = m
  BY <1>0, FS_Interval
<1>9. d \in Surjection(1..m, S)
  BY <1>0, <1>7, <1>8, FS_Injection, Zenon
<1> QED BY <1>5, <1>6, <1>9, Zenon DEF Surjection, d

\* The newest entries are a set of keys with every key above one of its own.
LEMMA NewestProperties ==
    ASSUME NEW S \in SUBSET Keys, NEW n \in Nat
    PROVE  /\ Newest(S, n) \in SUBSET S
           /\ Newest(S, n) = {k \in S : Rank(S, k) <= n}
           /\ \A k \in Newest(S, n), j \in S : j >= k => j \in Newest(S, n)
<1>0. \A j \in S : j \in Int
  BY KeyInt, Zenon
<1>1. Newest(S, n) \in SUBSET S
  BY Zenon DEF Newest
<1>2. ASSUME NEW k \in S PROVE k \in Newest(S, n) <=> Rank(S, k) <= n
  <2>1. /\ Rank(S, k) \in Nat
        /\ Cardinality({j \in S : j > k}) = Rank(S, k) - 1
    BY RankProperties, Zenon
  <2> QED BY <2>1 DEF Newest
<1>3. ASSUME NEW k \in Newest(S, n), NEW j \in S, j >= k PROVE j \in Newest(S, n)
  <2>1. k \in S /\ Rank(S, k) <= n
    BY <1>1, <1>2, Zenon
  <2>2. Rank(S, k) \in Nat /\ Rank(S, j) \in Nat /\ (k < j => Rank(S, k) > Rank(S, j))
    BY <2>1, RankProperties, Zenon
  <2>3. Rank(S, j) <= n
    BY <1>0, <1>3, <2>1, <2>2
  <2> QED BY <1>2, <2>3, Zenon
<1> QED BY <1>1, <1>2, <1>3, Zenon

\* Reading one entry more than the limit tells whether there are more.
LEMMA LastPage ==
    ASSUME NEW before, NEW limit \in Nat
    PROVE  /\ ~hasMore(before, limit) => Newest(Beyond(before), limit) = Beyond(before)
           /\ hasMore(before, limit) => Beyond(before) # {}
<1> DEFINE B == Beyond(before)
           m == Cardinality(B)
           N == Newest(B, limit + 1)
<1>0. B \in SUBSET Keys /\ limit + 1 \in Nat
  BY DEF Beyond, Shown
<1> HIDE DEF B
<1>1. N \in SUBSET B /\ N = {k \in B : Rank(B, k) <= limit + 1}
  BY <1>0, NewestProperties
<1>2. m \in Nat /\ IsFiniteSet(N) /\ Cardinality(N) \in Nat
  BY <1>0, <1>1, KeySets, Zenon
<1>3. ASSUME NEW k \in B, k \notin Newest(B, limit) PROVE Cardinality(N) > limit
  <2>1. Rank(B, k) \in Nat /\ Rank(B, k) <= m /\ ~(Rank(B, k) <= limit)
    <3>1. Newest(B, limit) = {j \in B : Rank(B, j) <= limit}
      BY <1>0, NewestProperties, Zenon
    <3> QED BY <1>0, <1>3, <3>1, RankProperties, Zenon
  <2> DEFINE q == [n \in 1..limit + 1 |-> CHOOSE j \in B : Rank(B, j) = n]
  <2>2. \A n \in 1..limit + 1 : q[n] \in B /\ Rank(B, q[n]) = n
    BY <1>0, <1>2, <2>1, RankOnto
  <2>3. q \in Injection(1..limit + 1, N)
    BY <1>1, <2>2 DEF Injection, IsInjective
  <2>4. Cardinality(1..limit + 1) <= Cardinality(N)
    BY <1>2, <2>3, FS_Injection, Zenon
  <2>5. Cardinality(1..limit + 1) = limit + 1
    BY FS_Interval
  <2> QED BY <1>2, <2>4, <2>5
<1>4. Newest(B, limit) \in SUBSET B
  BY Zenon DEF Newest
<1>5. ~(Cardinality(N) > limit) => Newest(B, limit) = B
  BY <1>3, <1>4, Zenon
<1>6. Cardinality(N) > limit => B # {}
  BY <1>1, <1>2, FS_EmptySet
<1> QED BY <1>5, <1>6, Zenon DEF hasMore, B

\* The cursor is the least key of the page.
LEMMA CursorIsLeast ==
    ASSUME NEW before, NEW limit \in Nat \ {0}, Beyond(before) # {}
    PROVE  /\ LastOfPage(before, limit) \in Newest(Beyond(before), limit)
           /\ \A j \in Newest(Beyond(before), limit) : LastOfPage(before, limit) <= j
<1> DEFINE B == Beyond(before)
           N == Newest(B, limit)
<1>0. B \in SUBSET Keys /\ B # {} /\ limit \in Nat
  BY Zenon DEF Beyond, Shown
<1>b. IsFiniteSet(B) /\ Cardinality(B) \in Nat
  BY <1>0, KeySets, Zenon
<1>1. Cardinality(B) >= 1
  BY <1>0, <1>b, FS_EmptySet
<1> HIDE DEF B
<1>2. PICK k \in B : Rank(B, k) = 1
  BY <1>0, <1>b, <1>1, RankOnto
<1>3. k \in N /\ N \in SUBSET B
  BY <1>0, <1>2, NewestProperties
<1>4. N \in SUBSET Keys
  BY <1>0, <1>3, Zenon
<1> HIDE DEF N
<1>5. IsFiniteSet(N) /\ Cardinality(N) \in Nat
  BY <1>4, KeySets, Zenon
<1>6. Cardinality(N) >= 1
  BY <1>3, <1>5, FS_EmptySet
<1>7. PICK l \in N : Rank(N, l) = Cardinality(N)
  BY <1>4, <1>5, <1>6, RankOnto
<1>8. \A j \in N : l <= j
  <2> SUFFICES ASSUME NEW j \in N, j < l PROVE FALSE
    BY <1>4, KeyInt
  <2>1. Rank(N, j) \in Nat /\ Rank(N, j) <= Cardinality(N) /\ Rank(N, j) > Rank(N, l)
    BY <1>4, RankProperties, Zenon
  <2> QED BY <1>5, <1>7, <2>1
<1> QED BY <1>7, <1>8, Zenon DEF LastOfPage, N, B

----------------------------------------------------------------------------
(* Pages: a list and the walk of a client through it. *)

\* The ring holds the last entries, as many as fit.
RingInv ==
    list = "operational" =>
      Stored = (IF next > Capacity THEN next - Capacity ELSE 1)..(next - 1)

ListInv ==
    /\ stored \in [Keys -> {"absent", "hides", "shows"}]
    /\ next \in 1..MaxKey + 1
    /\ RingInv

Listed(k) == \E i \in DOMAIN walk.seen : walk.seen[i] = k

\* What a walk has seen is in order, and lies at or above its cursor; what it
\* has passed and was there all along it has seen.
WalkInv ==
    /\ walk \in [at : {"start", "next", "done"}, before : Keys \cup {0}, seen : Seq(Keys)]
    /\ \A i, j \in DOMAIN walk.seen : i < j => walk.seen[i] > walk.seen[j]
    /\ walk.at = "start" => walk.before = 0 /\ walk.seen = <<>>
    /\ walk.at = "next" =>
         /\ walk.before \in Keys
         /\ \A i \in DOMAIN walk.seen : walk.seen[i] >= walk.before
         /\ \A k \in stable : k >= walk.before => Listed(k)
    /\ walk.at = "done" => \A k \in stable : Listed(k)

PagesInv == ListInv /\ WalkInv /\ stable \subseteq Shown

\* Nothing is stored and no walk has begun.
LEMMA InitPagesInv == PagesInit => PagesInv
<1> SUFFICES ASSUME PagesInit PROVE PagesInv
  BY Zenon
<1>1. Stored = {} /\ stable = {} /\ next = 1
  BY Zenon DEF PagesInit, Stored
<1>2. RingInv
  BY <1>1, PagesAssumption DEF RingInv
<1>3. ListInv
  BY <1>1, <1>2, PagesAssumption DEF PagesInit, ListInv
<1>4. WalkInv
  BY DEF PagesInit, NoWalk, WalkInv
<1> QED BY <1>1, <1>3, <1>4, Zenon DEF PagesInv

\* The history never holds an entry that is not shown.
LEMMA WatchInv == Watch => stable' \subseteq Shown'
  BY Zenon DEF Watch

\* Whatever the list does, a walk keeps what it has.
LEMMA WalkStable ==
    ASSUME WalkInv, Watch, UNCHANGED walk PROVE WalkInv'
<1>1. walk.at # "start" => stable' \subseteq stable
  BY Zenon DEF Watch
<1> QED BY <1>1, Zenon DEF WalkInv, Listed

\* The ring takes an entry and drops the oldest when it is full.
LEMMA AppendInv ==
    ASSUME ListInv, NEW s \in {"shows", "hides"}, append(s) PROVE ListInv'
<1> DEFINE low == IF next > Capacity THEN next - Capacity ELSE 1
           oldest == {k \in Stored : Cardinality(Stored) = Capacity
                                       /\ \A j \in Stored : k <= j}
<1>0. /\ next \in Nat /\ Capacity \in Nat \ {0} /\ low \in Nat /\ 1 <= next
      /\ 1 <= low /\ low <= next
  BY PagesAssumption DEF ListInv
<1>1. Stored = low..(next - 1)
  BY Zenon DEF ListInv, RingInv, append
<1>2. Cardinality(Stored) = next - low
  BY <1>0, <1>1, FS_Interval
<1>3. oldest = IF next - low = Capacity THEN {low} ELSE {}
  BY <1>0, <1>1, <1>2
<1> HIDE DEF oldest
<1>4. /\ next \in Keys /\ next' = next + 1
      /\ stored' = [k \in Keys |-> IF k = next THEN s
                                   ELSE IF k \in oldest THEN "absent" ELSE stored[k]]
  BY Zenon DEF append, oldest
<1>5. Stored' = (Stored \ oldest) \cup {next}
  <2>1. next \notin Stored
    BY <1>0, <1>1
  <2>2. \A k \in Keys : stored'[k] # "absent" <=> k = next \/ (k \in Stored /\ k \notin oldest)
    BY <1>4, Zenon DEF Stored
  <2> QED BY <1>4, <2>1, <2>2, Zenon DEF Stored, oldest
<1>6. Stored' = (IF next + 1 > Capacity THEN next + 1 - Capacity ELSE 1)..next
  BY <1>0, <1>1, <1>3, <1>5
<1>7. RingInv'
  BY <1>0, <1>4, <1>6 DEF RingInv
<1>8. stored' \in [Keys -> {"absent", "hides", "shows"}]
  BY <1>4, Zenon DEF ListInv
<1>9. next' \in 1..MaxKey + 1
  BY <1>0, <1>4, PagesAssumption DEF Keys
<1> QED BY <1>7, <1>8, <1>9, Zenon DEF ListInv

\* The other changes of the lists.
LEMMA ChangeInv == ASSUME ListInv, Change PROVE ListInv' /\ UNCHANGED walk
<1>1. CASE \E s \in {"shows", "hides"} : append(s)
  BY <1>1, AppendInv, Zenon DEF append
<1>2. CASE NewBuffer
  <2>1. Stored' = {} /\ next' = 1
    BY <1>2, Zenon DEF NewBuffer, Stored
  <2>2. RingInv'
    BY <2>1, PagesAssumption DEF RingInv
  <2> QED BY <1>2, <2>1, <2>2, PagesAssumption DEF NewBuffer, ListInv
<1>3. CASE \E s \in {"shows", "hides"} : InsertAudit(s)
  <2>1. list \in Audits /\ list' = list /\ next \in Keys /\ next' = next + 1
        /\ UNCHANGED walk
    BY <1>3, Zenon DEF InsertAudit
  <2>2. stored' \in [Keys -> {"absent", "hides", "shows"}]
    BY <1>3, Zenon DEF InsertAudit, Keep, ListInv
  <2>3. next' \in 1..MaxKey + 1
    BY <2>1, PagesAssumption DEF Keys
  <2> QED BY <2>1, <2>2, <2>3, Zenon DEF Audits, ListInv, RingInv
<1>4. CASE DeleteDeliveries \/ \E K \in SUBSET Keys : insertDeliveries(K)
  BY <1>4, Zenon DEF DeleteDeliveries, insertDeliveries, ListInv, RingInv
<1>5. CASE \E k \in Keys : DeleteEvent(k) \/ SetStatus(k) \/ CreateBackfill(k)
  BY <1>5, Zenon DEF DeleteEvent, SetStatus, CreateBackfill, Keep, ListInv, RingInv
<1>6. CASE \E s \in {"shows", "hides"}, k \in Keys : insertEvent(k, s)
  BY <1>6, Zenon DEF insertEvent, Keep, ListInv, RingInv
<1> QED BY <1>1, <1>2, <1>3, <1>4, <1>5, <1>6, Zenon DEF Change

\* A page continues the walk: what it adds is in order and below what was seen,
\* the cursor stands at its end, and nothing between the two cursors is left out.
LEMMA PageInv ==
    ASSUME PagesInv, NEW limit \in PageSizes, Page(limit), Watch PROVE PagesInv'
<1> DEFINE B == Beyond(walk.before)
           N == Newest(B, limit)
           d == Descending(N)
           m == Cardinality(N)
           more == hasMore(walk.before, limit)
           final == LastOfPage(walk.before, limit)
           seen == walk.seen
<1>1. ListInv' /\ Shown' = Shown
  <2>1. UNCHANGED <<list, stored, next>>
    BY Zenon DEF Page
  <2> QED BY <2>1, Zenon DEF PagesInv, ListInv, RingInv, Stored, Shown
<1>2. limit \in Nat \ {0}
  BY PagesAssumption, Zenon
<1>3. B \in SUBSET Keys /\ N \in SUBSET B /\ N \in SUBSET Keys
  <2>1. B \in SUBSET Keys
    BY Zenon DEF Beyond, Shown
  <2> QED BY <2>1, Zenon DEF Newest
<1>4. /\ d \in Seq(N) /\ Len(d) = m /\ m \in Nat
      /\ \A i, j \in 1..m : i < j => d[i] > d[j]
      /\ \A k \in N : \E i \in 1..m : d[i] = k
  BY <1>3, DescendingProperties, KeySets, Zenon
<1>5. walk' = [at |-> IF more THEN "next" ELSE "done",
               before |-> IF more THEN final ELSE 0, seen |-> seen \o d]
  BY Zenon DEF Page
<1>6. /\ walk.at = "start" /\ seen = <<>> /\ walk.before = 0
      \/ /\ walk.at = "next" /\ walk.before \in Keys
         /\ \A i \in DOMAIN seen : seen[i] >= walk.before
         /\ \A k \in stable : k >= walk.before => Listed(k)
  BY Zenon DEF Page, PagesInv, WalkInv
<1>7. more => /\ final \in N /\ \A j \in N : final <= j
  BY <1>2, LastPage, CursorIsLeast, Zenon
<1>8. ~more => N = B
  BY <1>2, LastPage, Zenon
<1>9. \A k \in N, j \in B : j >= k => j \in N
  BY <1>2, <1>3, NewestProperties, Zenon
<1>10. \A k \in stable' :
         \/ k \in B /\ k \in Keys
         \/ walk.at = "next" /\ k \in Keys /\ k >= walk.before /\ Listed(k)
  <2>1. \A k \in stable' : k \in Shown /\ k \in Keys /\ (walk.at # "start" => k \in stable)
    BY <1>1, Zenon DEF Watch, Shown
  <2> QED BY <1>6, <2>1, KeyInt DEF Beyond
<1>11. \A k \in B : walk.at = "next" => k < walk.before
  BY <1>6, PagesAssumption DEF Beyond, Keys
<1> HIDE DEF B, N, d, m, more, final
<1>12. /\ seen \in Seq(Keys) /\ Len(seen) \in Nat /\ DOMAIN seen = 1..Len(seen)
       /\ d \in Seq(Keys) /\ \A i \in 1..m : d[i] \in N
       /\ \A i, j \in 1..Len(seen) : i < j => seen[i] > seen[j]
       /\ \A i \in 1..Len(seen) : seen[i] \in Keys
  BY <1>3, <1>4 DEF PagesInv, WalkInv
<1> DEFINE t == seen \o d
           n == Len(seen)
<1>13. /\ t \in Seq(Keys) /\ Len(t) = n + m /\ DOMAIN t = 1..n + m
       /\ \A i \in 1..n : t[i] = seen[i]
       /\ \A i \in n + 1..n + m : t[i] = d[i - n]
  <2>1. /\ t \in Seq(Keys) /\ Len(t) = n + m
        /\ \A i \in 1..n + m : t[i] = IF i <= n THEN seen[i] ELSE d[i - n]
    <3>1. seen \in Seq(Keys) /\ d \in Seq(Keys) /\ Len(d) = m
      BY <1>4, <1>12, Zenon
    <3> HIDE DEF seen
    <3>2. /\ t \in Seq(Keys) /\ Len(t) = Len(seen) + Len(d)
          /\ \A i \in 1..Len(seen) + Len(d) :
               t[i] = IF i <= Len(seen) THEN seen[i] ELSE d[i - Len(seen)]
      BY <3>1
    <3> QED BY <3>1, <3>2, Zenon
  <2>2. DOMAIN t = 1..n + m
    BY <2>1
  <2>3. n \in Nat /\ m \in Nat
    BY <1>4, <1>12, Zenon
  <2> HIDE DEF t, n
  <2> QED BY <2>1, <2>2, <2>3
<1> HIDE DEF t, n
<1>14. n \in Nat /\ n = Len(seen)
  BY <1>12, Zenon DEF n
<1>15. \A k : Listed(k) \/ k \in N => \E i \in DOMAIN t : t[i] = k
  <2>1. ASSUME NEW k, Listed(k) PROVE \E i \in DOMAIN t : t[i] = k
    BY <1>4, <1>12, <1>13, <1>14, <2>1 DEF Listed
  <2>2. ASSUME NEW k \in N PROVE \E i \in DOMAIN t : t[i] = k
    <3>1. PICK i \in 1..m : d[i] = k
      BY <1>4, Zenon
    <3>2. i + n \in n + 1..n + m /\ i + n \in DOMAIN t /\ (i + n) - n = i
      BY <1>4, <1>13, <1>14
    <3> QED BY <1>13, <3>1, <3>2, Zenon
  <2> QED BY <2>1, <2>2, Zenon
<1>16. \A i, j \in DOMAIN t : i < j => t[i] > t[j]
  <2> SUFFICES ASSUME NEW i \in 1..n + m, NEW j \in 1..n + m, i < j PROVE t[i] > t[j]
    BY <1>13, SMTT(20)
  <2>1. CASE j <= n
    BY <2>1, <1>4, <1>12, <1>13, <1>14
  <2>2. CASE i > n
    <3>1. i \in n + 1..n + m /\ j \in n + 1..n + m /\ i - n \in 1..m /\ j - n \in 1..m
          /\ i - n < j - n
      BY <2>2, <1>4, <1>14, SMTT(20)
    <3> QED BY <3>1, <1>4, <1>13, Zenon
  <2>3. CASE i <= n /\ j > n
    <3>1. i \in 1..n /\ j \in n + 1..n + m /\ j - n \in 1..m /\ i \in DOMAIN seen
      BY <2>3, <1>4, <1>12, <1>14
    <3>2. seen # <<>> /\ walk.at = "next" /\ t[i] = seen[i] /\ seen[i] >= walk.before
      BY <3>1, <1>6, <1>13, SMTT(20)
    <3>3. t[j] \in N /\ t[j] \in B /\ t[j] < walk.before
      BY <3>1, <3>2, <1>3, <1>11, <1>12, <1>13, SMTT(20) DEF N
    <3>4. t[i] \in Int /\ t[j] \in Int /\ walk.before \in Int
      BY <3>1, <3>2, <3>3, <1>3, <1>6, <1>12, KeyInt, Zenon DEF B
    <3> QED BY <3>2, <3>3, <3>4
  <2> QED BY <2>1, <2>2, <2>3, <1>4, <1>14
<1>17. walk'.seen = t
  BY <1>5, Zenon DEF t
<1>18. CASE more
  <2>1. walk' = [at |-> "next", before |-> final, seen |-> t]
    BY <1>5, <1>18, Zenon DEF t
  <2>2. final \in N /\ final \in B /\ final \in Keys /\ \A j \in N : final <= j
    BY <1>3, <1>7, <1>18, Zenon DEF N, B
  <2>3. \A i \in DOMAIN t : t[i] >= final
    <3> SUFFICES ASSUME NEW i \in 1..n + m PROVE t[i] >= final
      BY <1>13, Zenon
    <3>1. CASE i > n
      <4>1. i - n \in 1..m /\ t[i] = d[i - n]
        BY <3>1, <1>4, <1>13, <1>14
      <4>2. t[i] \in N
        BY <4>1, <1>12, Zenon
      <4> QED BY <4>2, <2>2, <1>3, KeyInt, Zenon DEF N
    <3>2. CASE i <= n
      <4>1. i \in 1..n /\ t[i] = seen[i] /\ i \in DOMAIN seen
        BY <3>2, <1>4, <1>12, <1>13, <1>14
      <4>2. walk.at = "next" /\ walk.before \in Keys /\ seen[i] >= walk.before
        BY <4>1, <1>6
      <4>3. final < walk.before /\ seen[i] \in Keys
        BY <4>1, <4>2, <2>2, <1>11, <1>12, <1>14, Zenon
      <4> QED BY <4>1, <4>2, <4>3, <2>2, KeyInt
    <3> QED BY <3>1, <3>2, <1>4, <1>14
  <2>4. \A k \in stable' : k >= final => \E i \in DOMAIN t : t[i] = k
    <3> SUFFICES ASSUME NEW k \in stable', k >= final PROVE Listed(k) \/ k \in N
      BY <1>15, SMTT(20)
    <3> QED BY <1>9, <1>10, <2>2, Zenon
  <2>5. WalkInv'
    BY <1>13, <1>16, <1>17, <2>1, <2>2, <2>3, <2>4 DEF WalkInv, Listed
  <2> QED BY <1>1, <2>5, WatchInv, Zenon DEF PagesInv
<1>19. CASE ~more
  <2>1. walk' = [at |-> "done", before |-> 0, seen |-> t]
    BY <1>5, <1>19, Zenon DEF t
  <2>2. \A k \in stable' : \E i \in DOMAIN t : t[i] = k
    BY <1>8, <1>10, <1>15, <1>19, SMTT(20)
  <2>3. WalkInv'
    BY <1>13, <1>16, <1>17, <2>1, <2>2 DEF WalkInv, Listed
  <2> QED BY <1>1, <2>3, WatchInv, Zenon DEF PagesInv
<1> QED BY <1>18, <1>19, Zenon

\* The invariant of the lists is inductive.
LEMMA PagesInvariance == PagesSpec => []PagesInv
<1>1. PagesInv /\ [PagesNext]_pagesVars => PagesInv'
  <2> SUFFICES ASSUME PagesInv, [PagesNext]_pagesVars PROVE PagesInv'
    BY Zenon
  <2>1. CASE UNCHANGED pagesVars
    BY <2>1, Zenon DEF pagesVars, PagesInv, ListInv, RingInv, Stored, Shown, WalkInv, Listed
  <2>2. CASE Change /\ Watch
    BY <2>2, ChangeInv, WalkStable, WatchInv, Zenon DEF PagesInv
  <2>3. CASE Leave /\ Watch
    <3>1. ListInv'
      BY <2>3, Zenon DEF Leave, PagesInv, ListInv, RingInv, Stored
    <3>2. WalkInv'
      <4>1. walk' = NoWalk
        BY <2>3, Zenon DEF Leave
      <4>2. /\ NoWalk \in [at : {"start", "next", "done"}, before : Keys \cup {0},
                         seen : Seq(Keys)]
            /\ NoWalk.at = "start" /\ NoWalk.before = 0 /\ NoWalk.seen = <<>>
            /\ DOMAIN NoWalk.seen = {}
        BY DEF NoWalk
      <4> QED BY <4>1, <4>2, Zenon DEF WalkInv
    <3> QED BY <2>3, <3>1, <3>2, WatchInv, Zenon DEF PagesInv
  <2>4. CASE (\E limit \in PageSizes : Request(limit)) /\ Watch
    <3>1. PICK limit \in PageSizes : Page(limit)
      BY <2>4, Zenon DEF Request, handleEventHistory, handleEventDeliveries, handleBackfills,
                  handleRPCListenerAudit, handleDeliveryRequeueAudit, handleBackfillAudit,
                  audit, handleOperationalEvents
    <3> QED BY <2>4, <3>1, PageInv, Zenon
  <2> QED BY <2>1, <2>2, <2>3, <2>4, SMTT(20) DEF PagesNext
<1> QED BY <1>1, InitPagesInv, PTL DEF PagesSpec

\* The invariant implies the types, and that the ring is filled to its capacity.
LEMMA PagesTypes == PagesInv => PagesTypeOK
<1> SUFFICES ASSUME PagesInv PROVE PagesTypeOK
  BY Zenon
<1>1. /\ stored \in [Keys -> {"absent", "hides", "shows"}] /\ next \in 1..MaxKey + 1
      /\ walk.at \in {"start", "next", "done"} /\ walk.before \in Keys \cup {0}
      /\ walk.seen \in Seq(Keys)
  BY Zenon DEF PagesInv, ListInv, WalkInv
<1>2. ASSUME list = "operational"
      PROVE  /\ Cardinality(Stored) <= Capacity
             /\ Stored = (next - Cardinality(Stored))..(next - 1)
             /\ next > Capacity => Cardinality(Stored) = Capacity
  <2> DEFINE low == IF next > Capacity THEN next - Capacity ELSE 1
  <2>1. /\ Stored = low..(next - 1) /\ next \in Nat /\ low \in Nat
        /\ low <= next /\ Capacity \in Nat \ {0}
    BY <1>1, <1>2, PagesAssumption DEF PagesInv, ListInv, RingInv
  <2>2. Cardinality(Stored) = next - low
    BY <2>1, FS_Interval
  <2> QED BY <2>1, <2>2
<1> QED BY <1>1, <1>2, Zenon DEF PagesTypeOK

\* A walk to the end lists every entry that was there throughout exactly once
\* (handleEventHistory, handleRPCListenerAudit, handleOperationalEvents).
THEOREM WalksAreComplete == PagesSpec => []ListedOnce
<1>1. PagesInv => ListedOnce
  <2> SUFFICES ASSUME PagesInv, walk.at = "done", NEW k \in stable
               PROVE  Cardinality({i \in DOMAIN walk.seen : walk.seen[i] = k}) = 1
    BY Zenon DEF ListedOnce
  <2>1. PICK i \in DOMAIN walk.seen : walk.seen[i] = k
    BY Zenon DEF PagesInv, WalkInv, Listed
  <2>2. \A j \in DOMAIN walk.seen : walk.seen[j] = k => j = i
    <3> SUFFICES ASSUME NEW j \in DOMAIN walk.seen, walk.seen[j] = k, j # i PROVE FALSE
      BY Zenon
    <3>1. walk.seen \in Seq(Keys)
      BY Zenon DEF PagesInv, WalkInv
    <3>2. i \in Int /\ j \in Int /\ k \in Int
      BY <2>1, <3>1, KeyInt
    <3>3. \A x, y \in DOMAIN walk.seen : x < y => walk.seen[x] > walk.seen[y]
      BY Zenon DEF PagesInv, WalkInv
    <3> QED BY <2>1, <3>2, <3>3
  <2>3. {j \in DOMAIN walk.seen : walk.seen[j] = k} = {i}
    BY <2>1, <2>2, Zenon
  <2> QED BY <2>3, FS_Singleton, Zenon
<1> QED BY <1>1, PagesInvariance, PTL

----------------------------------------------------------------------------
(* The three together. *)

\* What happens to the database is a behaviour of its files, one of the
\* retention of its events and one of its lists: no part disturbs another.
THEOREM DatabaseImplementsParts ==
    DatabaseSpec => StorageSpec /\ RetentionSpec /\ PagesSpec
<1>1. DatabaseInit => StorageInit /\ RetentionInit /\ PagesInit
  BY Zenon DEF DatabaseInit
<1>2. [DatabaseNext]_databaseVars =>
        [StorageNext]_storageVars /\ [RetentionNext]_retentionVars /\ [PagesNext]_pagesVars
  BY Zenon DEF DatabaseNext, databaseVars
<1> QED BY <1>1, <1>2, PTL DEF DatabaseSpec, StorageSpec, RetentionSpec, PagesSpec

\* The types of the three parts, with what they say beyond types (Restore, Prune,
\* operationalEventBuffer.append).
THEOREM DatabaseTypes == DatabaseSpec => []DatabaseTypeOK
<1>1. StorageInv /\ RetentionInv /\ PagesInv => DatabaseTypeOK
  BY RetentionTypes, PagesTypes, Zenon DEF StorageInv, DatabaseTypeOK
<1> QED BY <1>1, DatabaseImplementsParts, StorageInvariance, RetentionInvariance,
           PagesInvariance, PTL

\* The properties of the parts hold of the database in operation.
THEOREM DatabaseCorrect ==
    DatabaseSpec => [](/\ BackupIsSnapshot /\ RestoredIsBackup /\ NothingLost
                       /\ OnePrune /\ SettingsAgree /\ ListedOnce)
<1> QED BY DatabaseImplementsParts, BackupsAreSnapshots, RestoresAreBackups, CommitsAreKept,
           PrunesAlone, SettingsAreStored, WalksAreComplete, PTL

=============================================================================
