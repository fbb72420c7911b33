------------------------------ MODULE Storage ------------------------------
(***************************************************************************)
(* The files of the SQLite database: the service that writes it, and the   *)
(* commands `database backup` and `database restore` (sqlite.Backup,       *)
(* sqlite.Restore).                                                        *)
(*                                                                         *)
(* A file holds a set of commits.  The service uses SQLite's rollback      *)
(* journal, the default that nothing in the program changes: a transaction *)
(* saves the old pages in the journal, writes the database file, and       *)
(* commits by deleting the journal; a journal that is left behind is       *)
(* played back when the database is opened next.  Every system call and    *)
(* every statement of a command is an action, and a command can be killed  *)
(* between any two.                                                        *)
(***************************************************************************)
EXTENDS Integers, FiniteSets

CONSTANTS Operators,   \* command lines that can run at the same time
          BackupFiles, \* paths of backups
          None,        \* no file
          Torn,        \* a file with pages of two states
          MaxCommits   \* bound: transactions of the service

\* Commit 0 is the schema; a file of zero bytes holds nothing.
Commits == 0..MaxCommits
Contents == SUBSET Commits

ASSUME StorageAssumption ==
    /\ MaxCommits \in Nat
    /\ None # Torn /\ None \notin BackupFiles
    /\ \A c \in Contents : c \notin {None, Torn} \cup Operators
    /\ {None, Torn} \cap Operators = {}

VARIABLES
    main,      \* the database file
    journal,   \* its rollback journal: the contents it restores
    rollback,  \* the file .restore-rollback
    backups,   \* backups[f]: the backup file, or the operator who is writing it
    service,   \* "down", "up", or "writing" inside a transaction
    commands,  \* commands[o]: the command o runs, and where it is
    last,      \* history: the last commit
    committed, \* history: the commits the database owes, those of the backup
               \* after a restore
    hot,       \* history: a restore began beside a hot journal
    clashed    \* history: backups that another one to the same path overlapped

files == <<main, journal, rollback, backups>>
history == <<last, committed, hot>>
storageVars == <<files, service, commands, history, clashed>>

NoCommand == [at |-> "idle", file |-> None, stage |-> None, before |-> {}, found |-> FALSE]

StorageInit ==
    /\ main = None /\ journal = None /\ rollback = None
    /\ backups = [f \in BackupFiles |-> None]
    /\ service = "down"
    /\ commands = [o \in Operators |-> NoCommand]
    /\ last = 0 /\ committed = {} /\ hot = FALSE /\ clashed = {}

----------------------------------------------------------------------------
(* SQLite. *)

\* What an open finds: an empty file drops the journal, a torn one is rolled
\* back, and a journal beside another file ruins it.
Opened ==
    IF main \in {None, {}} THEN {}
    ELSE IF journal = None THEN main
    ELSE IF main = Torn THEN journal
    ELSE Torn

Recover == main' = Opened /\ journal' = None

----------------------------------------------------------------------------
(* The service. *)

Restoring(o) == commands[o].at \in {"stage", "preserve", "install", "removeRollback",
                                    "undo", "restored", "failed"}

\* Open creates the database when there is none.  No service is started while a
\* restore runs (-confirm-service-stopped).
Start ==
    /\ service = "down" /\ Opened # Torn
    /\ \A o \in Operators : ~Restoring(o)
    /\ main' = Opened \cup {0} /\ journal' = None
    /\ service' = "up"
    /\ UNCHANGED <<rollback, backups, commands, history>>

Write ==
    /\ service = "up" /\ last < MaxCommits
    /\ journal' = main /\ main' = Torn
    /\ service' = "writing"
    /\ UNCHANGED <<rollback, backups, commands, history>>

Commit ==
    /\ service = "writing"
    /\ main' = journal \cup {last + 1} /\ journal' = None
    /\ last' = last + 1 /\ committed' = committed \cup {last + 1}
    /\ service' = "up"
    /\ UNCHANGED <<rollback, backups, commands, hot>>

\* The service ends, or is killed inside a transaction.
Stop ==
    /\ service # "down"
    /\ service' = "down"
    /\ UNCHANGED <<files, commands, history>>

----------------------------------------------------------------------------
(* Commands. *)

Idle(o) == commands[o].at = "idle"
Step(o, c) == commands' = [commands EXCEPT ![o] = c]
Continue(o, at) == Step(o, [commands[o] EXCEPT !.at = at])
Exit(o) == Step(o, NoCommand)

File(o) == commands[o].file
Put(o, contents) == backups' = [backups EXCEPT ![File(o)] = contents]

\* verifyBackup on path f: SQLite creates a file that is missing, and
\* quick_check finds nothing wrong with an empty one.
Verified(f) == backups[f] \notin {Torn} \cup Operators
Created(f) == IF backups[f] = None THEN {} ELSE backups[f]

\* Backup: the source has to exist, the destination must not.
Backup(o, f) ==
    /\ Idle(o) /\ \A p \in Operators : ~Restoring(p)
    /\ main # None /\ backups[f] = None
    /\ Step(o, [NoCommand EXCEPT !.at = "vacuum", !.file = f,
                                 !.before = IF main = Torn THEN journal ELSE main])
    /\ UNCHANGED <<files, service, history>>

\* VACUUM INTO begins: it reads one committed state, and does not write over a
\* file that has contents or that another connection writes.
Vacuum(o) ==
    /\ commands[o].at = "vacuum" /\ backups[File(o)] \in {None, {}}
    /\ service # "writing" /\ Opened # Torn
    /\ Recover
    /\ Put(o, o)
    /\ Step(o, [commands[o] EXCEPT !.at = "write", !.stage = Opened])
    /\ UNCHANGED <<rollback, service, history>>

\* Mutant: the error of VACUUM INTO is lost.
VacuumFailsUnnoticed(o) ==
    /\ commands[o].at \in {"vacuum", "write"}
    /\ Continue(o, "verify")
    /\ UNCHANGED <<files, service, history>>

\* The destination exists by now, the database is busy, or the disk is full.
VacuumFails(o) ==
    /\ commands[o].at \in {"vacuum", "write"}
    /\ Continue(o, "cleanup")
    /\ UNCHANGED <<files, service, history>>

\* The file is complete, unless it was removed meanwhile: then nobody sees it.
VacuumEnds(o) ==
    /\ commands[o].at = "write"
    /\ IF backups[File(o)] = o THEN Put(o, commands[o].stage)
       ELSE UNCHANGED backups
    /\ Continue(o, "verify")
    /\ UNCHANGED <<main, journal, rollback, service, history>>

Verify(o) ==
    /\ commands[o].at = "verify"
    /\ \/ /\ Verified(File(o))
          /\ Put(o, Created(File(o))) /\ Continue(o, "created")
       \/ UNCHANGED backups /\ Continue(o, "cleanup")
    /\ UNCHANGED <<main, journal, rollback, service, history>>

\* The deferred Remove.
Cleanup(o) ==
    /\ commands[o].at = "cleanup"
    /\ Put(o, None) /\ Exit(o)
    /\ UNCHANGED <<main, journal, rollback, service, history>>

\* Restore: the backup is verified first.  The caller has stopped everything
\* that uses the database.
Restore(o, f) ==
    /\ service = "down" /\ \A p \in Operators : Idle(p)
    /\ Verified(f)
    /\ backups' = [backups EXCEPT ![f] = Created(f)]
    /\ Step(o, [NoCommand EXCEPT !.at = "stage", !.file = f])
    /\ hot' = (hot \/ journal # None)
    /\ UNCHANGED <<main, journal, rollback, service, last, committed>>

\* The copy in the directory of the database, synced and verified.
Stage(o) ==
    /\ commands[o].at = "stage"
    /\ \/ Step(o, [commands[o] EXCEPT !.at = "preserve", !.stage = backups[File(o)]])
       \/ Continue(o, "failed")
    /\ UNCHANGED <<files, service, history>>

\* Mutant: a rollback file that is there already is overwritten.
PreserveOver(o) ==
    /\ commands[o].at = "preserve"
    /\ \/ /\ rollback = None \/ main # None
          /\ rollback' = main /\ main' = None
          /\ Step(o, [commands[o] EXCEPT !.at = "install", !.found = main # None])
       \/ Continue(o, "failed") /\ UNCHANGED <<main, rollback>>
    /\ UNCHANGED <<journal, backups, service, history>>

\* The database becomes the rollback file.  Its files -wal and -shm, which the
\* service does not write, are removed; the journal is not.
Preserve(o) ==
    /\ commands[o].at = "preserve"
    /\ \/ /\ rollback = None
          /\ rollback' = main /\ main' = None
          /\ Step(o, [commands[o] EXCEPT !.at = "install", !.found = main # None])
       \/ Continue(o, "failed") /\ UNCHANGED <<main, rollback>>
    /\ UNCHANGED <<journal, backups, service, history>>

Install(o) ==
    /\ commands[o].at = "install"
    /\ \/ /\ main' = commands[o].stage
          /\ Continue(o, IF commands[o].found THEN "removeRollback" ELSE "restored")
          /\ committed' = IF commands[o].found THEN committed ELSE commands[o].stage
       \/ Continue(o, "undo") /\ UNCHANGED <<main, committed>>
    /\ UNCHANGED <<journal, rollback, backups, service, last, hot>>

\* Mutant: the error of the removal is ignored.
RemoveRollbackAnyway(o) ==
    /\ commands[o].at = "removeRollback"
    /\ rollback' \in {None, rollback}
    /\ Continue(o, "restored")
    /\ committed' = commands[o].stage
    /\ UNCHANGED <<main, journal, backups, service, last, hot>>

RemoveRollback(o) ==
    /\ commands[o].at = "removeRollback"
    /\ \/ /\ rollback' = None
          /\ Continue(o, "restored")
          /\ committed' = commands[o].stage
       \/ Continue(o, "undo") /\ UNCHANGED <<rollback, committed>>
    /\ UNCHANGED <<main, journal, backups, service, last, hot>>

\* The deferred rename, whose error is ignored.
Undo(o) ==
    /\ commands[o].at = "undo"
    /\ \/ commands[o].found /\ main' = rollback /\ rollback' = None
       \/ UNCHANGED <<main, rollback>>
    /\ Continue(o, "failed")
    /\ UNCHANGED <<journal, backups, service, history>>

\* The command ends by itself, or is killed.  A file it was writing stays as it
\* is, possibly still empty.
End(o) ==
    /\ ~Idle(o)
    /\ Exit(o)
    /\ IF File(o) # None /\ backups[File(o)] = o
       THEN \E c \in {Torn, {}} : Put(o, c)
       ELSE UNCHANGED backups
    /\ UNCHANGED <<main, journal, rollback, service, history>>

----------------------------------------------------------------------------
BackUp(o) ==
    \/ \E f \in BackupFiles : Backup(o, f)
    \/ Vacuum(o) \/ VacuumFails(o) \/ VacuumEnds(o) \/ Verify(o) \/ Cleanup(o)

BringBack(o) ==
    \/ \E f \in BackupFiles : Restore(o, f)
    \/ Stage(o) \/ Preserve(o) \/ Install(o) \/ RemoveRollback(o) \/ Undo(o)

Serve == Start \/ Write \/ Commit \/ Stop

\* A command shares its path with another one, or did.
Observe ==
    clashed' = {o \in Operators :
                  /\ commands'[o].at # "idle"
                  /\ \/ o \in clashed
                     \/ \E p \in Operators \ {o} : commands'[p].file = commands'[o].file}

StorageNext ==
    /\ Serve \/ \E o \in Operators : BackUp(o) \/ BringBack(o) \/ End(o)
    /\ Observe

StorageSpec == StorageInit /\ [][StorageNext]_storageVars
----------------------------------------------------------------------------
(* Properties. *)

Files == {None, Torn} \cup Contents
Commands ==
    [at : {"idle", "vacuum", "write", "verify", "cleanup", "created", "stage",
           "preserve", "install", "removeRollback", "undo", "restored", "failed"},
     file : BackupFiles \cup {None}, stage : Files, before : Contents, found : BOOLEAN]

\* A rollback journal and a staged copy are never torn: SQLite writes the first
\* before it touches the file, Restore verifies the second before it is used.
StorageTypeOK ==
    /\ main \in Files /\ journal \in Files /\ rollback \in Files
    /\ backups \in [BackupFiles -> Operators \cup Files]
    /\ service \in {"down", "up", "writing"}
    /\ commands \in [Operators -> Commands]
    /\ last \in Commits /\ committed \in Contents /\ hot \in BOOLEAN
    /\ clashed \subseteq Operators
    /\ journal # Torn /\ \A o \in Operators : commands[o].stage # Torn

\* A backup that is reported as created holds one committed state of the
\* database, no older than the command, whatever the service wrote meanwhile
\* and however it was stopped, unless a second backup to the same path was
\* under way (Backup).
BackupIsSnapshot ==
    \A o \in Operators : commands[o].at = "created" /\ o \notin clashed =>
      /\ backups[File(o)] \notin {None, Torn} \cup Operators
      /\ commands[o].before \subseteq backups[File(o)]
      /\ backups[File(o)] \subseteq (IF main = Torn THEN journal ELSE main)

\* A restore that reports success has installed the verified copy and left
\* nothing beside it that could change it or block the next restore, unless it
\* began beside the journal of a service killed inside a transaction (Restore).
RestoredIsBackup ==
    \A o \in Operators : commands[o].at = "restored" /\ ~hot =>
      Opened = commands[o].stage /\ rollback = None

\* Until a restore reports success every commit is in the database or in the
\* rollback file: restores that fail or are killed at any step, services that
\* start on what is left, and further restores lose none (Restore).  The exception
\* is a restore beside the hot journal of a killed service (hot): Restore leaves the
\* journal where it is, the next start plays it back over another file, and commits
\* can be lost.
NothingLost ==
    ~hot => \A c \in committed \ {0} :
      \/ Opened # Torn /\ c \in Opened
      \/ rollback \notin {None, Torn} /\ c \in rollback
=============================================================================
