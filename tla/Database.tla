------------------------------ MODULE Database ------------------------------
(***************************************************************************)
(* The database in operation: its files (Storage), the retention of its    *)
(* events (Retention) and its lists (Pages).  The three share no state, so *)
(* a behaviour is one of the files, of the events or of the lists, which   *)
(* covers every behaviour of each without their product.                   *)
(***************************************************************************)
EXTENDS Storage, Retention, Pages

VARIABLE part  \* the component that moves

databaseVars == <<storageVars, retentionVars, pagesVars, part>>

DatabaseInit ==
    /\ StorageInit /\ RetentionInit /\ PagesInit
    /\ part \in {"files", "events", "lists"}
    /\ part # "lists" => list = "events"  \* the choice is idle

DatabaseNext ==
    /\ \/ part = "files" /\ StorageNext /\ UNCHANGED <<retentionVars, pagesVars>>
       \/ part = "events" /\ RetentionNext /\ UNCHANGED <<storageVars, pagesVars>>
       \/ part = "lists" /\ PagesNext /\ UNCHANGED <<storageVars, retentionVars>>
    /\ UNCHANGED part

DatabaseSpec == DatabaseInit /\ [][DatabaseNext]_databaseVars

FairDatabaseSpec == DatabaseSpec /\ RetentionFairness

\* The types of the three parts, with what they say beyond types: staged copies
\* are whole, a prune never asks for an empty batch, and the ring of events keeps
\* the newest ones (Restore, Prune, operationalEventBuffer.append).
DatabaseTypeOK == StorageTypeOK /\ RetentionTypeOK /\ PagesTypeOK
=============================================================================
