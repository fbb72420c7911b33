----------------------------- MODULE Retention -----------------------------
(***************************************************************************)
(* Retention of delivered events: the settings, which a running service    *)
(* keeps in memory beside their row in the database, the worker that       *)
(* prunes by them, and the prunes of administrators and of the CLI.        *)
(*                                                                         *)
(* The worker and the API share one retention.Service, whose flag admits   *)
(* one prune at a time; a CLI command has a service of its own.  A prune   *)
(* deletes in batches, each a transaction.  An event is old when its last  *)
(* delivery was recorded before the age that the settings ask for; manual  *)
(* prunes ask for ages of their own.                                       *)
(***************************************************************************)
EXTENDS Integers, FiniteSets

CONSTANTS Events,        \* events with deliveries
          Requests,      \* configuration requests that can overlap
          Settings,      \* batch sizes of enabled settings
          Off,           \* automatic retention is disabled
          FileSettings,  \* the settings of the configuration file
          NoRow,         \* the settings were never stored
          Maximums       \* limits of manual prunes; 0 is none

ASSUME RetentionAssumption ==
    /\ IsFiniteSet(Events)
    /\ Off \notin Settings /\ NoRow \notin Settings \cup {Off}
    /\ Settings \subseteq Nat \ {0} /\ Maximums \subseteq Nat
    /\ FileSettings \in Settings \cup {Off}

VARIABLES
    status,    \* status[e]: "pending", "delivered", "old" or "gone"
    up,        \* the service runs
    dynamic,   \* dynamicRetentionSettings: the settings in memory
    table,     \* the row of retention_settings, or NoRow
    running,   \* Service.running
    prunes,    \* prunes[c]: the prune of caller c, and where it is
    saves,     \* saves[r]: the settings request r has yet to store
    apart      \* history: the last request of the service overlapped another or
               \* failed to store its settings, or the CLI stored some since

retentionVars == <<status, up, dynamic, table, running, prunes, saves, apart>>

Callers == {"worker", "api", "cli"}
NoPrune == [at |-> "idle", cutoff |-> {}, batch |-> 1, maximum |-> 0, deleted |-> 0]
NewPrune(cutoff, batch, maximum) ==
    [at |-> "batch", cutoff |-> cutoff, batch |-> batch, maximum |-> maximum, deleted |-> 0]

RetentionInit ==
    /\ status = [e \in Events |-> "pending"]
    /\ up = FALSE /\ dynamic = Off /\ table = NoRow
    /\ running = FALSE
    /\ prunes = [c \in Callers |-> NoPrune]
    /\ saves = [r \in Requests |-> NoRow]
    /\ apart = FALSE

----------------------------------------------------------------------------
(* Events. *)

Deliver(e) ==
    /\ status[e] = "pending"
    /\ status' = [status EXCEPT ![e] = "delivered"]
    /\ UNCHANGED <<up, dynamic, table, running, prunes, saves, apart>>

Age(e) ==
    /\ status[e] = "delivered"
    /\ status' = [status EXCEPT ![e] = "old"]
    /\ UNCHANGED <<up, dynamic, table, running, prunes, saves, apart>>

Old == {e \in Events : status[e] = "old"}
Delivered == {e \in Events : status[e] \in {"delivered", "old"}}

----------------------------------------------------------------------------
(* The service and its settings. *)

\* Mutant: the stored settings are not read.
BootFromFile ==
    /\ ~up
    /\ up' = TRUE /\ apart' = FALSE
    /\ dynamic' = FileSettings
    /\ UNCHANGED <<status, table, running, prunes, saves>>

\* newEngineOperations: the row wins over the configuration file, unless it
\* cannot be read.
Boot ==
    /\ ~up
    /\ up' = TRUE
    /\ \/ dynamic' = (IF table = NoRow THEN FileSettings ELSE table) /\ apart' = FALSE
       \/ dynamic' = FileSettings /\ apart' = TRUE
    /\ UNCHANGED <<status, table, running, prunes, saves>>

\* The service ends or crashes; its flag and its requests end with it.
Halt ==
    /\ up
    /\ up' = FALSE /\ running' = FALSE
    /\ prunes' = [c \in Callers |-> IF c = "cli" THEN prunes[c] ELSE NoPrune]
    /\ saves' = [r \in Requests |-> NoRow]
    /\ UNCHANGED <<status, dynamic, table, apart>>

\* handleRetention, /config: first memory,
SetDynamic(r, s) ==
    /\ up /\ saves[r] = NoRow
    /\ dynamic' = s
    /\ saves' = [saves EXCEPT ![r] = s]
    /\ apart' = \E q \in Requests : saves[q] # NoRow
    /\ UNCHANGED <<status, up, table, running, prunes>>

\* then the row; when that fails the client is told so, and memory keeps s.
SaveRetentionSettings(r) ==
    /\ saves[r] # NoRow
    /\ \/ table' = saves[r] /\ UNCHANGED apart
       \/ apart' = TRUE /\ UNCHANGED table
    /\ saves' = [saves EXCEPT ![r] = NoRow]
    /\ UNCHANGED <<status, up, dynamic, running, prunes>>

\* runRetentionConfig: a running service does not notice.
ConfigCLI(s) ==
    /\ table' = s
    /\ apart' = TRUE
    /\ UNCHANGED <<status, up, dynamic, running, prunes, saves>>

----------------------------------------------------------------------------
(* Prunes. *)

Become(c, p) == prunes' = [prunes EXCEPT ![c] = p]


\* runDynamicRetentionWorker: one round.  ErrRunning is left for the next one.
Work ==
    /\ up /\ prunes["worker"].at = "idle"
    /\ IF dynamic = Off \/ running
       THEN Become("worker", [NoPrune EXCEPT !.at = "sleep"]) /\ UNCHANGED running
       ELSE Become("worker", NewPrune(Old, dynamic, 0)) /\ running' = TRUE
    /\ UNCHANGED <<status, up, dynamic, table, saves, apart>>

\* The poll interval, at most a minute.
Wake ==
    /\ up /\ prunes["worker"].at = "sleep"
    /\ Become("worker", NoPrune)
    /\ UNCHANGED <<status, up, dynamic, table, running, saves, apart>>

\* Mutant: the flag is set and not looked at.
PruneAPIUnchecked(cutoff, batch, maximum) ==
    /\ up /\ prunes["api"].at = "idle"
    /\ Become("api", NewPrune(cutoff, batch, maximum)) /\ running' = TRUE
    /\ UNCHANGED <<status, up, dynamic, table, saves, apart>>

\* handleRetention, /prune; while a prune is running it answers 409.
PruneAPI(cutoff, batch, maximum) ==
    /\ up /\ prunes["api"].at = "idle" /\ ~running
    /\ Become("api", NewPrune(cutoff, batch, maximum)) /\ running' = TRUE
    /\ UNCHANGED <<status, up, dynamic, table, saves, apart>>

\* runRetention.
PruneCLI(cutoff, batch, maximum) ==
    /\ prunes["cli"].at = "idle"
    /\ Become("cli", NewPrune(cutoff, batch, maximum))
    /\ UNCHANGED <<status, up, dynamic, table, running, saves, apart>>

\* The deferred end of Prune.
EndPrune(c) ==
    /\ Become(c, IF c = "worker" THEN [NoPrune EXCEPT !.at = "sleep"] ELSE NoPrune)
    /\ running' = IF c = "cli" THEN running ELSE FALSE

Eligible(c) == prunes[c].cutoff \cap Delivered

Limit(p) ==
    IF p.maximum > 0 /\ p.batch > p.maximum - p.deleted
    THEN p.maximum - p.deleted ELSE p.batch

\* The loop ends after an incomplete batch, or at the maximum.
Finished(p, count) ==
    count < Limit(p) \/ (p.maximum > 0 /\ p.deleted + count >= p.maximum)

\* PruneDeliveredBefore with the limit; which events go first is left open.
Batch(c) ==
    /\ prunes[c].at = "batch"
    /\ \E E \in SUBSET Eligible(c) :
         LET p == prunes[c]
             count == Cardinality(E)
         IN  /\ count = Limit(p) \/ (E = Eligible(c) /\ count < Limit(p))
             /\ status' = [e \in Events |-> IF e \in E THEN "gone" ELSE status[e]]
             /\ IF Finished(p, count)
                THEN EndPrune(c)
                ELSE Become(c, [p EXCEPT !.deleted = @ + count]) /\ UNCHANGED running
    /\ UNCHANGED <<up, dynamic, table, saves, apart>>

\* A statement fails, or the caller goes away during the pause between batches.
Fail(c) ==
    /\ prunes[c].at = "batch"
    /\ EndPrune(c)
    /\ UNCHANGED <<status, up, dynamic, table, saves, apart>>

----------------------------------------------------------------------------
Feed == \E e \in Events : Deliver(e) \/ Age(e)
Configure ==
    \E s \in Settings \cup {Off} : ConfigCLI(s) \/ \E r \in Requests : SetDynamic(r, s)
\* A longer age than the settings' leaves out old events, a shorter one adds
\* others.
Manual ==
    \E cutoff \in {E \in SUBSET Delivered : E \subseteq Old \/ Old \subseteq E},
       b \in Settings, n \in Maximums :
      PruneAPI(cutoff, b, n) \/ PruneCLI(cutoff, b, n)

RetentionNext ==
    \/ Feed \/ Configure \/ Manual
    \/ \E r \in Requests : SaveRetentionSettings(r)
    \/ Boot \/ Halt \/ Work \/ Wake
    \/ \E c \in Callers : Batch(c) \/ Fail(c)

RetentionSpec == RetentionInit /\ [][RetentionNext]_retentionVars

\* The worker's goroutine runs, its timer fires, and statements end.
RetentionFairness ==
    /\ WF_retentionVars(Work) /\ WF_retentionVars(Wake)
    /\ \A c \in Callers : WF_retentionVars(Batch(c))
----------------------------------------------------------------------------
(* Properties. *)

\* A prune in progress has deleted fewer events than its maximum, and never asks
\* the store for a batch of none, which it refuses (PruneDeliveredBefore).
RetentionTypeOK ==
    /\ status \in [Events -> {"pending", "delivered", "old", "gone"}]
    /\ up \in BOOLEAN /\ running \in BOOLEAN
    /\ dynamic \in Settings \cup {Off} /\ table \in Settings \cup {Off, NoRow}
    /\ saves \in [Requests -> Settings \cup {Off, NoRow}]
    /\ \A c \in Callers :
         /\ prunes[c].at \in {"idle", "batch", "sleep"} /\ prunes[c].cutoff \subseteq Events
         /\ prunes[c].at = "batch" => Limit(prunes[c]) \in Nat \ {0}

\* The service prunes once at a time, and its flag is set exactly while it
\* does: no error, cancelled request or restart leaves it set (Service.Prune).
OnePrune ==
    LET busy == {c \in {"worker", "api"} : prunes[c].at = "batch"}
    IN  Cardinality(busy) = (IF running THEN 1 ELSE 0)

\* After a start, and after a configuration request that overlapped no other and
\* stored its settings, the service works by the settings in the database until
\* the CLI changes them (handleRetention, newEngineOperations).
SettingsAgree ==
    up /\ ~apart /\ (\A r \in Requests : saves[r] = NoRow) =>
      dynamic = IF table = NoRow THEN FileSettings ELSE table

\* Once automatic retention stays on, prunes stop failing and administrators
\* stop pruning by hand, every delivered event that is old enough is deleted,
\* however many prunes the worker had to leave out (runDynamicRetentionWorker).
Undisturbed ==
    /\ <>[](up /\ dynamic # Off /\ prunes["api"].at = "idle")
    /\ <>[][~\E c \in Callers : Fail(c)]_retentionVars
=============================================================================
