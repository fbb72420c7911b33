------------------------------ MODULE Runtime ------------------------------
(***************************************************************************)
(* The runtime manager: the single goroutine that starts, replaces and     *)
(* stops one scanner goroutine per RPC listener so that they follow the    *)
(* configuration in the database, and the status it publishes.             *)
(*                                                                         *)
(* A configuration stands for everything runtimeConfigHash covers, so two  *)
(* configurations are equal exactly when their hashes are.  `pc' is the    *)
(* place of the manager in Run and reconcile; the read of the database, a  *)
(* build and the wait for a goroutine are steps of their own, because      *)
(* administrators, scanners and the shutdown go on meanwhile.              *)
(***************************************************************************)
EXTENDS Integers

CONSTANTS
    Listeners,      \* listener ids; a reconcile visits them in ascending order
    Configs,        \* hashed configurations
    ChainOf,        \* the chain id of a configuration
    Idle,           \* the configurations without event subscriptions
    Instances,      \* identities of scanner goroutines
    MaxRevision,    \* bound on the configuration changes
    None

ASSUME RuntimeAssumption ==
    /\ Listeners \subseteq Nat
    /\ DOMAIN ChainOf = Configs /\ Idle \subseteq Configs
    /\ MaxRevision \in Nat

VARIABLES
    desired,        \* the listener rows of the database
    revision,       \* rpc_listener_state.revision
    notified,       \* a token waits in the changes channel (capacity 1)
    cancelled,      \* the context of the service has ended
    pc,             \* the place of the manager
    snapshot,       \* the rows and the revision this reconcile has loaded
    todo,           \* the ids this reconcile has still to visit
    stopping,       \* the listener whose scanner `stop' waits for
    candidate,      \* the configuration of a built scanner that is not started
    active,         \* m.active: the goroutine of a listener
    failed,         \* m.failed: the last failed build of a listener
    scanners,       \* the scanner goroutines and their RPC clients
    status          \* the published status

store == <<desired, revision, notified>>
vars == <<store, cancelled, pc, snapshot, todo, stopping, candidate, active, failed,
          scanners, status>>

Rows == [config : Configs, paused : BOOLEAN]
Tables == [Listeners -> Rows \cup {None}]
\* `attempts' is 1 or "more than 1", all that the status tells apart.
Failures == [config : Configs, attempts : {1, 2}, due : BOOLEAN]
\* `run' is the state of the goroutine, `open' tells that its client is not closed.
Scanners == [id : Listeners, config : Configs, run : {"running", "cancelled", "exited"},
             open : BOOLEAN]
States == {"paused", "running", "idle", "build-failed", "retrying"}
Statuses == [complete : BOOLEAN, ready : BOOLEAN, revision : 0..MaxRevision,
             states : [Listeners -> States \cup {None}]]

\* `None' is none of the values it stands in for.
ASSUME NoneAssumption ==
    /\ None \notin Configs /\ None \notin Listeners /\ None \notin Instances
    /\ None \notin States
    /\ None \notin Rows /\ None \notin Failures /\ None \notin Scanners

Empty == [l \in Listeners |-> None]

\* The places of the manager; "await x" is the wait of `stop', called at x.
Awaits == {"await delete", "await visit", "await replace", "await shutdown"}
Places == {"load", "delete", "visit", "replace", "start", "select", "shutdown", "done"}
              \cup Awaits

\* What the manager keeps between two steps of Run and reconcile.
TypeOK ==
    /\ desired \in Tables /\ revision \in 0..MaxRevision
    /\ notified \in BOOLEAN /\ cancelled \in BOOLEAN
    /\ pc \in Places
    /\ snapshot \in [revision : 0..MaxRevision, rows : Tables]
    /\ todo \subseteq Listeners /\ stopping \in Listeners \cup {None}
    /\ candidate \in Configs \cup {None}
    /\ active \in [Listeners -> Instances \cup {None}]
    /\ failed \in [Listeners -> Failures \cup {None}]
    /\ scanners \in [Instances -> Scanners \cup {None}]
    /\ status \in Statuses

\* validateRPCListenerSnapshot, rpc_listeners.chain_id: one listener per chain.
Valid(rows) ==
    \A k, l \in Listeners :
        (k # l /\ rows[k] # None /\ rows[l] # None)
            => ChainOf[rows[k].config] # ChainOf[rows[l].config]

\* The process starts, for the first time or again: the database holds what it
\* holds, and revisions are counted from here.
Init ==
    /\ desired \in Tables /\ Valid(desired) /\ revision = 0 /\ notified = FALSE /\ cancelled = FALSE
    /\ pc = "load" /\ snapshot = [revision |-> 0, rows |-> Empty]
    /\ todo = {} /\ stopping = None /\ candidate = None
    /\ active = Empty /\ failed = Empty
    /\ scanners = [i \in Instances |-> None]
    /\ status = [complete |-> FALSE, ready |-> FALSE, revision |-> 0, states |-> Empty]

-----------------------------------------------------------------------------
\* The administrators

\* One management request: a listener is created, patched, paused, resumed or
\* deleted, or several change at once by an import or through the global webhooks.
\* A change may leave the hashed part as it is.  The transaction compares and
\* advances the revision, and the notification is sent unless one is waiting; a
\* reconcile between the two is a poll.
Mutate(rows) ==
    /\ revision < MaxRevision
    /\ Valid(rows)
    /\ desired' = rows
    /\ revision' = revision + 1
    /\ notified' = TRUE
    /\ UNCHANGED <<cancelled, pc, snapshot, todo, stopping, candidate, active, failed,
                   scanners, status>>

-----------------------------------------------------------------------------
\* The scanner goroutines

\* Scanner.Run returns once its context has ended, and only then.
Exit(i) ==
    /\ scanners[i] # None
    /\ \/ scanners[i].run = "cancelled"
       \/ scanners[i].run = "running" /\ cancelled
    /\ scanners' = [scanners EXCEPT ![i] = [@ EXCEPT !.run = "exited"]]
    /\ UNCHANGED <<store, cancelled, pc, snapshot, todo, stopping, candidate, active,
                   failed, status>>

\* The signal that ends the service.
Cancel ==
    /\ ~cancelled
    /\ cancelled' = TRUE
    /\ UNCHANGED <<store, pc, snapshot, todo, stopping, candidate, active, failed,
                   scanners, status>>

-----------------------------------------------------------------------------
\* The manager

\* A failed build becomes due.  The manager compares with the time at the start
\* of its visits, so only the time it spends in select is of consequence.
RetryDue(l) ==
    /\ pc = "select" /\ failed[l] # None /\ ~failed[l].due
    /\ failed' = [failed EXCEPT ![l] = [@ EXCEPT !.due = TRUE]]
    /\ UNCHANGED <<store, cancelled, pc, snapshot, todo, stopping, candidate, active,
                   scanners, status>>

\* Run: the select takes a notification, or the poll or retry timer.
Wake ==
    /\ pc = "select"
    /\ pc' = "load"
    /\ notified' \in {notified, FALSE}
    /\ UNCHANGED <<desired, revision, cancelled, snapshot, todo, stopping, candidate,
                   active, failed, scanners, status>>

\* Run: the select takes the end of the context, and shutdown begins.
TakeDone ==
    /\ pc = "select" /\ cancelled
    /\ pc' = "shutdown"
    /\ UNCHANGED <<store, cancelled, snapshot, todo, stopping, candidate, active, failed,
                   scanners, status>>

\* reapExited: the goroutines that have returned are closed and forgotten.
Exited == {l \in Listeners : active[l] # None /\ scanners[active[l]].run = "exited"}

Reap ==
    /\ active' = [l \in Listeners |-> IF l \in Exited THEN None ELSE active[l]]
    /\ scanners' = [i \in Instances |->
                        IF \E l \in Exited : active[l] = i THEN None ELSE scanners[i]]

\* reconcile reaps and loads the desired state, which fails once the context has
\* ended.
Load ==
    /\ pc = "load" /\ ~cancelled
    /\ Reap
    /\ snapshot' = [revision |-> revision, rows |-> desired]
    /\ pc' = "delete"
    /\ UNCHANGED <<store, cancelled, todo, stopping, candidate, failed, status>>

\* Mutant of LoadFails: a failed read is repeated at once.
LoadFailsRepeats ==
    /\ pc = "load"
    /\ Reap
    /\ status' = [status EXCEPT !.ready = FALSE]
    /\ UNCHANGED <<store, cancelled, pc, snapshot, todo, stopping, candidate, failed>>

LoadFails ==
    /\ pc = "load"
    /\ Reap
    /\ status' = [status EXCEPT !.ready = FALSE]
    /\ pc' = "select"
    /\ UNCHANGED <<store, cancelled, snapshot, todo, stopping, candidate, failed>>

\* stop: cancel the goroutine of l, then wait at `await'.
Stop(l, await) ==
    /\ LET run == scanners[active[l]].run IN
       scanners' = [scanners EXCEPT ![active[l]] =
                       [@ EXCEPT !.run = IF run = "running" THEN "cancelled" ELSE run]]
    /\ stopping' = l
    /\ pc' = await

\* stop: the result has arrived; close the client and forget the goroutine.
Stopped ==
    /\ pc \in Awaits
    /\ scanners[active[stopping]].run = "exited"
    /\ scanners' = [scanners EXCEPT ![active[stopping]] = None]
    /\ active' = [active EXCEPT ![stopping] = None]
    /\ stopping' = None
    /\ pc' = CASE pc = "await delete" -> "delete"
               [] pc = "await visit" -> "visit"
               [] pc = "await replace" -> "start"
               [] pc = "await shutdown" -> "shutdown"
    /\ UNCHANGED <<store, cancelled, snapshot, todo, candidate, failed, status>>

\* reconcile: the scanners of deleted listeners are stopped, in any order.
StopDeleted(l) ==
    /\ pc = "delete" /\ active[l] # None /\ snapshot.rows[l] = None
    /\ Stop(l, "await delete")
    /\ UNCHANGED <<store, cancelled, snapshot, todo, candidate, active, failed, status>>

\* reconcile: then their failures are forgotten and the visits begin.
BeginVisits ==
    /\ pc = "delete"
    /\ \A l \in Listeners : snapshot.rows[l] = None => active[l] = None
    /\ failed' = [l \in Listeners |-> IF snapshot.rows[l] = None THEN None ELSE failed[l]]
    /\ todo' = {l \in Listeners : snapshot.rows[l] # None}
    /\ pc' = "visit"
    /\ UNCHANGED <<store, cancelled, snapshot, stopping, candidate, active, scanners,
                   status>>

\* The listener that is visited: the smallest id left.
Visiting(l) == l \in todo /\ \A k \in todo : l <= k

\* The end of a visit.
Visited(l) ==
    /\ todo' = todo \ {l}
    /\ pc' = "visit"

\* A paused listener: its scanner is stopped, and the visit is taken up again.
StopPaused(l) ==
    /\ pc = "visit" /\ Visiting(l)
    /\ snapshot.rows[l].paused /\ active[l] # None
    /\ Stop(l, "await visit")
    /\ UNCHANGED <<store, cancelled, snapshot, todo, candidate, active, failed, status>>

\* Mutant of UpToDate: the hashes are not compared.
UpToDateUnhashed(l) == active[l] # None

\* The scanner of l runs with the configuration of the snapshot.
UpToDate(l) == active[l] # None /\ scanners[active[l]].config = snapshot.rows[l].config

\* Mutant of Settled: the scanner of a paused listener is not stopped.
SettledUnstopped(l) ==
    /\ pc = "visit" /\ Visiting(l)
    /\ snapshot.rows[l].paused \/ UpToDate(l)
    /\ failed' = [failed EXCEPT ![l] = None]
    /\ Visited(l)
    /\ UNCHANGED <<store, cancelled, snapshot, stopping, candidate, active, scanners,
                   status>>

\* Nothing is left to do for a paused listener, or one that is up to date.
Settled(l) ==
    /\ pc = "visit" /\ Visiting(l)
    /\ IF snapshot.rows[l].paused THEN active[l] = None ELSE UpToDate(l)
    /\ failed' = [failed EXCEPT ![l] = None]
    /\ Visited(l)
    /\ UNCHANGED <<store, cancelled, snapshot, stopping, candidate, active, scanners,
                   status>>

\* Mutant of BacksOff: the retry time is not looked at.
BacksOffForever(l) == failed[l] # None /\ failed[l].config = snapshot.rows[l].config

\* The build of this configuration has failed and its retry is not due.
BacksOff(l) ==
    /\ failed[l] # None
    /\ failed[l].config = snapshot.rows[l].config
    /\ ~failed[l].due

Postpone(l) ==
    /\ pc = "visit" /\ Visiting(l)
    /\ ~snapshot.rows[l].paused /\ ~UpToDate(l) /\ BacksOff(l)
    /\ Visited(l)
    /\ UNCHANGED <<store, cancelled, snapshot, stopping, candidate, active, failed,
                   scanners, status>>

NeedsBuild(l) ==
    /\ pc = "visit" /\ Visiting(l)
    /\ ~snapshot.rows[l].paused /\ ~UpToDate(l) /\ ~BacksOff(l)

\* Mutant of BuildFails: the old scanner is cancelled before the build.
BuildFailsStopped(l) ==
    /\ NeedsBuild(l)
    /\ failed' = [failed EXCEPT ![l] =
           [config |-> snapshot.rows[l].config, attempts |-> 1, due |-> FALSE]]
    /\ scanners' = [i \in Instances |->
           IF i = active[l] THEN [scanners[i] EXCEPT !.run = "cancelled"] ELSE scanners[i]]
    /\ Visited(l)
    /\ UNCHANGED <<store, cancelled, snapshot, stopping, candidate, active, status>>

\* The build fails: recordFailure.
BuildFails(l) ==
    /\ NeedsBuild(l)
    /\ LET config == snapshot.rows[l].config
           again == failed[l] # None /\ failed[l].config = config
       IN failed' = [failed EXCEPT ![l] =
              [config |-> config, attempts |-> IF again THEN 2 ELSE 1, due |-> FALSE]]
    /\ Visited(l)
    /\ UNCHANGED <<store, cancelled, snapshot, stopping, candidate, active, scanners,
                   status>>

\* The build returns a scanner, with an RPC client unless it is idle.
Build(l) ==
    /\ NeedsBuild(l)
    /\ candidate' = snapshot.rows[l].config
    /\ pc' = "replace"
    /\ UNCHANGED <<store, cancelled, snapshot, todo, stopping, active, failed, scanners,
                   status>>

\* Mutant of Discard: the candidate is not closed.
DiscardOpen ==
    /\ pc = "replace" /\ cancelled
    /\ todo' = {}
    /\ pc' = "select"
    /\ UNCHANGED <<store, cancelled, snapshot, stopping, candidate, active, failed,
                   scanners, status>>

\* The context ended during the build: close the candidate, publish nothing.
Discard ==
    /\ pc = "replace" /\ cancelled
    /\ candidate' = None /\ todo' = {}
    /\ pc' = "select"
    /\ UNCHANGED <<store, cancelled, snapshot, stopping, active, failed, scanners,
                   status>>

\* Mutant of Replace: the old scanner is not stopped.
ReplaceUnstopped(l) ==
    /\ pc = "replace" /\ ~cancelled /\ Visiting(l) /\ active[l] # None
    /\ pc' = "start"
    /\ UNCHANGED <<store, cancelled, snapshot, todo, stopping, candidate, active, failed,
                   scanners, status>>

\* The candidate takes over: the old scanner is stopped first.
Replace(l) ==
    /\ pc = "replace" /\ ~cancelled /\ Visiting(l) /\ active[l] # None
    /\ Stop(l, "await replace")
    /\ UNCHANGED <<store, cancelled, snapshot, todo, candidate, active, failed, status>>

\* start: no scanner was there, or it has been stopped.  The new one runs in a
\* goroutine of its own, whose context is a child of the service's.
Start(l, i) ==
    /\ pc = "start" \/ (pc = "replace" /\ ~cancelled /\ active[l] = None)
    /\ Visiting(l)
    /\ scanners[i] = None
    /\ scanners' = [scanners EXCEPT ![i] =
           [id |-> l, config |-> candidate, run |-> "running", open |-> candidate \notin Idle]]
    /\ active' = [active EXCEPT ![l] = i]
    /\ failed' = [failed EXCEPT ![l] = None]
    /\ candidate' = None
    /\ Visited(l)
    /\ UNCHANGED <<store, cancelled, snapshot, stopping, status>>

\* The state publishStatus gives a listener of the snapshot.
StateOf(l) ==
    LET row == snapshot.rows[l]
        same == failed[l] # None /\ failed[l].config = row.config
    IN CASE row.paused -> "paused"
         [] ~row.paused /\ UpToDate(l) /\ ~same ->
                IF row.config \in Idle THEN "idle" ELSE "running"
         [] ~row.paused /\ same -> IF failed[l].attempts > 1 THEN "retrying" ELSE "build-failed"
         [] OTHER -> "build-failed"

\* publishStatus, at the end of a reconcile.
Publish ==
    /\ pc = "visit" /\ todo = {}
    /\ LET states == [l \in Listeners |-> IF snapshot.rows[l] = None THEN None ELSE StateOf(l)]
       IN status' = [complete |-> TRUE, revision |-> snapshot.revision, states |-> states,
                     ready |-> \A l \in Listeners :
                                   states[l] \notin {"build-failed", "retrying"}]
    /\ pc' = "select"
    /\ UNCHANGED <<store, cancelled, snapshot, todo, stopping, candidate, active, failed,
                   scanners>>

\* shutdown: every scanner is stopped, in ascending order.
ShutdownStop(l) ==
    /\ pc = "shutdown" /\ active[l] # None
    /\ \A k \in Listeners : active[k] # None => l <= k
    /\ Stop(l, "await shutdown")
    /\ UNCHANGED <<store, cancelled, snapshot, todo, candidate, active, failed, status>>

ShutdownDone ==
    /\ pc = "shutdown" /\ active = Empty
    /\ pc' = "done"
    /\ UNCHANGED <<store, cancelled, snapshot, todo, stopping, candidate, active, failed,
                   scanners, status>>

\* The process has ended.
Ended == pc = "done" /\ UNCHANGED vars

-----------------------------------------------------------------------------
\* One step of the manager on its way through reconcile or shutdown.
Proceed ==
    \/ Load \/ Stopped \/ BeginVisits \/ Discard \/ Publish \/ ShutdownDone
    \/ \E l \in Listeners :
           \/ StopDeleted(l) \/ StopPaused(l) \/ Settled(l) \/ Postpone(l)
           \/ Build(l) \/ Replace(l) \/ ShutdownStop(l)
           \/ \E i \in Instances : Start(l, i)

Errors == LoadFails \/ \E l \in Listeners : BuildFails(l)

Administer == \E rows \in Tables : Mutate(rows)

Next ==
    \/ Administer \/ Cancel \/ Wake \/ TakeDone \/ Proceed \/ Errors \/ Ended
    \/ \E i \in Instances : Exit(i)
    \/ \E l \in Listeners : RetryDue(l)

Spec == Init /\ [][Next]_vars
\* The manager goes on, its poll timer ticks for ever, and goroutines end when told
\* to.  Strong fairness stands for two things that hold whatever the manager does
\* between its visits to select: time passes, so a failed build becomes due, and
\* Go's select chooses at random among the cases that are ready, so the end of the
\* context is taken in the end.
Fairness ==
    /\ WF_vars(Proceed \/ Errors) /\ WF_vars(Wake) /\ SF_vars(TakeDone)
    /\ \A i \in Instances : WF_vars(Exit(i))
    /\ \A l \in Listeners : SF_vars(RetryDue(l))

FairSpec == Spec /\ Fairness

-----------------------------------------------------------------------------
\* Properties

\* The comment on runtimeManager: "an RPC listener can never have two running
\* scanners", also while one is replaced and the old one is still on its way out.
OneScanner ==
    \A i, j \in Instances :
        ( /\ scanners[i] # None /\ scanners[i].run # "exited"
          /\ scanners[j] # None /\ scanners[j].run # "exited"
          /\ scanners[i].id = scanners[j].id ) => i = j

\* Every RPC client has an owner that will close it: the active scanner of its
\* listener, whatever builds, replacements and cancellations came before.  None
\* is left when the manager returns.
NoClientLeaks ==
    /\ \A i \in Instances : scanners[i] # None => active[scanners[i].id] = i
    /\ candidate # None => pc \in {"replace", "await replace", "start"}
    /\ pc = "done" => scanners = [i \in Instances |-> None]

\* What scannerSkipService.stopped relies on: when the status shows listener l as
\* paused at the current revision, its scanner has returned, and it stays so until
\* the configuration changes again.
ObservedStopped(l, r) ==
    status.complete /\ status.revision = r /\ status.states[l] = "paused"

PausedIsStopped ==
    \A l \in Listeners :
        ObservedStopped(l, revision)
            => /\ desired[l] # None /\ desired[l].paused
               /\ \A i \in Instances : scanners[i] # None => scanners[i].id # l

\* A ready status of the current revision is true of the scanners: those of the
\* enabled listeners run with their configuration, and there are no others.
ReadyIsServed ==
    (status.ready /\ status.revision = revision /\ ~cancelled)
        => \A l \in Listeners :
               IF desired[l] # None /\ ~desired[l].paused
               THEN active[l] # None /\ scanners[active[l]].config = desired[l].config
                                    /\ scanners[active[l]].run = "running"
               ELSE active[l] = None

\* A scanner is told to stop only for a reason: its listener was deleted or
\* paused, its replacement is ready, or the service ends.  A failed build of a
\* replacement leaves it alone.
KeepsOldScanner ==
    [][\A l \in Listeners :
         (active[l] # None /\ scanners[active[l]].run = "running"
                          /\ scanners'[active[l]].run = "cancelled")
             => \/ cancelled
                \/ snapshot.rows[l] = None
                \/ snapshot.rows[l].paused
                \/ candidate = snapshot.rows[l].config]_vars

\* Once the configuration stays and nothing fails any more, the scanners come to
\* be those of the configuration and stay so: no change is lost, whatever the
\* reconcile was doing when it came.
Served ==
    \A l \in Listeners :
        IF desired[l] # None /\ ~desired[l].paused
        THEN active[l] # None /\ scanners[active[l]].config = desired[l].config
        ELSE active[l] = None

Undisturbed ==
    \/ Proceed \/ Wake
    \/ \E i \in Instances : Exit(i)
    \/ \E l \in Listeners : RetryDue(l)

Converges == (<>[][Undisturbed]_vars /\ <>[]~cancelled) => <>[]Served

\* Once the service is told to end, the manager stops every scanner and returns.
ShutsDown == cancelled ~> (pc = "done")
=============================================================================
