--------------------------- MODULE Runtime_proofs ---------------------------
(***************************************************************************)
(* Proofs about Runtime: the type invariant, one scanner per listener,     *)
(* owners of clients, what a paused and a ready status tell, and when a    *)
(* scanner is told to stop.                                                *)
(***************************************************************************)
EXTENDS Runtime, TLAPS

\* The places between the read of the desired state and its publication, and
\* those at which a built candidate waits.
Swapping == {"replace", "await replace", "start"}
Visits == {"visit", "await visit"} \cup Swapping
Reconciling == {"delete", "await delete"} \cup Visits

\* m.active and the goroutines are the same thing seen from two sides.
OwnerInv ==
    /\ \A i \in Instances : scanners[i] # None => active[scanners[i].id] = i
    /\ \A l \in Listeners :
           active[l] # None => scanners[active[l]] # None /\ scanners[active[l]].id = l

\* The listener a stop waits for, and why it is stopped.
StopInv ==
    /\ pc \in Awaits => stopping \in Listeners /\ active[stopping] # None
    /\ pc = "await delete" => snapshot.rows[stopping] = None
    /\ pc = "await visit" => Visiting(stopping) /\ snapshot.rows[stopping].paused
    /\ pc = "await replace" => Visiting(stopping)

\* A goroutine that no longer runs is being stopped, or the service ends.
RunInv ==
    \A l \in Listeners :
        (active[l] # None /\ scanners[active[l]].run # "running")
            => cancelled \/ (pc \in Awaits /\ stopping = l)

\* The built candidate is for the visited listener, which is not up to date.
CandidateInv ==
    /\ candidate # None <=> pc \in Swapping
    /\ pc \in Swapping =>
           \E l \in Listeners :
              /\ Visiting(l) /\ candidate = snapshot.rows[l].config
              /\ ~snapshot.rows[l].paused /\ ~UpToDate(l)
              /\ pc = "start" => active[l] = None

\* The listeners that are visited have rows; those already visited, and those
\* without a row, have no scanner they should not have.
VisitInv ==
    /\ pc \in Visits => \A l \in todo : snapshot.rows[l] # None
    /\ pc \in Visits =>
           \A l \in Listeners \ todo :
              (snapshot.rows[l] = None \/ snapshot.rows[l].paused) => active[l] = None

\* A snapshot of the current revision is current.
SnapshotInv ==
    /\ snapshot.revision <= revision
    /\ (status.complete \/ pc \in Reconciling) /\ snapshot.revision = revision
           => snapshot.rows = desired

\* The status is never newer than the snapshot; a status of the revision of the
\* snapshot is true of the scanners, whatever the manager is doing.
StatusInv ==
    /\ status.ready => status.complete
    /\ status.complete => status.revision <= snapshot.revision
    /\ status.complete /\ status.revision = snapshot.revision =>
           \A l \in Listeners :
              status.states[l] = "paused" =>
                 snapshot.rows[l] # None /\ snapshot.rows[l].paused /\ active[l] = None

ServedSnapshot ==
    \A l \in Listeners :
        IF snapshot.rows[l] # None /\ ~snapshot.rows[l].paused THEN UpToDate(l)
        ELSE active[l] = None

ReadyInv ==
    status.ready /\ status.revision = snapshot.revision => cancelled \/ ServedSnapshot

DoneInv ==
    /\ pc \in {"shutdown", "await shutdown", "done"} => cancelled
    /\ pc = "done" => active = Empty

IInv ==
    /\ TypeOK /\ OwnerInv /\ StopInv /\ RunInv /\ CandidateInv /\ VisitInv /\ SnapshotInv
    /\ StatusInv /\ ReadyInv /\ DoneInv

-----------------------------------------------------------------------------
\* Two listeners cannot both be the next to be visited.
LEMMA VisitingUnique ==
    ASSUME NEW k \in Listeners, NEW l \in Listeners, Visiting(k), Visiting(l)
    PROVE  k = l
  BY RuntimeAssumption DEF Visiting

\* A step that changes at most what goroutines do, not whose they are.
SameScanners ==
    \A j \in Instances :
        /\ scanners'[j] = None <=> scanners[j] = None
        /\ scanners[j] # None => /\ scanners'[j].id = scanners[j].id
                                 /\ scanners'[j].config = scanners[j].config

\* Such a step is a change of the field `run' of one goroutine.
LEMMA RunChange ==
    ASSUME TypeOK, NEW i \in Instances, scanners[i] # None,
           NEW r \in {"running", "cancelled", "exited"},
           scanners' = [scanners EXCEPT ![i] = [@ EXCEPT !.run = r]]
    PROVE  /\ scanners' \in [Instances -> Scanners \cup {None}]
           /\ SameScanners
           /\ scanners'[i].run = r
           /\ \A j \in Instances \ {i} : scanners'[j] = scanners[j]
<1>1. scanners \in [Instances -> Scanners \cup {None}] /\ scanners[i] \in Scanners
  BY Zenon DEF TypeOK
<1>2. /\ [scanners[i] EXCEPT !.run = r] \in Scanners
      /\ [scanners[i] EXCEPT !.run = r].id = scanners[i].id
      /\ [scanners[i] EXCEPT !.run = r].config = scanners[i].config
      /\ [scanners[i] EXCEPT !.run = r].run = r
  BY <1>1, Zenon DEF Scanners
<1>3. scanners'[i] = [scanners[i] EXCEPT !.run = r]
  BY <1>1, Zenon
<1>4. \A j \in Instances \ {i} : scanners'[j] = scanners[j]
  BY <1>1, Zenon
<1>5. None \notin Scanners
  BY NoneAssumption, Zenon
<1>6. SameScanners
  BY <1>1, <1>2, <1>3, <1>4, <1>5, Zenon DEF SameScanners
<1>7. scanners' \in [Instances -> Scanners \cup {None}]
  <2> DEFINE q == [scanners[i] EXCEPT !.run = r]
  <2>1. q \in Scanners /\ scanners' = [scanners EXCEPT ![i] = q]
    BY <1>2, Zenon
  <2> HIDE DEF q
  <2> QED BY <1>1, <2>1, Zenon
<1> QED BY <1>2, <1>3, <1>4, <1>6, <1>7, Zenon

\* It keeps the owners, and which listeners are up to date.
LEMMA SameOwners ==
    ASSUME TypeOK, OwnerInv, SameScanners, active' = active, snapshot' = snapshot
    PROVE  /\ OwnerInv'
           /\ \A l \in Listeners : UpToDate(l)' <=> UpToDate(l)
<1>1. active \in [Listeners -> Instances \cup {None}]
  BY Zenon DEF TypeOK
<1>2. \A i \in Instances : scanners[i] # None => scanners[i].id \in Listeners
  BY Zenon DEF TypeOK, Scanners
<1>3. OwnerInv'
  BY <1>1, <1>2 DEF OwnerInv, SameScanners
<1>4. \A l \in Listeners : UpToDate(l)' <=> UpToDate(l)
  BY <1>1, Zenon DEF OwnerInv, SameScanners, UpToDate
<1> QED BY <1>3, <1>4, Zenon

\* A listener that is being visited has a row.
LEMMA RowType ==
    ASSUME IInv, pc \in Visits, NEW l \in Listeners, l \in todo
    PROVE  /\ snapshot.rows[l] \in Rows /\ snapshot.rows[l] # None
           /\ snapshot.rows[l].config \in Configs
<1>1. snapshot.rows[l] \in Rows \cup {None} /\ snapshot.rows[l] # None
  BY Zenon DEF IInv, TypeOK, Tables, VisitInv
<1> QED BY <1>1, Zenon DEF Rows

\* stop cancels the goroutine of l and leaves the others alone.
LEMMA StopEffect ==
    ASSUME TypeOK, OwnerInv, NEW l \in Listeners, active[l] # None, NEW await,
           Stop(l, await), active' = active, snapshot' = snapshot
    PROVE  /\ scanners' \in [Instances -> Scanners \cup {None}]
           /\ SameScanners /\ OwnerInv'
           /\ \A k \in Listeners : UpToDate(k)' <=> UpToDate(k)
           /\ \A k \in Listeners \ {l} :
                 active[k] # None => scanners'[active[k]] = scanners[active[k]]
           /\ stopping' = l /\ pc' = await
<1>1. active[l] \in Instances /\ scanners[active[l]] # None
  BY DEF TypeOK, OwnerInv
<1> DEFINE r == IF scanners[active[l]].run = "running" THEN "cancelled"
                ELSE scanners[active[l]].run
<1>2. r \in {"running", "cancelled", "exited"}
  BY <1>1, Zenon DEF TypeOK, Scanners
<1>3. scanners' = [scanners EXCEPT ![active[l]] = [@ EXCEPT !.run = r]]
  BY <1>1, Zenon DEF Stop, TypeOK, Scanners
<1> HIDE DEF r
<1>4. /\ scanners' \in [Instances -> Scanners \cup {None}]
      /\ SameScanners
      /\ \A j \in Instances \ {active[l]} : scanners'[j] = scanners[j]
  BY <1>1, <1>2, <1>3, RunChange, Zenon
<1>5. OwnerInv' /\ \A k \in Listeners : UpToDate(k)' <=> UpToDate(k)
  BY <1>4, SameOwners, Zenon
<1>6. \A k \in Listeners \ {l} :
        active[k] # None => active[k] \in Instances /\ active[k] # active[l]
  BY DEF TypeOK, OwnerInv
<1> QED BY <1>4, <1>5, <1>6, Zenon DEF Stop

\* reapExited forgets goroutines together with their entries; while the service
\* goes on and nothing is being stopped there are none to forget.
LEMMA ReapEffect ==
    ASSUME IInv, Reap, pc = "load"
    PROVE  /\ active' \in [Listeners -> Instances \cup {None}]
           /\ scanners' \in [Instances -> Scanners \cup {None}]
           /\ OwnerInv'
           /\ \A l \in Listeners : active'[l] # None =>
                 active'[l] = active[l] /\ scanners'[active[l]] = scanners[active[l]]
           /\ ~cancelled => active' = active /\ scanners' = scanners
<1>1. /\ active \in [Listeners -> Instances \cup {None}]
      /\ scanners \in [Instances -> Scanners \cup {None}]
      /\ \A i \in Instances : scanners[i] # None => scanners[i].id \in Listeners
      /\ OwnerInv /\ None \notin Instances
  BY NoneAssumption, Zenon DEF IInv, TypeOK, Scanners
<1>2. /\ active' \in [Listeners -> Instances \cup {None}]
      /\ scanners' \in [Instances -> Scanners \cup {None}]
  BY <1>1, Zenon DEF Reap
<1>3. \A l \in Listeners : active'[l] = IF l \in Exited THEN None ELSE active[l]
  BY Zenon DEF Reap
<1>4. \A i \in Instances :
        scanners'[i] = IF \E l \in Exited : active[l] = i THEN None ELSE scanners[i]
  BY Zenon DEF Reap
<1>5. \A k, l \in Listeners : active[k] # None /\ active[k] = active[l] => k = l
  BY <1>1 DEF OwnerInv
<1>6. Exited \subseteq Listeners
  BY Zenon DEF Exited
<1>7. \A l \in Listeners : active'[l] # None =>
        active'[l] = active[l] /\ scanners'[active[l]] = scanners[active[l]]
  BY <1>1, <1>3, <1>4, <1>5, <1>6
<1>8. OwnerInv'
  <2>1. ASSUME NEW i \in Instances, scanners'[i] # None PROVE active'[scanners'[i].id] = i
    BY <1>1, <1>3, <1>4, <2>1 DEF OwnerInv
  <2>2. ASSUME NEW l \in Listeners, active'[l] # None
        PROVE  scanners'[active'[l]] # None /\ scanners'[active'[l]].id = l
    BY <1>1, <1>7, <2>2 DEF OwnerInv
  <2> QED BY <2>1, <2>2, Zenon DEF OwnerInv
<1>9. ASSUME ~cancelled PROVE active' = active /\ scanners' = scanners
  <2>1. Exited = {}
    BY <1>9, Zenon DEF IInv, RunInv, Exited, Awaits
  <2> QED BY <1>1, <2>1, Zenon DEF Reap
<1> QED BY <1>2, <1>7, <1>8, <1>9, Zenon

\* A change makes the snapshot and the status old.
LEMMA MutateIInv ==
    ASSUME NEW rows \in Tables, IInv, Mutate(rows)
    PROVE  IInv'
<1>1. TypeOK'
  BY RuntimeAssumption DEF IInv, Mutate, TypeOK, Tables
<1>2. SnapshotInv'
  <2>1. snapshot.revision \in Nat /\ revision \in Nat
    BY RuntimeAssumption DEF IInv, TypeOK
  <2> QED BY <2>1 DEF IInv, Mutate, SnapshotInv
<1>3. OwnerInv' /\ StopInv' /\ RunInv' /\ CandidateInv' /\ VisitInv'
        /\ StatusInv' /\ ReadyInv' /\ DoneInv'
  BY Zenon DEF IInv, Mutate, store, OwnerInv, StopInv, Visiting, Awaits, RunInv, CandidateInv,
       UpToDate, Swapping, VisitInv, Visits, StatusInv, ReadyInv, ServedSnapshot, DoneInv,
       Empty
<1> QED BY <1>1, <1>2, <1>3, Zenon DEF IInv

\* A goroutine that returns was told to.
LEMMA ExitIInv == ASSUME NEW i \in Instances, IInv, Exit(i) PROVE IInv'
<1>a. /\ scanners' \in [Instances -> Scanners \cup {None}]
      /\ SameScanners
      /\ scanners'[i].run = "exited"
      /\ \A j \in Instances \ {i} : scanners'[j] = scanners[j]
  BY RunChange, Zenon DEF IInv, Exit
<1>b. OwnerInv' /\ \A l \in Listeners : UpToDate(l)' <=> UpToDate(l)
  BY <1>a, SameOwners, Zenon DEF IInv, Exit
<1>1. TypeOK'
  BY <1>a, Zenon DEF IInv, Exit, TypeOK, store
<1>2. OwnerInv'
  BY <1>b, Zenon
<1>3. RunInv'
  BY <1>a, Zenon DEF IInv, Exit, RunInv, TypeOK
<1>4. CandidateInv'
  BY <1>b, Zenon DEF IInv, Exit, CandidateInv, Visiting
<1>5. ReadyInv'
  BY <1>b, Zenon DEF IInv, Exit, ReadyInv, ServedSnapshot
<1>6. StopInv' /\ VisitInv' /\ SnapshotInv' /\ StatusInv' /\ DoneInv'
  BY Zenon DEF IInv, Exit, store, StopInv, Visiting, Awaits, VisitInv, Visits, Swapping,
       SnapshotInv, Reconciling, StatusInv, DoneInv, Empty
<1> QED BY <1>1, <1>2, <1>3, <1>4, <1>5, <1>6, Zenon DEF IInv

\* The context of the service is cancelled.
LEMMA CancelIInv == ASSUME IInv, Cancel PROVE IInv'
<1>1. TypeOK'
  BY Zenon DEF IInv, Cancel, store, TypeOK, Awaits, Places
<1>2. RunInv'
  BY Zenon DEF IInv, Cancel, RunInv, Awaits
<1>3. ReadyInv'
  BY Zenon DEF IInv, Cancel, ReadyInv, ServedSnapshot, UpToDate
<1>4. DoneInv'
  BY Zenon DEF IInv, Cancel, DoneInv, Empty
<1>5. OwnerInv' /\ StopInv' /\ CandidateInv' /\ VisitInv' /\ SnapshotInv'
        /\ StatusInv'
  BY Zenon DEF IInv, Cancel, store, OwnerInv, StopInv, Visiting, Awaits, CandidateInv, UpToDate,
       Swapping, VisitInv, Visits, SnapshotInv, Reconciling, StatusInv
<1> QED BY <1>1, <1>2, <1>3, <1>4, <1>5, Zenon DEF IInv

\* The delay of a retry has passed.
LEMMA RetryDueIInv == ASSUME NEW l \in Listeners, IInv, RetryDue(l) PROVE IInv'
<1>1. TypeOK'
  <2>1. failed[l] \in Failures /\ failed \in [Listeners -> Failures \cup {None}]
    BY Zenon DEF IInv, TypeOK, RetryDue
  <2> DEFINE f == [failed[l] EXCEPT !.due = TRUE]
  <2>2. f \in Failures
    BY <2>1, Zenon DEF Failures
  <2>3. failed' = [failed EXCEPT ![l] = f]
    BY Zenon DEF RetryDue
  <2> HIDE DEF f
  <2>4. failed' \in [Listeners -> Failures \cup {None}]
    BY <2>1, <2>2, <2>3, Zenon
  <2> QED BY <2>4, Zenon DEF IInv, RetryDue, TypeOK, store
<1>2. OwnerInv' /\ StopInv' /\ RunInv' /\ CandidateInv' /\ VisitInv'
        /\ SnapshotInv' /\ StatusInv' /\ ReadyInv' /\ DoneInv'
  BY Zenon DEF IInv, RetryDue, store, OwnerInv, StopInv, Visiting, Awaits, RunInv, CandidateInv,
       UpToDate, Swapping, VisitInv, Visits, SnapshotInv, Reconciling, StatusInv,
       ReadyInv, ServedSnapshot, DoneInv, Empty
<1> QED BY <1>1, <1>2, Zenon DEF IInv

\* The manager wakes up.
LEMMA WakeIInv == ASSUME IInv, Wake PROVE IInv'
<1>1. TypeOK'
  BY Zenon DEF IInv, Wake, store, TypeOK, Awaits, Places
<1>2. StopInv'
  BY Zenon DEF IInv, Wake, StopInv, Visiting, Awaits
<1>3. RunInv'
  BY Zenon DEF IInv, Wake, RunInv, Awaits
<1>4. CandidateInv'
  BY Zenon DEF IInv, Wake, CandidateInv, Visiting, UpToDate, Swapping
<1>5. VisitInv'
  BY Zenon DEF IInv, Wake, VisitInv, Visits, Swapping
<1>6. SnapshotInv'
  BY Zenon DEF IInv, Wake, SnapshotInv, Reconciling, Visits, Swapping, store
<1>7. DoneInv'
  BY Zenon DEF IInv, Wake, DoneInv, Empty
<1>8. OwnerInv' /\ StatusInv' /\ ReadyInv'
  BY Zenon DEF IInv, Wake, store, OwnerInv, StatusInv, ReadyInv, ServedSnapshot, UpToDate
<1> QED BY <1>1, <1>2, <1>3, <1>4, <1>5, <1>6, <1>7, <1>8, Zenon DEF IInv

\* The manager sees the end of the context and begins the shutdown.
LEMMA TakeDoneIInv == ASSUME IInv, TakeDone PROVE IInv'
<1>1. TypeOK'
  BY Zenon DEF IInv, TakeDone, store, TypeOK, Awaits, Places
<1>2. StopInv'
  BY Zenon DEF IInv, TakeDone, StopInv, Visiting, Awaits
<1>3. RunInv'
  BY Zenon DEF IInv, TakeDone, RunInv, Awaits
<1>4. CandidateInv'
  BY Zenon DEF IInv, TakeDone, CandidateInv, Visiting, UpToDate, Swapping
<1>5. VisitInv'
  BY Zenon DEF IInv, TakeDone, VisitInv, Visits, Swapping
<1>6. SnapshotInv'
  BY Zenon DEF IInv, TakeDone, SnapshotInv, Reconciling, Visits, Swapping, store
<1>7. DoneInv'
  BY Zenon DEF IInv, TakeDone, DoneInv, Empty
<1>8. OwnerInv' /\ StatusInv' /\ ReadyInv'
  BY Zenon DEF IInv, TakeDone, store, OwnerInv, StatusInv, ReadyInv, ServedSnapshot, UpToDate
<1> QED BY <1>1, <1>2, <1>3, <1>4, <1>5, <1>6, <1>7, <1>8, Zenon DEF IInv

\* Nothing is reaped while the service goes on; a new snapshot of an old revision
\* is the old snapshot.
LEMMA LoadIInv == ASSUME IInv, Load PROVE IInv'
<1>a. active' = active /\ scanners' = scanners /\ cancelled' = cancelled /\ status' = status
  BY ReapEffect, Zenon DEF Load
<1>b. /\ pc = "load" /\ pc' = "delete"
      /\ snapshot' = [revision |-> revision, rows |-> desired]
      /\ snapshot'.revision = revision /\ snapshot'.rows = desired
      /\ UNCHANGED <<store, cancelled, todo, stopping, candidate, failed, status>>
  BY Zenon DEF Load
<1>c. status.complete /\ status.revision = revision
        => snapshot.revision = revision /\ snapshot.rows = desired
  <2>1. status.revision \in Int /\ snapshot.revision \in Int /\ revision \in Int
    BY DEF IInv, TypeOK, Statuses
  <2> QED BY <2>1 DEF IInv, StatusInv, SnapshotInv
<1>d. status.complete => status.revision <= revision
  <2>1. status.revision \in Int /\ snapshot.revision \in Int /\ revision \in Int
    BY DEF IInv, TypeOK, Statuses
  <2> QED BY <2>1 DEF IInv, StatusInv, SnapshotInv
<1>1. TypeOK'
  BY <1>a, <1>b, Zenon DEF IInv, TypeOK, Places, store
<1>2. OwnerInv'
  BY <1>a, <1>b, Zenon DEF IInv, OwnerInv
<1>3. StopInv'
  BY <1>a, <1>b, Zenon DEF IInv, StopInv, Visiting, Awaits
<1>4. RunInv'
  BY <1>a, <1>b DEF IInv, RunInv, Awaits
<1>5. CandidateInv'
  BY <1>a, <1>b, Zenon DEF IInv, CandidateInv, Swapping
<1>6. VisitInv'
  BY <1>a, <1>b, Zenon DEF IInv, VisitInv, Visits, Swapping
<1>7. SnapshotInv'
  <2>1. revision \in Int
    BY DEF IInv, TypeOK
  <2> QED BY <1>b, <2>1 DEF SnapshotInv, store
<1>8. StatusInv'
  BY <1>a, <1>b, <1>c, <1>d, Zenon DEF IInv, StatusInv
<1>9. ReadyInv'
  BY <1>a, <1>b, <1>c DEF IInv, StatusInv, ReadyInv, ServedSnapshot, UpToDate
<1>10. DoneInv'
  BY <1>b, Zenon DEF IInv, DoneInv
<1> QED BY <1>1, <1>2, <1>3, <1>4, <1>5, <1>6, <1>7, <1>8, <1>9, <1>10, Zenon DEF IInv

\* A failed read leaves the old snapshot and withdraws readiness.
LEMMA LoadFailsIInv == ASSUME IInv, LoadFails PROVE IInv'
<1>a. /\ active' \in [Listeners -> Instances \cup {None}]
      /\ scanners' \in [Instances -> Scanners \cup {None}]
      /\ OwnerInv'
      /\ \A l \in Listeners : active'[l] # None =>
            active'[l] = active[l] /\ scanners'[active[l]] = scanners[active[l]]
  BY ReapEffect, Zenon DEF LoadFails
<1>b. /\ status' = [status EXCEPT !.ready = FALSE] /\ status' \in Statuses
      /\ status'.ready = FALSE /\ status'.complete = status.complete
      /\ status'.revision = status.revision /\ status'.states = status.states
  BY Zenon DEF LoadFails, IInv, TypeOK, Statuses
<1>c. /\ pc = "load" /\ pc' = "select"
      /\ UNCHANGED <<store, cancelled, snapshot, todo, stopping, candidate, failed>>
  BY Zenon DEF LoadFails
<1>1. TypeOK'
  BY <1>a, <1>b, <1>c, Zenon DEF IInv, TypeOK, Places, store
<1>2. OwnerInv'
  BY <1>a, Zenon
<1>3. StopInv'
  BY <1>a, <1>b, <1>c, Zenon DEF IInv, StopInv, Visiting, Awaits
<1>4. RunInv'
  BY <1>a, <1>b, <1>c DEF IInv, RunInv, Awaits
<1>5. CandidateInv'
  BY <1>a, <1>b, <1>c, Zenon DEF IInv, CandidateInv, Swapping
<1>6. VisitInv'
  BY <1>a, <1>b, <1>c, Zenon DEF IInv, VisitInv, Visits, Swapping
<1>7. SnapshotInv'
  BY <1>a, <1>b, <1>c, Zenon DEF IInv, SnapshotInv, Reconciling, Visits, Swapping, store
<1>8. StatusInv'
  BY <1>a, <1>b, <1>c DEF IInv, StatusInv
<1>9. ReadyInv'
  BY <1>a, <1>b, <1>c, Zenon DEF IInv, ReadyInv
<1>10. DoneInv'
  BY <1>a, <1>b, <1>c, Zenon DEF IInv, DoneInv
<1> QED BY <1>1, <1>2, <1>3, <1>4, <1>5, <1>6, <1>7, <1>8, <1>9, <1>10, Zenon DEF IInv

\* The listener whose scanner is gone was not to have it, or gets another.
LEMMA StoppedIInv == ASSUME IInv, Stopped PROVE IInv'
<1>a. /\ pc \in Awaits /\ stopping \in Listeners /\ active[stopping] # None
      /\ active[stopping] \in Instances
      /\ active \in [Listeners -> Instances \cup {None}]
      /\ scanners \in [Instances -> Scanners \cup {None}]
  BY Zenon DEF Stopped, IInv, TypeOK, StopInv
<1>b. /\ active' = [active EXCEPT ![stopping] = None]
      /\ scanners' = [scanners EXCEPT ![active[stopping]] = None]
      /\ stopping' = None
      /\ UNCHANGED <<store, cancelled, snapshot, todo, candidate, failed, status>>
  BY Zenon DEF Stopped
<1>c. /\ pc = "await delete" => pc' = "delete"
      /\ pc = "await visit" => pc' = "visit"
      /\ pc = "await replace" => pc' = "start"
      /\ pc = "await shutdown" => pc' = "shutdown"
  BY Zenon DEF Stopped
<1>d. \A k \in Listeners \ {stopping} : active[k] # None => active[k] # active[stopping]
  BY <1>a, Zenon DEF IInv, OwnerInv
<1>e. /\ active'[stopping] = None
      /\ \A k \in Listeners \ {stopping} :
            /\ active'[k] = active[k]
            /\ active[k] # None => scanners'[active[k]] = scanners[active[k]]
  BY <1>a, <1>b, <1>d, Zenon
<1>1. TypeOK'
  BY <1>a, <1>b, <1>c, Zenon DEF IInv, TypeOK, Places, Awaits, store
<1>2. OwnerInv'
  <2>1. ASSUME NEW i \in Instances, scanners'[i] # None PROVE active'[scanners'[i].id] = i
    <3>1. i # active[stopping] /\ scanners'[i] = scanners[i]
      BY <1>a, <1>b, <2>1, Zenon
    <3>2. active[scanners[i].id] = i /\ scanners[i].id \in Listeners
      BY <2>1, <3>1, Zenon DEF IInv, OwnerInv, TypeOK, Scanners
    <3> QED BY <1>a, <1>e, <3>1, <3>2, Zenon
  <2>2. ASSUME NEW k \in Listeners, active'[k] # None
        PROVE  scanners'[active'[k]] # None /\ scanners'[active'[k]].id = k
    BY <1>e, <2>2 DEF IInv, OwnerInv
  <2> QED BY <2>1, <2>2, Zenon DEF OwnerInv
<1>3. StopInv'
  BY <1>a, <1>c, Zenon DEF StopInv, Awaits
<1>4. RunInv'
  BY <1>a, <1>b, <1>e, Zenon DEF IInv, RunInv
<1>5. CandidateInv'
  <2>1. CASE pc = "await replace"
    <3>1. PICK l \in Listeners :
            /\ Visiting(l) /\ candidate = snapshot.rows[l].config
            /\ ~snapshot.rows[l].paused
      BY <2>1, Zenon DEF IInv, CandidateInv, Swapping
    <3>2. l = stopping
      BY <1>a, <2>1, <3>1, VisitingUnique, Zenon DEF IInv, StopInv
    <3>3. active'[l] = None /\ Visiting(l)' /\ ~UpToDate(l)'
      BY <1>b, <1>e, <3>1, <3>2, Zenon DEF Visiting, UpToDate
    <3>4. candidate' # None /\ pc' \in Swapping
      BY <1>b, <1>c, <2>1, Zenon DEF IInv, CandidateInv, Swapping
    <3> QED BY <1>b, <3>1, <3>3, <3>4, Zenon DEF CandidateInv
  <2>2. CASE pc # "await replace"
    <3>1. pc \notin Swapping /\ pc' \notin Swapping
      BY <1>a, <1>c, <2>2, Zenon DEF Awaits, Swapping
    <3> QED BY <1>b, <3>1, Zenon DEF IInv, CandidateInv
  <2> QED BY <2>1, <2>2, Zenon
<1>6. VisitInv'
  <2>1. pc' \in Visits => pc \in Visits
    BY <1>a, <1>c, Zenon DEF Awaits, Visits, Swapping
  <2> QED BY <1>b, <1>e, <2>1, Zenon DEF IInv, VisitInv
<1>7. SnapshotInv'
  BY <1>a, <1>b, <1>c, Zenon DEF IInv, SnapshotInv, Awaits, Reconciling, Visits, Swapping, store
<1>8. StatusInv'
  BY <1>b, <1>e, Zenon DEF IInv, StatusInv
<1>9. ReadyInv'
  <2> SUFFICES ASSUME status.ready, status.revision = snapshot.revision, ~cancelled
               PROVE  FALSE
    BY <1>b, Zenon DEF ReadyInv
  <2>1. ServedSnapshot
    BY Zenon DEF IInv, ReadyInv
  <2>2. /\ snapshot.rows[stopping] # None /\ ~snapshot.rows[stopping].paused
        /\ UpToDate(stopping)
    BY <1>a, <2>1, Zenon DEF ServedSnapshot
  <2>3. pc = "await replace" /\ Visiting(stopping)
    BY <1>a, <2>2, Zenon DEF IInv, StopInv, DoneInv, Awaits
  <2>4. PICK l \in Listeners : Visiting(l) /\ ~UpToDate(l)
    BY <2>3, Zenon DEF IInv, CandidateInv, Swapping
  <2> QED BY <1>a, <2>2, <2>3, <2>4, VisitingUnique, Zenon
<1>10. DoneInv'
  BY <1>a, <1>b, <1>c, Zenon DEF IInv, DoneInv, Awaits
<1> QED BY <1>1, <1>2, <1>3, <1>4, <1>5, <1>6, <1>7, <1>8, <1>9, <1>10, Zenon DEF IInv

\* A deleted listener is stopped.
LEMMA StopDeletedIInv == ASSUME NEW l \in Listeners, IInv, StopDeleted(l) PROVE IInv'
<1>a. active[l] # None /\ active' = active /\ snapshot' = snapshot
  BY Zenon DEF StopDeleted
<1>b. /\ scanners' \in [Instances -> Scanners \cup {None}]
      /\ OwnerInv'
      /\ \A k \in Listeners : UpToDate(k)' <=> UpToDate(k)
      /\ \A k \in Listeners \ {l} :
            active[k] # None => scanners'[active[k]] = scanners[active[k]]
      /\ stopping' = l /\ pc' = "await delete"
  BY <1>a, StopEffect, Zenon DEF IInv, StopDeleted
<1>1. TypeOK'
  BY <1>a, <1>b, Zenon DEF IInv, StopDeleted, TypeOK, Places, Awaits, store
<1>2. OwnerInv'
  BY <1>b, Zenon
<1>3. StopInv'
  BY <1>a, <1>b, Zenon DEF IInv, StopDeleted, StopInv, Awaits
<1>4. RunInv'
  BY <1>a, <1>b, Zenon DEF IInv, StopDeleted, RunInv, Awaits
<1>5. CandidateInv'
  BY <1>a, <1>b, Zenon DEF IInv, StopDeleted, CandidateInv, Swapping, Visiting
<1>6. VisitInv'
  BY <1>a, <1>b, Zenon DEF IInv, StopDeleted, VisitInv, Visits, Swapping
<1>7. SnapshotInv'
  BY <1>a, <1>b, Zenon DEF IInv, StopDeleted, SnapshotInv, Reconciling, Visits, Swapping, store
<1>8. ReadyInv'
  BY <1>a, <1>b, Zenon DEF IInv, StopDeleted, ReadyInv, ServedSnapshot
<1>9. DoneInv'
  BY <1>a, <1>b, Zenon DEF IInv, StopDeleted, DoneInv
<1>10. StatusInv'
  BY Zenon DEF IInv, StopDeleted, store, StatusInv
<1> QED BY <1>1, <1>2, <1>3, <1>4, <1>5, <1>6, <1>7, <1>8, <1>9, <1>10, Zenon DEF IInv

\* All deleted listeners are gone.
LEMMA BeginVisitsIInv == ASSUME IInv, BeginVisits PROVE IInv'
<1>1. TypeOK'
  BY Zenon DEF IInv, BeginVisits, store, TypeOK, Awaits, Places
<1>2. StopInv'
  BY Zenon DEF IInv, BeginVisits, StopInv, Visiting, Awaits
<1>3. RunInv'
  BY Zenon DEF IInv, BeginVisits, RunInv, Awaits
<1>4. CandidateInv'
  BY Zenon DEF IInv, BeginVisits, CandidateInv, Visiting, UpToDate, Swapping
<1>5. VisitInv'
  BY Zenon DEF IInv, BeginVisits, VisitInv, Visits, Swapping
<1>6. SnapshotInv'
  BY Zenon DEF IInv, BeginVisits, SnapshotInv, Reconciling, Visits, Swapping, store
<1>7. DoneInv'
  BY Zenon DEF IInv, BeginVisits, DoneInv, Empty
<1>8. OwnerInv' /\ StatusInv' /\ ReadyInv'
  BY Zenon DEF IInv, BeginVisits, store, OwnerInv, StatusInv, ReadyInv, ServedSnapshot, UpToDate
<1> QED BY <1>1, <1>2, <1>3, <1>4, <1>5, <1>6, <1>7, <1>8, Zenon DEF IInv

\* A paused listener is stopped.
LEMMA StopPausedIInv == ASSUME NEW l \in Listeners, IInv, StopPaused(l) PROVE IInv'
<1>a. active[l] # None /\ active' = active /\ snapshot' = snapshot
  BY Zenon DEF StopPaused
<1>b. /\ scanners' \in [Instances -> Scanners \cup {None}]
      /\ OwnerInv'
      /\ \A k \in Listeners : UpToDate(k)' <=> UpToDate(k)
      /\ \A k \in Listeners \ {l} :
            active[k] # None => scanners'[active[k]] = scanners[active[k]]
      /\ stopping' = l /\ pc' = "await visit"
  BY <1>a, StopEffect, Zenon DEF IInv, StopPaused
<1>1. TypeOK'
  BY <1>a, <1>b, Zenon DEF IInv, StopPaused, TypeOK, Places, Awaits, store
<1>2. OwnerInv'
  BY <1>b, Zenon
<1>3. StopInv'
  BY <1>a, <1>b, Zenon DEF IInv, StopPaused, StopInv, Awaits, Visiting
<1>4. RunInv'
  BY <1>a, <1>b, Zenon DEF IInv, StopPaused, RunInv, Awaits
<1>5. CandidateInv'
  BY <1>a, <1>b, Zenon DEF IInv, StopPaused, CandidateInv, Swapping, Visiting
<1>6. VisitInv'
  BY <1>a, <1>b, Zenon DEF IInv, StopPaused, VisitInv, Visits, Swapping
<1>7. SnapshotInv'
  BY <1>a, <1>b, Zenon DEF IInv, StopPaused, SnapshotInv, Reconciling, Visits, Swapping, store
<1>8. ReadyInv'
  BY <1>a, <1>b, Zenon DEF IInv, StopPaused, ReadyInv, ServedSnapshot
<1>9. DoneInv'
  BY <1>a, <1>b, Zenon DEF IInv, StopPaused, DoneInv
<1>10. StatusInv'
  BY Zenon DEF IInv, StopPaused, Visiting, store, StatusInv
<1> QED BY <1>1, <1>2, <1>3, <1>4, <1>5, <1>6, <1>7, <1>8, <1>9, <1>10, Zenon DEF IInv

\* A listener needs nothing.
LEMMA SettledIInv == ASSUME NEW l \in Listeners, IInv, Settled(l) PROVE IInv'
<1>1. TypeOK'
  BY Zenon DEF IInv, Settled, Visited, Visiting, store, TypeOK, Awaits, Places
<1>2. StopInv'
  BY Zenon DEF IInv, Settled, Visited, Visiting, StopInv, Awaits
<1>3. RunInv'
  BY Zenon DEF IInv, Settled, Visited, Visiting, RunInv, Awaits
<1>4. CandidateInv'
  BY Zenon DEF IInv, Settled, Visited, Visiting, CandidateInv, UpToDate, Swapping
<1>5. VisitInv'
  BY Zenon DEF IInv, Settled, Visited, Visiting, VisitInv, Visits, Swapping
<1>6. SnapshotInv'
  BY Zenon DEF IInv, Settled, Visited, Visiting, SnapshotInv, Reconciling, Visits, Swapping, store
<1>7. DoneInv'
  BY Zenon DEF IInv, Settled, Visited, Visiting, DoneInv, Empty
<1>8. OwnerInv' /\ StatusInv' /\ ReadyInv'
  BY Zenon DEF IInv, Settled, Visited, Visiting, store, OwnerInv, StatusInv, ReadyInv,
       ServedSnapshot, UpToDate
<1> QED BY <1>1, <1>2, <1>3, <1>4, <1>5, <1>6, <1>7, <1>8, Zenon DEF IInv

\* A listener waits for its retry.
LEMMA PostponeIInv == ASSUME NEW l \in Listeners, IInv, Postpone(l) PROVE IInv'
<1>1. TypeOK'
  BY Zenon DEF IInv, Postpone, Visited, Visiting, BacksOff, store, TypeOK, Awaits, Places
<1>2. StopInv'
  BY Zenon DEF IInv, Postpone, Visited, Visiting, BacksOff, StopInv, Awaits
<1>3. RunInv'
  BY Zenon DEF IInv, Postpone, Visited, Visiting, BacksOff, RunInv, Awaits
<1>4. CandidateInv'
  BY Zenon DEF IInv, Postpone, Visited, Visiting, BacksOff, CandidateInv, UpToDate, Swapping
<1>5. VisitInv'
  BY Zenon DEF IInv, Postpone, Visited, Visiting, BacksOff, VisitInv, Visits, Swapping
<1>6. SnapshotInv'
  BY Zenon DEF IInv, Postpone, Visited, Visiting, BacksOff, SnapshotInv, Reconciling, Visits,
       Swapping, store
<1>7. DoneInv'
  BY Zenon DEF IInv, Postpone, Visited, Visiting, BacksOff, DoneInv, Empty
<1>8. OwnerInv' /\ StatusInv' /\ ReadyInv'
  BY Zenon DEF IInv, Postpone, Visited, Visiting, BacksOff, store, OwnerInv, StatusInv,
       ReadyInv, ServedSnapshot, UpToDate
<1> QED BY <1>1, <1>2, <1>3, <1>4, <1>5, <1>6, <1>7, <1>8, Zenon DEF IInv

\* A candidate could not be built.
LEMMA BuildFailsIInv == ASSUME NEW l \in Listeners, IInv, BuildFails(l) PROVE IInv'
<1>a. /\ snapshot.rows[l] \in Rows /\ snapshot.rows[l] # None
      /\ snapshot.rows[l].config \in Configs
  BY RowType, Zenon DEF NeedsBuild, Visiting, Visits, BuildFails
<1>1. TypeOK'
  <2> DEFINE config == snapshot.rows[l].config
             n == IF failed[l] # None /\ failed[l].config = config THEN 2 ELSE 1
             f == [config |-> config, attempts |-> n, due |-> FALSE]
  <2>1. f \in Failures /\ failed' = [failed EXCEPT ![l] = f]
    BY <1>a, Zenon DEF BuildFails, Failures
  <2> HIDE DEF f
  <2>2. failed' \in [Listeners -> Failures \cup {None}]
    BY <2>1, Zenon DEF IInv, TypeOK
  <2> QED BY <2>2, Zenon DEF IInv, BuildFails, Visited, TypeOK, Places, store
<1>2. StopInv'
  BY Zenon DEF IInv, BuildFails, Visited, NeedsBuild, Visiting, StopInv, Awaits
<1>3. RunInv'
  BY Zenon DEF IInv, BuildFails, Visited, NeedsBuild, Visiting, RunInv, Awaits
<1>4. CandidateInv'
  BY Zenon DEF IInv, BuildFails, Visited, NeedsBuild, Visiting, CandidateInv, UpToDate, Swapping
<1>5. VisitInv'
  BY Zenon DEF IInv, BuildFails, Visited, NeedsBuild, Visiting, VisitInv, Visits, Swapping
<1>6. SnapshotInv'
  BY Zenon DEF IInv, BuildFails, Visited, NeedsBuild, Visiting, SnapshotInv, Reconciling,
       Visits, Swapping, store
<1>7. DoneInv'
  BY Zenon DEF IInv, BuildFails, Visited, NeedsBuild, Visiting, DoneInv, Empty
<1>8. OwnerInv' /\ StatusInv' /\ ReadyInv'
  BY Zenon DEF IInv, BuildFails, Visited, NeedsBuild, Visiting, store, OwnerInv, StatusInv,
       ReadyInv, ServedSnapshot, UpToDate
<1> QED BY <1>1, <1>2, <1>3, <1>4, <1>5, <1>6, <1>7, <1>8, Zenon DEF IInv

\* A candidate is built.
LEMMA BuildIInv == ASSUME NEW l \in Listeners, IInv, Build(l) PROVE IInv'
<1>a. /\ snapshot.rows[l] \in Rows /\ snapshot.rows[l] # None
      /\ snapshot.rows[l].config \in Configs
  BY RowType, Zenon DEF NeedsBuild, Visiting, Visits, Build
<1>1. TypeOK'
  BY <1>a, Zenon DEF IInv, Build, TypeOK, Places, store
<1>2. StopInv'
  BY Zenon DEF IInv, Build, NeedsBuild, Visiting, StopInv, Awaits
<1>3. RunInv'
  BY Zenon DEF IInv, Build, NeedsBuild, Visiting, RunInv, Awaits
<1>4. CandidateInv'
  <2>1. candidate' # None /\ pc' = "replace"
    BY <1>a, NoneAssumption, Zenon DEF Build
  <2>2. Visiting(l)' /\ ~UpToDate(l)' /\ ~snapshot'.rows[l].paused
          /\ candidate' = snapshot'.rows[l].config
    BY Zenon DEF Build, NeedsBuild, Visiting, UpToDate
  <2> QED BY <2>1, <2>2, Zenon DEF CandidateInv, Swapping
<1>5. VisitInv'
  BY Zenon DEF IInv, Build, NeedsBuild, Visiting, VisitInv, Visits, Swapping
<1>6. SnapshotInv'
  BY Zenon DEF IInv, Build, NeedsBuild, Visiting, SnapshotInv, Reconciling, Visits, Swapping,
       store
<1>7. DoneInv'
  BY Zenon DEF IInv, Build, NeedsBuild, Visiting, DoneInv, Empty
<1>8. OwnerInv' /\ StatusInv' /\ ReadyInv'
  BY Zenon DEF IInv, Build, NeedsBuild, Visiting, store, OwnerInv, StatusInv, ReadyInv,
       ServedSnapshot, UpToDate
<1> QED BY <1>1, <1>2, <1>3, <1>4, <1>5, <1>6, <1>7, <1>8, Zenon DEF IInv

\* A candidate is closed, since the context has ended during its build.
LEMMA DiscardIInv == ASSUME IInv, Discard PROVE IInv'
<1>1. TypeOK'
  BY Zenon DEF IInv, Discard, store, TypeOK, Awaits, Places
<1>2. StopInv'
  BY Zenon DEF IInv, Discard, StopInv, Visiting, Awaits
<1>3. RunInv'
  BY Zenon DEF IInv, Discard, RunInv, Awaits
<1>4. CandidateInv'
  BY Zenon DEF IInv, Discard, CandidateInv, Visiting, UpToDate, Swapping
<1>5. VisitInv'
  BY Zenon DEF IInv, Discard, VisitInv, Visits, Swapping
<1>6. SnapshotInv'
  BY Zenon DEF IInv, Discard, SnapshotInv, Reconciling, Visits, Swapping, store
<1>7. DoneInv'
  BY Zenon DEF IInv, Discard, DoneInv, Empty
<1>8. OwnerInv' /\ StatusInv' /\ ReadyInv'
  BY Zenon DEF IInv, Discard, store, OwnerInv, StatusInv, ReadyInv, ServedSnapshot, UpToDate
<1> QED BY <1>1, <1>2, <1>3, <1>4, <1>5, <1>6, <1>7, <1>8, Zenon DEF IInv

\* The old scanner is stopped for its replacement.
LEMMA ReplaceIInv == ASSUME NEW l \in Listeners, IInv, Replace(l) PROVE IInv'
<1>a. active[l] # None /\ active' = active /\ snapshot' = snapshot
  BY Zenon DEF Replace
<1>b. /\ scanners' \in [Instances -> Scanners \cup {None}]
      /\ OwnerInv'
      /\ \A k \in Listeners : UpToDate(k)' <=> UpToDate(k)
      /\ \A k \in Listeners \ {l} :
            active[k] # None => scanners'[active[k]] = scanners[active[k]]
      /\ stopping' = l /\ pc' = "await replace"
  BY <1>a, StopEffect, Zenon DEF IInv, Replace
<1>1. TypeOK'
  BY <1>a, <1>b, Zenon DEF IInv, Replace, TypeOK, Places, Awaits, store
<1>2. OwnerInv'
  BY <1>b, Zenon
<1>3. StopInv'
  BY <1>a, <1>b, Zenon DEF IInv, Replace, StopInv, Awaits, Visiting
<1>4. RunInv'
  BY <1>a, <1>b, Zenon DEF IInv, Replace, RunInv, Awaits
<1>5. CandidateInv'
  BY <1>a, <1>b, Zenon DEF IInv, Replace, CandidateInv, Swapping, Visiting
<1>6. VisitInv'
  BY <1>a, <1>b, Zenon DEF IInv, Replace, VisitInv, Visits, Swapping
<1>7. SnapshotInv'
  BY <1>a, <1>b, Zenon DEF IInv, Replace, SnapshotInv, Reconciling, Visits, Swapping, store
<1>8. ReadyInv'
  BY <1>a, <1>b, Zenon DEF IInv, Replace, ReadyInv, ServedSnapshot
<1>9. DoneInv'
  BY <1>a, <1>b, Zenon DEF IInv, Replace, DoneInv
<1>10. StatusInv'
  BY Zenon DEF IInv, Replace, Visiting, store, StatusInv
<1> QED BY <1>1, <1>2, <1>3, <1>4, <1>5, <1>6, <1>7, <1>8, <1>9, <1>10, Zenon DEF IInv

\* The candidate is for a listener without a scanner.
LEMMA StartIInv ==
    ASSUME NEW l \in Listeners, NEW i \in Instances, IInv, Start(l, i)
    PROVE  IInv'
<1>a. /\ pc \in {"start", "replace"} /\ Visiting(l) /\ l \in todo /\ scanners[i] = None
      /\ pc' = "visit" /\ todo' = todo \ {l} /\ candidate' = None
      /\ active' = [active EXCEPT ![l] = i]
      /\ failed' = [failed EXCEPT ![l] = None]
      /\ UNCHANGED <<store, cancelled, snapshot, stopping, status>>
  BY Zenon DEF Start, Visited, Visiting
<1>b. /\ active[l] = None /\ candidate = snapshot.rows[l].config
      /\ ~snapshot.rows[l].paused
  <2>1. PICK k \in Listeners :
          /\ Visiting(k) /\ candidate = snapshot.rows[k].config
          /\ ~snapshot.rows[k].paused
          /\ pc = "start" => active[k] = None
    BY <1>a, Zenon DEF IInv, CandidateInv, Swapping
  <2>2. Visiting(l) /\ (pc = "start" \/ active[l] = None)
    BY Zenon DEF Start
  <2>3. k = l
    BY <2>1, <2>2, VisitingUnique, Zenon
  <2> QED BY <2>1, <2>2, <2>3, Zenon
<1>c. snapshot.rows[l] # None /\ candidate \in Configs
  BY <1>a, <1>b, RowType, Zenon DEF Visits, Swapping
<1> DEFINE open == candidate \notin Idle
           s == [id |-> l, config |-> candidate, run |-> "running", open |-> open]
<1>e. scanners' = [scanners EXCEPT ![i] = s]
  BY Zenon DEF Start
<1>d. s \in Scanners /\ s.id = l /\ s.run = "running" /\ s # None
  <2>1. open \in BOOLEAN
    BY Zenon
  <2> HIDE DEF open
  <2>2. s \in Scanners
    BY <1>c, <2>1, Zenon DEF Scanners
  <2> QED BY <2>2, NoneAssumption, Zenon
<1> HIDE DEF s
<1>f. /\ active \in [Listeners -> Instances \cup {None}]
      /\ scanners \in [Instances -> Scanners \cup {None}]
      /\ i # None
  BY NoneAssumption, Zenon DEF IInv, TypeOK
<1>g. /\ active'[l] = i /\ scanners'[i] = s
      /\ \A k \in Listeners \ {l} : active'[k] = active[k] /\ active[k] # i
      /\ \A j \in Instances \ {i} : scanners'[j] = scanners[j]
  BY <1>a, <1>e, <1>f, Zenon DEF IInv, OwnerInv
<1>1. TypeOK'
  BY <1>a, <1>d, <1>e, <1>f, Zenon DEF IInv, TypeOK, Places, store
<1>2. OwnerInv'
  <2>1. ASSUME NEW j \in Instances, scanners'[j] # None PROVE active'[scanners'[j].id] = j
    <3>1. CASE j = i
      BY <1>d, <1>g, <3>1, Zenon
    <3>2. CASE j # i
      <4>1. scanners'[j] = scanners[j] /\ scanners[j] \in Scanners
        BY <1>f, <1>g, <2>1, <3>2, Zenon
      <4>2. scanners[j].id \in Listeners /\ active[scanners[j].id] = j
        BY <2>1, <4>1, Zenon DEF IInv, OwnerInv, Scanners
      <4>3. scanners[j].id # l
        BY <1>b, <4>2, NoneAssumption, Zenon
      <4> QED BY <1>g, <4>1, <4>2, <4>3, Zenon
    <3> QED BY <3>1, <3>2, Zenon
  <2>2. ASSUME NEW k \in Listeners, active'[k] # None
        PROVE  scanners'[active'[k]] # None /\ scanners'[active'[k]].id = k
    BY <1>d, <1>f, <1>g, <2>2 DEF IInv, OwnerInv
  <2> QED BY <2>1, <2>2, Zenon DEF OwnerInv
<1>3. StopInv'
  BY <1>a, Zenon DEF StopInv, Awaits
<1>4. RunInv'
  <2> SUFFICES ASSUME NEW k \in Listeners, active'[k] # None,
                      scanners'[active'[k]].run # "running"
               PROVE  cancelled'
    BY Zenon DEF RunInv
  <2>1. k # l
    BY <1>d, <1>g, Zenon
  <2>2. active[k] # None /\ scanners[active[k]].run # "running"
    BY <1>f, <1>g, <2>1, Zenon
  <2> QED BY <1>a, <2>2, Zenon DEF IInv, RunInv, Awaits
<1>5. CandidateInv'
  BY <1>a, Zenon DEF CandidateInv, Swapping
<1>6. VisitInv'
  <2>1. pc \in Visits
    BY <1>a, Zenon DEF Visits, Swapping
  <2>2. \A k \in todo' : snapshot'.rows[k] # None
    BY <1>a, <2>1, Zenon DEF IInv, VisitInv
  <2>3. ASSUME NEW k \in Listeners \ todo',
               snapshot'.rows[k] = None \/ snapshot'.rows[k].paused
        PROVE  active'[k] = None
    BY <1>a, <1>b, <1>c, <1>g, <2>1, <2>3, Zenon DEF IInv, VisitInv
  <2> QED BY <2>2, <2>3, Zenon DEF VisitInv
<1>7. SnapshotInv'
  BY <1>a, Zenon DEF IInv, SnapshotInv, Reconciling, Visits, Swapping, store
<1>8. StatusInv'
  BY <1>a, <1>b, <1>g, Zenon DEF IInv, StatusInv
<1>9. ReadyInv'
  BY <1>a, <1>b, <1>c, Zenon DEF IInv, ReadyInv, ServedSnapshot, UpToDate
<1>10. DoneInv'
  BY <1>a, Zenon DEF DoneInv
<1> QED BY <1>1, <1>2, <1>3, <1>4, <1>5, <1>6, <1>7, <1>8, <1>9, <1>10, Zenon DEF IInv

\* Every listener has been visited, so the status is true.
LEMMA PublishIInv == ASSUME IInv, Publish PROVE IInv'
<1> DEFINE states == [l \in Listeners |->
                         IF snapshot.rows[l] = None THEN None ELSE StateOf(l)]
           ready == \A l \in Listeners : states[l] \notin {"build-failed", "retrying"}
<1>a. \A l \in Listeners : StateOf(l) \in States
  BY Zenon DEF StateOf, States
<1>b. /\ pc = "visit" /\ todo = {} /\ pc' = "select"
      /\ status' = [complete |-> TRUE, revision |-> snapshot.revision, states |-> states,
                    ready |-> ready]
      /\ UNCHANGED <<store, cancelled, snapshot, todo, stopping, candidate, active, failed,
                     scanners>>
  BY Zenon DEF Publish
<1>c. \A l \in Listeners :
        /\ states[l] = "paused" => snapshot.rows[l] # None /\ snapshot.rows[l].paused
        /\ (states[l] \notin {"build-failed", "retrying"} /\ snapshot.rows[l] # None
              /\ ~snapshot.rows[l].paused) => UpToDate(l)
  BY NoneAssumption, Zenon DEF StateOf, States
<1>d. \A l \in Listeners :
        (snapshot.rows[l] = None \/ snapshot.rows[l].paused) => active[l] = None
  BY <1>b, Zenon DEF IInv, VisitInv, Visits
<1>e. states \in [Listeners -> States \cup {None}] /\ ready \in BOOLEAN
  BY <1>a, Zenon
<1> HIDE DEF states
<1>1. TypeOK'
  <2>1. status' \in Statuses
    BY <1>b, <1>e, Zenon DEF IInv, TypeOK, Statuses
  <2> QED BY <1>b, <2>1, Zenon DEF IInv, TypeOK, Places, store
<1>2. StopInv'
  BY <1>b, Zenon DEF IInv, StopInv, Visiting, Awaits
<1>3. RunInv'
  BY <1>b, Zenon DEF IInv, RunInv, Awaits
<1>4. CandidateInv'
  BY <1>b, Zenon DEF IInv, CandidateInv, Swapping
<1>5. VisitInv'
  BY <1>b, Zenon DEF IInv, VisitInv, Visits, Swapping
<1>6. SnapshotInv'
  BY <1>b, Zenon DEF IInv, SnapshotInv, Reconciling, Visits, store
<1>7. StatusInv'
  <2>1. snapshot.revision <= snapshot.revision
    BY DEF IInv, TypeOK
  <2> QED BY <1>b, <1>c, <1>d, <2>1, Zenon DEF StatusInv
<1>8. ReadyInv'
  <2>1. status'.ready => ServedSnapshot
    BY <1>b, <1>c, <1>d, Zenon DEF ServedSnapshot
  <2> QED BY <1>b, <2>1, Zenon DEF ReadyInv, ServedSnapshot, UpToDate
<1>9. DoneInv'
  BY <1>b, Zenon DEF IInv, DoneInv, Empty
<1>10. OwnerInv'
  BY <1>b, Zenon DEF IInv, OwnerInv
<1> QED BY <1>1, <1>2, <1>3, <1>4, <1>5, <1>6, <1>7, <1>8, <1>9, <1>10, Zenon DEF IInv

\* A scanner is stopped at shutdown.
LEMMA ShutdownStopIInv == ASSUME NEW l \in Listeners, IInv, ShutdownStop(l) PROVE IInv'
<1>a. active[l] # None /\ active' = active /\ snapshot' = snapshot
  BY Zenon DEF ShutdownStop
<1>b. /\ scanners' \in [Instances -> Scanners \cup {None}]
      /\ OwnerInv'
      /\ \A k \in Listeners : UpToDate(k)' <=> UpToDate(k)
      /\ \A k \in Listeners \ {l} :
            active[k] # None => scanners'[active[k]] = scanners[active[k]]
      /\ stopping' = l /\ pc' = "await shutdown"
  BY <1>a, StopEffect, Zenon DEF IInv, ShutdownStop
<1>1. TypeOK'
  BY <1>a, <1>b, Zenon DEF IInv, ShutdownStop, TypeOK, Places, Awaits, store
<1>2. OwnerInv'
  BY <1>b, Zenon
<1>3. StopInv'
  BY <1>a, <1>b, Zenon DEF IInv, ShutdownStop, StopInv, Awaits
<1>4. RunInv'
  BY <1>a, <1>b, Zenon DEF IInv, ShutdownStop, RunInv, Awaits
<1>5. CandidateInv'
  BY <1>a, <1>b, Zenon DEF IInv, ShutdownStop, CandidateInv, Swapping, Visiting
<1>6. VisitInv'
  BY <1>a, <1>b, Zenon DEF IInv, ShutdownStop, VisitInv, Visits, Swapping
<1>7. SnapshotInv'
  BY <1>a, <1>b, Zenon DEF IInv, ShutdownStop, SnapshotInv, Reconciling, Visits, Swapping, store
<1>8. ReadyInv'
  BY <1>a, <1>b, Zenon DEF IInv, ShutdownStop, ReadyInv, ServedSnapshot
<1>9. DoneInv'
  BY <1>a, <1>b, Zenon DEF IInv, ShutdownStop, DoneInv
<1>10. StatusInv'
  BY Zenon DEF IInv, ShutdownStop, store, StatusInv
<1> QED BY <1>1, <1>2, <1>3, <1>4, <1>5, <1>6, <1>7, <1>8, <1>9, <1>10, Zenon DEF IInv

\* The manager returns.
LEMMA ShutdownDoneIInv == ASSUME IInv, ShutdownDone PROVE IInv'
<1>1. TypeOK'
  BY Zenon DEF IInv, ShutdownDone, store, TypeOK, Awaits, Places
<1>2. StopInv'
  BY Zenon DEF IInv, ShutdownDone, StopInv, Visiting, Awaits
<1>3. RunInv'
  BY Zenon DEF IInv, ShutdownDone, RunInv, Awaits
<1>4. CandidateInv'
  BY Zenon DEF IInv, ShutdownDone, CandidateInv, Visiting, UpToDate, Swapping
<1>5. VisitInv'
  BY Zenon DEF IInv, ShutdownDone, VisitInv, Visits, Swapping
<1>6. SnapshotInv'
  BY Zenon DEF IInv, ShutdownDone, SnapshotInv, Reconciling, Visits, Swapping, store
<1>7. DoneInv'
  BY Zenon DEF IInv, ShutdownDone, DoneInv, Empty
<1>8. OwnerInv' /\ StatusInv' /\ ReadyInv'
  BY Zenon DEF IInv, ShutdownDone, store, OwnerInv, StatusInv, ReadyInv, ServedSnapshot, UpToDate
<1> QED BY <1>1, <1>2, <1>3, <1>4, <1>5, <1>6, <1>7, <1>8, Zenon DEF IInv

-----------------------------------------------------------------------------
\* The invariant holds when the process starts.
LEMMA InitIInv == ASSUME Init PROVE IInv
<1>1. TypeOK
  <2>1. /\ Empty \in Tables /\ Empty \in [Listeners -> Instances \cup {None}]
        /\ Empty \in [Listeners -> Failures \cup {None}]
        /\ Empty \in [Listeners -> States \cup {None}]
    BY Zenon DEF Empty, Tables
  <2>2. 0 \in 0..MaxRevision
    BY RuntimeAssumption
  <2>3. snapshot \in [revision : 0..MaxRevision, rows : Tables] /\ status \in Statuses
    BY <2>1, <2>2, Zenon DEF Init, Statuses
  <2>4. scanners \in [Instances -> Scanners \cup {None}]
    BY Zenon DEF Init
  <2> QED BY <2>1, <2>2, <2>3, <2>4, Zenon DEF Init, TypeOK, Places
<1>2. OwnerInv /\ RunInv
  BY Zenon DEF Init, OwnerInv, RunInv, Empty
<1>3. StopInv /\ CandidateInv /\ VisitInv /\ DoneInv
  BY Zenon DEF Init, StopInv, CandidateInv, VisitInv, DoneInv, Awaits, Swapping, Visits
<1>4. SnapshotInv /\ StatusInv /\ ReadyInv
  BY DEF Init, SnapshotInv, StatusInv, ReadyInv, Reconciling, Visits, Swapping
<1> QED BY <1>1, <1>2, <1>3, <1>4, Zenon DEF IInv

\* Nothing happens.
LEMMA StutterIInv == ASSUME IInv, UNCHANGED vars PROVE IInv'
<1>1. TypeOK' /\ OwnerInv' /\ StopInv' /\ RunInv' /\ CandidateInv'
  BY Zenon DEF IInv, vars, store, TypeOK, OwnerInv, StopInv, RunInv, CandidateInv, Visiting,
     UpToDate
<1>2. VisitInv' /\ SnapshotInv' /\ StatusInv' /\ ReadyInv' /\ DoneInv'
  BY Zenon DEF IInv, vars, store, VisitInv, SnapshotInv, StatusInv, ReadyInv, ServedSnapshot,
     UpToDate, DoneInv
<1> QED BY <1>1, <1>2, Zenon DEF IInv

\* Every step keeps the invariant.
LEMMA NextIInv == ASSUME IInv, [Next]_vars PROVE IInv'
<1>1. CASE Administer
  BY <1>1, MutateIInv, Zenon DEF Administer
<1>2. CASE Cancel \/ Wake \/ TakeDone
  BY <1>2, CancelIInv, WakeIInv, TakeDoneIInv, Zenon
<1>3. CASE Proceed
  <2>1. CASE Load \/ Stopped \/ BeginVisits \/ Discard \/ Publish \/ ShutdownDone
    BY Zenon, <2>1, LoadIInv, StoppedIInv, BeginVisitsIInv, DiscardIInv, PublishIInv,
       ShutdownDoneIInv
  <2>2. ASSUME NEW l \in Listeners,
               \/ StopDeleted(l) \/ StopPaused(l) \/ Settled(l) \/ Postpone(l)
               \/ Build(l) \/ Replace(l) \/ ShutdownStop(l)
        PROVE  IInv'
    BY Zenon, <2>2, StopDeletedIInv, StopPausedIInv, SettledIInv, PostponeIInv, BuildIInv,
       ReplaceIInv, ShutdownStopIInv
  <2>3. ASSUME NEW l \in Listeners, NEW i \in Instances, Start(l, i) PROVE IInv'
    BY <2>3, StartIInv, Zenon
  <2> QED BY <1>3, <2>1, <2>2, <2>3, Zenon DEF Proceed
<1>4. CASE Errors
  BY <1>4, LoadFailsIInv, BuildFailsIInv, Zenon DEF Errors
<1>5. CASE \E i \in Instances : Exit(i)
  BY <1>5, ExitIInv, Zenon
<1>6. CASE \E l \in Listeners : RetryDue(l)
  BY <1>6, RetryDueIInv, Zenon
<1>7. CASE Ended \/ UNCHANGED vars
  BY <1>7, StutterIInv, Zenon DEF Ended
<1> QED BY <1>1, <1>2, <1>3, <1>4, <1>5, <1>6, <1>7, Zenon DEF Next

\* The invariant holds in every state.
LEMMA Invariance == Spec => []IInv
  BY InitIInv, NextIInv, PTL DEF Spec

-----------------------------------------------------------------------------
\* The variables have their types in every reachable state of the manager.
THEOREM TypeCorrect == Spec => []TypeOK
<1>1. IInv => TypeOK
  BY Zenon DEF IInv
<1> QED BY <1>1, Invariance, PTL

\* A listener never has two scanner goroutines at once, for any number of
\* listeners, configurations and changes.
THEOREM SingleScanner == Spec => []OneScanner
<1>1. IInv => OneScanner
  BY DEF IInv, OwnerInv, OneScanner
<1> QED BY <1>1, Invariance, PTL

\* Every RPC client keeps an owner that closes it; none is left at the end.
THEOREM ClientsOwned == Spec => []NoClientLeaks
<1>1. ASSUME IInv PROVE NoClientLeaks
  <2>1. candidate # None => pc \in {"replace", "await replace", "start"}
    BY <1>1, Zenon DEF IInv, CandidateInv, Swapping
  <2>2. ASSUME pc = "done" PROVE scanners = [i \in Instances |-> None]
    <3>1. \A i \in Instances : scanners[i] = None
      BY <1>1, <2>2, NoneAssumption DEF IInv, DoneInv, Empty, OwnerInv, TypeOK, Scanners
    <3> QED BY <1>1, <3>1, Zenon DEF IInv, TypeOK
  <2> QED BY <1>1, <2>1, <2>2, Zenon DEF IInv, OwnerInv, NoClientLeaks
<1> QED BY <1>1, Invariance, PTL

\* A status that shows a listener as paused at the current revision may be relied
\* on: the scanner of the listener has returned.
THEOREM PausedStopped == Spec => []PausedIsStopped
<1>1. ASSUME IInv PROVE PausedIsStopped
  <2> SUFFICES ASSUME NEW l \in Listeners, ObservedStopped(l, revision)
               PROVE  /\ desired[l] # None /\ desired[l].paused
                      /\ \A i \in Instances : scanners[i] # None => scanners[i].id # l
    BY Zenon DEF PausedIsStopped
  <2>1. snapshot.revision = revision
    <3>1. snapshot.revision \in Int /\ revision \in Int
      BY <1>1 DEF IInv, TypeOK
    <3> QED BY <1>1, <3>1 DEF IInv, SnapshotInv, StatusInv, ObservedStopped
  <2>2. desired[l] # None /\ desired[l].paused /\ active[l] = None
    BY <1>1, <2>1, Zenon DEF IInv, SnapshotInv, StatusInv, ObservedStopped
  <2> QED BY <1>1, <2>2, NoneAssumption DEF IInv, OwnerInv
<1> QED BY <1>1, Invariance, PTL

\* A ready status of the current revision is true of the scanners.
THEOREM ReadyServed == Spec => []ReadyIsServed
<1>1. ASSUME IInv PROVE ReadyIsServed
  <2> SUFFICES ASSUME status.ready, status.revision = revision, ~cancelled,
                      NEW l \in Listeners
               PROVE  IF desired[l] # None /\ ~desired[l].paused
                      THEN /\ active[l] # None
                           /\ scanners[active[l]].config = desired[l].config
                           /\ scanners[active[l]].run = "running"
                      ELSE active[l] = None
    BY Zenon DEF ReadyIsServed
  <2>1. snapshot.revision = revision /\ snapshot.rows = desired
    <3>1. snapshot.revision \in Int /\ revision \in Int
      BY <1>1 DEF IInv, TypeOK
    <3> QED BY <1>1, <3>1 DEF IInv, SnapshotInv, StatusInv
  <2>2. ServedSnapshot
    BY <1>1, <2>1, Zenon DEF IInv, ReadyInv
  <2>3. CASE desired[l] # None /\ ~desired[l].paused
    <3>1. UpToDate(l)
      BY <2>1, <2>2, <2>3, Zenon DEF ServedSnapshot
    <3>2. ASSUME pc \in Awaits, stopping = l PROVE FALSE
      <4>1. pc = "await replace" /\ Visiting(l)
        BY <1>1, <2>1, <2>3, <3>2, Zenon DEF IInv, StopInv, DoneInv, Awaits
      <4>2. PICK k \in Listeners : Visiting(k) /\ ~UpToDate(k)
        BY <1>1, <4>1, Zenon DEF IInv, CandidateInv, Swapping
      <4> QED BY <3>1, <4>1, <4>2, VisitingUnique, Zenon
    <3>3. scanners[active[l]].run = "running"
      BY <1>1, <3>1, <3>2, Zenon DEF IInv, RunInv, UpToDate
    <3> QED BY <2>1, <2>3, <3>1, <3>3, Zenon DEF UpToDate
  <2>4. CASE ~(desired[l] # None /\ ~desired[l].paused)
    BY <2>1, <2>2, <2>4, Zenon DEF ServedSnapshot
  <2> QED BY <2>3, <2>4, Zenon
<1> QED BY <1>1, Invariance, PTL

-----------------------------------------------------------------------------
\* What KeepsOldScanner says of one step.
Kept ==
    \A l \in Listeners :
        (active[l] # None /\ scanners[active[l]].run = "running"
                         /\ scanners'[active[l]].run = "cancelled")
            => \/ cancelled
               \/ snapshot.rows[l] = None
               \/ snapshot.rows[l].paused
               \/ candidate = snapshot.rows[l].config

\* A stop tells only the scanner of its own listener to end.
LEMMA StopKeeps ==
    ASSUME IInv, NEW l \in Listeners, active[l] # None, NEW await, Stop(l, await),
           active' = active, snapshot' = snapshot,
           \/ cancelled \/ snapshot.rows[l] = None \/ snapshot.rows[l].paused
           \/ candidate = snapshot.rows[l].config
    PROVE  Kept
<1>1. \A k \in Listeners \ {l} :
        active[k] # None => scanners'[active[k]] = scanners[active[k]]
  BY StopEffect, Zenon DEF IInv
<1> QED BY <1>1, Zenon DEF Kept

\* Every step keeps the running scanners it has no reason to stop.
LEMMA NextKeeps == ASSUME IInv, [Next]_vars PROVE Kept
<1>1. CASE scanners' = scanners
  BY <1>1, Zenon DEF Kept
<1>2. ASSUME NEW l \in Listeners,
             StopDeleted(l) \/ StopPaused(l) \/ ShutdownStop(l) \/ Replace(l)
      PROVE  Kept
  <2>1. CASE StopDeleted(l)
    BY <2>1, StopKeeps, Zenon DEF StopDeleted
  <2>2. CASE StopPaused(l)
    BY <2>2, StopKeeps, Zenon DEF StopPaused
  <2>3. CASE ShutdownStop(l)
    BY <2>3, StopKeeps, Zenon DEF ShutdownStop, IInv, DoneInv
  <2>4. CASE Replace(l)
    <3>1. PICK k \in Listeners : Visiting(k) /\ candidate = snapshot.rows[k].config
      BY <2>4, Zenon DEF Replace, IInv, CandidateInv, Swapping
    <3>2. k = l
      BY <2>4, <3>1, VisitingUnique, Zenon DEF Replace
    <3> QED BY <2>4, <3>1, <3>2, StopKeeps, Zenon DEF Replace
  <2> QED BY <1>2, <2>1, <2>2, <2>3, <2>4, Zenon
<1>3. ASSUME NEW i \in Instances, Exit(i) PROVE Kept
  <2>1. /\ scanners'[i].run = "exited"
        /\ \A j \in Instances \ {i} : scanners'[j] = scanners[j]
    BY <1>3, RunChange, Zenon DEF IInv, Exit
  <2> QED BY <2>1, Zenon DEF Kept, IInv, TypeOK
<1>4. ASSUME pc = "load", Reap PROVE Kept
  <2>1. ASSUME NEW l \in Listeners, active[l] # None, scanners[active[l]].run = "running"
        PROVE  scanners'[active[l]] = scanners[active[l]]
    <3>1. active'[l] = active[l]
      BY <1>4, <2>1, Zenon DEF Reap, Exited
    <3> QED BY <1>4, <2>1, <3>1, ReapEffect, Zenon
  <2> QED BY <2>1, Zenon DEF Kept
<1>5. CASE Stopped
  <2>1. /\ pc \in Awaits /\ scanners[active[stopping]].run = "exited"
        /\ scanners' = [scanners EXCEPT ![active[stopping]] = None]
    BY <1>5, Zenon DEF Stopped
  <2> QED BY <2>1, Zenon DEF Kept, IInv, TypeOK
<1>6. ASSUME NEW l \in Listeners, NEW i \in Instances, Start(l, i) PROVE Kept
  <2>1. \A k \in Listeners : active[k] # None => active[k] # i /\ active[k] \in Instances
    BY <1>6, Zenon DEF Start, IInv, OwnerInv, TypeOK
  <2>2. \A j \in Instances \ {i} : scanners'[j] = scanners[j]
    BY <1>6, Zenon DEF Start, IInv, TypeOK
  <2> QED BY <2>1, <2>2, Zenon DEF Kept
<1>7. CASE Administer \/ Cancel \/ Wake \/ TakeDone \/ Ended \/ UNCHANGED vars
  BY <1>1, <1>7, Zenon DEF Administer, Mutate, Cancel, Wake, TakeDone, Ended, vars
<1>8. CASE BeginVisits \/ Discard \/ Publish \/ ShutdownDone
  BY <1>1, <1>8, Zenon DEF BeginVisits, Discard, Publish, ShutdownDone
<1>9. ASSUME NEW l \in Listeners,
             RetryDue(l) \/ Settled(l) \/ Postpone(l) \/ Build(l) \/ BuildFails(l)
      PROVE  Kept
  BY <1>1, <1>9, Zenon DEF RetryDue, Settled, Postpone, Build, BuildFails
<1>10. CASE Load \/ LoadFails
  BY <1>4, <1>10, Zenon DEF Load, LoadFails
<1> QED BY <1>2, <1>3, <1>5, <1>6, <1>7, <1>8, <1>9, <1>10, Zenon DEF Next, Proceed, Errors

\* A scanner is told to stop only for a reason; a failed build of its replacement
\* is none.
THEOREM OldScannerKept == Spec => KeepsOldScanner
<1>1. ASSUME IInv, [Next]_vars
      PROVE  [\A l \in Listeners :
                (active[l] # None /\ scanners[active[l]].run = "running"
                                 /\ scanners'[active[l]].run = "cancelled")
                    => \/ cancelled
                       \/ snapshot.rows[l] = None
                       \/ snapshot.rows[l].paused
                       \/ candidate = snapshot.rows[l].config]_vars
  BY <1>1, NextKeeps, Zenon DEF Kept
<1> QED BY <1>1, Invariance, PTL DEF Spec, KeepsOldScanner

-----------------------------------------------------------------------------
\* What the status says of the configuration only gets newer, and never runs ahead
\* of the database: a client that has seen its change applied keeps seeing it, and
\* a reconcile that fails or is discarded takes nothing back.
StatusInOrder ==
    [][/\ status.complete =>
            status'.complete /\ status.revision <= status'.revision
       /\ status'.complete => status'.revision <= revision'
       /\ revision <= revision']_vars

\* The status is published in the order of the revisions, whatever changes,
\* failures and replacements come between a read and its publication.
THEOREM StatusOrdered == Spec => StatusInOrder
<1> DEFINE Ordered ==
      /\ status.complete =>
            status'.complete /\ status.revision <= status'.revision
      /\ status'.complete => status'.revision <= revision'
      /\ revision <= revision'
<1>1. ASSUME IInv, IInv', [Next]_vars PROVE [Ordered]_vars
  <2> SUFFICES ASSUME Next PROVE Ordered
    BY <1>1, Zenon
  <2>1. /\ status \in Statuses /\ status' \in Statuses
        /\ revision \in 0..MaxRevision /\ revision' \in 0..MaxRevision
        /\ snapshot \in [revision : 0..MaxRevision, rows : Tables]
        /\ snapshot' \in [revision : 0..MaxRevision, rows : Tables]
    BY <1>1, Zenon DEF IInv, TypeOK
  <2>2. /\ status.revision \in 0..MaxRevision /\ status'.revision \in 0..MaxRevision
        /\ snapshot.revision \in 0..MaxRevision /\ snapshot'.revision \in 0..MaxRevision
    BY <2>1, Zenon DEF Statuses
  <2>3. /\ status.complete => status.revision <= snapshot.revision
        /\ status'.complete => status'.revision <= snapshot'.revision
        /\ snapshot'.revision <= revision'
    BY <1>1, Zenon DEF IInv, StatusInv, SnapshotInv
  <2>4. status'.complete => status'.revision <= revision'
    BY <2>1, <2>2, <2>3, RuntimeAssumption
  <2>5. revision' = revision \/ revision' = revision + 1
    BY Zenon DEF Next, Administer, Mutate, Cancel, Wake, TakeDone, Proceed, Errors, Ended,
         Exit, RetryDue, Load, Stopped, BeginVisits, Discard, Publish, ShutdownDone,
         StopDeleted, StopPaused, Settled, Postpone, Build, Replace, ShutdownStop, Start,
         LoadFails, BuildFails, store, vars
  <2>6. revision <= revision'
    BY <2>1, <2>5, RuntimeAssumption
  <2>7. \/ status' = status
        \/ status' = [status EXCEPT !.ready = FALSE]
        \/ status'.complete /\ status'.revision = snapshot.revision
    <3>1. Publish => status'.complete /\ status'.revision = snapshot.revision
      <4> SUFFICES ASSUME Publish
                   PROVE  status'.complete /\ status'.revision = snapshot.revision
        BY Zenon
      <4>1. \E s, r : status' = [complete |-> TRUE, revision |-> snapshot.revision,
                                states |-> s, ready |-> r]
        BY Zenon DEF Publish
      <4> QED BY <4>1
    <3>2. LoadFails => status' = [status EXCEPT !.ready = FALSE]
      BY Zenon DEF LoadFails
    <3>3. Publish \/ LoadFails \/ status' = status
      BY Zenon DEF Next, Administer, Mutate, Cancel, Wake, TakeDone, Proceed, Errors,
           Ended, Exit, RetryDue, Load, Stopped, BeginVisits, Discard, ShutdownDone,
           StopDeleted, StopPaused, Settled, Postpone, Build, Replace, ShutdownStop,
           Start, BuildFails, vars
    <3> QED BY <3>1, <3>2, <3>3, Zenon
  <2>8. ASSUME status.complete
        PROVE  status'.complete /\ status.revision <= status'.revision
    <3>1. status.revision <= status.revision
      BY <2>2, RuntimeAssumption
    <3>2. CASE status' = status
      BY <2>8, <3>1, <3>2, Zenon
    <3>3. CASE status' = [status EXCEPT !.ready = FALSE]
      BY <2>1, <2>8, <3>1, <3>3, Zenon DEF Statuses
    <3>4. CASE status'.complete /\ status'.revision = snapshot.revision
      BY <2>3, <2>8, <3>4, Zenon
    <3> QED BY <2>7, <3>2, <3>3, <3>4, Zenon
  <2> QED BY <2>4, <2>6, <2>8, Zenon
<1> QED BY <1>1, Invariance, PTL DEF Spec, StatusInOrder
=============================================================================
