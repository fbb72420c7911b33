------------------------------ MODULE Backfill ------------------------------
(***************************************************************************)
(* Backfill jobs: the backfill_jobs table, the administrators that create, *)
(* pause, resume and cancel jobs, and the one worker goroutine that        *)
(* advances them batch by batch.                                           *)
(*                                                                         *)
(* A request of an administrator reads the state of the job and updates it *)
(* in a later transaction.  The worker claims a job, works with the copy   *)
(* of the row it read then, and stores the batch in another transaction;   *)
(* requests may come between any two of these steps.  What a batch stores  *)
(* is left to module BackfillIndex.                                        *)
(***************************************************************************)
EXTENDS Integers

CONSTANTS
    Ids,            \* job identities, in the order of created_at
    Listeners,      \* the listeners of the captured configurations
    Heights,        \* the block numbers a request may name
    StartBlock,     \* RPCListener.StartBlock
    BatchSize,      \* RPCListener.BatchSize
    MaxRange,       \* BackfillConfig.MaxRange
    Handlers,       \* concurrent requests that change a job
    None

ASSUME BackfillAssumption ==
    /\ Ids \subseteq Nat /\ Heights \subseteq Nat
    /\ StartBlock \in Nat /\ BatchSize \in Nat \ {0} /\ MaxRange \in Nat

VARIABLES
    jobs,           \* the rows of backfill_jobs
    stored,         \* history: the blocks whose events a job has stored
    request,        \* the requests that have read the state of their job
    pc,             \* the step of runOne the worker is at
    job,            \* the job runOne works on
    next            \* its NextBlock, as it was when the job was claimed

worker == <<pc, job, next>>
vars == <<jobs, stored, request, worker>>

Active == {"queued", "running", "paused"}
Final == {"completed", "cancelled"}
States == Active \cup Final \cup {"failed"}
Jobs == [listener : Listeners, from : Nat, to : Nat, next : Nat, processed : Nat,
         state : States]
\* TransitionBackfill: the states a request may lead to, and from which.
Targets == {"paused", "queued", "cancelled"}
Requests == [job : Ids, seen : States, to : Targets]

ASSUME NoneAssumption ==
    /\ None \notin Ids /\ None \notin Jobs /\ None \notin Requests

Exists(j) == jobs[j] # None
In(j, states) == Exists(j) /\ jobs[j].state \in states

Init ==
    /\ jobs = [j \in Ids |-> None] /\ stored = [j \in Ids |-> {}]
    /\ request = [h \in Handlers |-> None]
    /\ pc = "idle" /\ job = None /\ next = 0

-----------------------------------------------------------------------------
\* The administrators

\* backfill_one_active_listener_idx: no other active job of the listener.
OneActive(l, j) == \A k \in Ids \ {j} : In(k, Active) => jobs[k].listener # l

\* prepareBackfill: the ranges that are not refused.
InRange(a, b) == a >= StartBlock /\ b >= a /\ b - a + 1 <= MaxRange

\* CreateBackfill, refused for a listener with an active job.
CreateBackfill(j, l, a, b) ==
    /\ ~Exists(j) /\ \A k \in Ids : Exists(k) => k < j
    /\ InRange(a, b) /\ OneActive(l, j)
    /\ jobs' = [jobs EXCEPT ![j] = [listener |-> l, from |-> a, to |-> b, next |-> a,
                                    processed |-> 0, state |-> "queued"]]
    /\ UNCHANGED <<stored, request, worker>>

Allowed(seen, to) ==
    CASE to = "paused" -> seen \in {"queued", "running"}
      [] to = "queued" -> seen \in {"paused", "failed"}
      [] to = "cancelled" -> seen \in {"queued", "running", "paused", "failed"}

\* TransitionBackfill up to its transaction; a transition that is not allowed is
\* refused here.
ReadState(h, j, to) ==
    /\ request[h] = None
    /\ Exists(j) /\ Allowed(jobs[j].state, to)
    /\ request' = [request EXCEPT ![h] = [job |-> j, seen |-> jobs[j].state, to |-> to]]
    /\ UNCHANGED <<jobs, stored, worker>>

\* Mutant of Transition: the state is not compared with the one that was read.
TransitionUnchecked(h) ==
    LET r == request[h] IN
    /\ r # None
    /\ r.to \in Active => OneActive(jobs[r.job].listener, r.job)
    /\ jobs' = [jobs EXCEPT ![r.job] = [@ EXCEPT !.state = r.to]]
    /\ request' = [request EXCEPT ![h] = None]
    /\ UNCHANGED <<stored, worker>>

\* Its transaction: the update names the state that was read, and the index may
\* refuse it.
Transition(h) ==
    LET r == request[h] IN
    /\ r # None
    /\ jobs[r.job].state = r.seen
    /\ r.to \in Active => OneActive(jobs[r.job].listener, r.job)
    /\ jobs' = [jobs EXCEPT ![r.job] = [@ EXCEPT !.state = r.to]]
    /\ request' = [request EXCEPT ![h] = None]
    /\ UNCHANGED <<stored, worker>>

\* The request ends without effect: refused by its transaction, failed, or lost
\* with the process.
Abandon(h) ==
    /\ request[h] # None
    /\ request' = [request EXCEPT ![h] = None]
    /\ UNCHANGED <<jobs, stored, worker>>

-----------------------------------------------------------------------------
\* The worker

\* Mutant of Before: the running job waits for the queued ones.
BeforeQueued(j, k) ==
    IF jobs[j].state = jobs[k].state THEN j <= k ELSE jobs[j].state = "queued"

\* The order of ClaimBackfill: the running job, then the oldest queued one.
Before(j, k) ==
    IF jobs[j].state = jobs[k].state THEN j <= k ELSE jobs[j].state = "running"

Claimable == {j \in Ids : In(j, {"queued", "running"})}

ClaimBackfill(j) ==
    /\ pc = "idle"
    /\ j \in Claimable /\ \A k \in Claimable : Before(j, k)
    /\ jobs' = [jobs EXCEPT ![j] = [@ EXCEPT !.state = "running"]]
    /\ pc' = "fetch" /\ job' = j /\ next' = jobs[j].next
    /\ UNCHANGED <<stored, request>>

\* ClaimBackfill finds no job.
NothingToClaim == pc = "idle" /\ Claimable = {} /\ UNCHANGED vars

\* The last block of the batch.
To == IF next + BatchSize - 1 > jobs[job].to THEN jobs[job].to ELSE next + BatchSize - 1

\* runOne returns; the ticker calls it again.
Return == pc' = "idle" /\ job' = None /\ next' = 0

\* Decoder, secret, connection and FetchRange succeed, or one of them fails.
FetchRange ==
    /\ pc = "fetch"
    /\ pc' \in {"save", "fail"}
    /\ UNCHANGED <<jobs, stored, request, job, next>>

\* Mutant of Advance: the block after the batch is left out.
AdvanceTooFar ==
    /\ jobs' = [jobs EXCEPT ![job] = [@ EXCEPT
           !.next = IF To = jobs[job].to THEN To + 1 ELSE next + BatchSize + 1,
           !.processed = jobs[job].processed + (To - next + 1),
           !.state = IF To = jobs[job].to THEN "completed" ELSE "running"]]
    /\ stored' = [stored EXCEPT ![job] = stored[job] \cup next..To]

\* The update of SaveBackfillBatch.
Advance ==
    /\ jobs' = [jobs EXCEPT ![job] = [@ EXCEPT
           !.next = To + 1,
           !.processed = jobs[job].processed + (To - next + 1),
           !.state = IF To = jobs[job].to THEN "completed" ELSE "running"]]
    /\ stored' = [stored EXCEPT ![job] = stored[job] \cup next..To]

\* SaveBackfillBatch: the events and the progress of the job in one transaction,
\* which is rolled back unless the job is still running.
SaveBackfillBatch ==
    /\ pc = "save" /\ jobs[job].state = "running"
    /\ Advance
    /\ Return
    /\ UNCHANGED request

\* The transaction is rolled back: the job is not running any more, an event is in
\* conflict with what is stored, or the database fails.
SaveRefused ==
    /\ pc = "save"
    /\ pc' = "fail"
    /\ UNCHANGED <<jobs, stored, request, job, next>>

\* Mutant of FailBackfill: the failure is not recorded.
FailBackfillUnrecorded ==
    /\ pc = "fail"
    /\ Return
    /\ UNCHANGED <<jobs, stored, request>>

\* FailBackfill: only a running job fails.
FailBackfill ==
    /\ pc = "fail"
    /\ jobs' = IF jobs[job].state = "running"
               THEN [jobs EXCEPT ![job] = [@ EXCEPT !.state = "failed"]] ELSE jobs
    /\ Return
    /\ UNCHANGED <<stored, request>>

\* runOne returns and leaves the job as it is: a request that timed out, a context
\* that ended, a failed FailBackfill, or a crash and restart of the process.
Leave ==
    /\ pc # "idle"
    /\ Return
    /\ UNCHANGED <<jobs, stored, request>>

-----------------------------------------------------------------------------
Work ==
    \/ \E j \in Ids : ClaimBackfill(j)
    \/ FetchRange \/ SaveBackfillBatch \/ SaveRefused \/ FailBackfill

Administer ==
    \/ \E j \in Ids, l \in Listeners, a, b \in Heights : CreateBackfill(j, l, a, b)
    \/ \E h \in Handlers : Transition(h) \/ Abandon(h)
    \/ \E h \in Handlers, j \in Ids, to \in Targets : ReadState(h, j, to)

Next == Work \/ Administer \/ Leave \/ NothingToClaim

Spec == Init /\ [][Next]_vars

\* Run calls runOne at every tick, and every RPC and transaction ends.
FairSpec == Spec /\ WF_vars(Work)

-----------------------------------------------------------------------------
\* Properties

\* The columns have their types, and the worker and the requests work on jobs that
\* exist.
TypeOK ==
    /\ jobs \in [Ids -> Jobs \cup {None}]
    /\ stored \in [Ids -> SUBSET Nat]
    /\ request \in [Handlers -> Requests \cup {None}]
    /\ \A h \in Handlers : request[h] # None => Exists(request[h].job)
    /\ pc \in {"idle", "fetch", "save", "fail"} /\ next \in Nat
    /\ IF pc = "idle" THEN job = None ELSE job \in Ids /\ Exists(job)

\* At most one job is running in the whole engine and one job is active per
\* listener, whatever pauses, resumes, failures and restarts come in between:
\* what ErrActiveBackfill and the single worker promise.
Exclusive ==
    \A j, k \in Ids :
        j # k => /\ ~(In(j, {"running"}) /\ In(k, {"running"}))
                 /\ In(j, Active) /\ In(k, Active) => jobs[j].listener # jobs[k].listener

\* TestBackfillMissingIsAtomicIdempotentAndResumable: a job has stored exactly the
\* blocks below its NextBlock, counted each of them once, and is completed exactly
\* when that is its whole range.
NothingSkipped ==
    \A j \in Ids : Exists(j) =>
        LET r == jobs[j] IN
        /\ stored[j] = r.from..(r.next - 1)
        /\ r.processed = r.next - r.from
        /\ r.next \in r.from..(r.to + 1)
        /\ r.state = "completed" <=> r.next = r.to + 1

\* A job that was completed or cancelled never changes again, although the worker
\* and other requests may have read it before.
FinalStays ==
    [][\A j \in Ids : In(j, Final) => jobs'[j] = jobs[j] /\ stored'[j] = stored[j]]_vars

\* Once requests, timeouts and crashes stop, every job ends: none waits for ever
\* behind another one.
Calm == <>[][Work]_vars
Drains == Calm => <>[](\A j \in Ids : ~In(j, {"queued", "running"}))
=============================================================================
