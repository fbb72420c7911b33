-------------------------- MODULE Backfill_proofs --------------------------
(***************************************************************************)
(* Proofs of the safety properties of Backfill.                            *)
(*                                                                         *)
(* NothingSkipped needs HeldInv: as long as the job the worker holds is    *)
(* running, the copy of its NextBlock is current, because only the worker  *)
(* makes a job running.  FinalStays needs RequestInv: a request has read a *)
(* state that its transition may leave, so the comparison in its update    *)
(* protects the final states.                                              *)
(***************************************************************************)
EXTENDS Backfill, TLAPS

HeldInv ==
    pc # "idle" =>
        /\ \A k \in Ids : In(k, {"running"}) => k = job
        /\ jobs[job].state = "running" => next = jobs[job].next

\* A job that does not exist has stored nothing.
FreshInv == \A j \in Ids : ~Exists(j) => stored[j] = {}

RequestInv == \A h \in Handlers : request[h] # None => request[h].seen \notin Final

IInv == TypeOK /\ Exclusive /\ NothingSkipped /\ HeldInv /\ RequestInv /\ FreshInv

\* An update of the state column of one row.
LEMMA StateChange ==
    ASSUME TypeOK, NEW j \in Ids, Exists(j), NEW s \in States,
           jobs' = [jobs EXCEPT ![j] = [@ EXCEPT !.state = s]]
    PROVE  /\ jobs' \in [Ids -> Jobs \cup {None}]
           /\ \A k \in Ids \ {j} : jobs'[k] = jobs[k]
           /\ jobs'[j] \in Jobs /\ jobs'[j].state = s
           /\ jobs'[j].listener = jobs[j].listener
           /\ jobs'[j].from = jobs[j].from /\ jobs'[j].to = jobs[j].to
           /\ jobs'[j].next = jobs[j].next /\ jobs'[j].processed = jobs[j].processed
<1>1. jobs[j] \in Jobs
  BY Zenon DEF TypeOK, Exists
<1>2. jobs'[j] = [jobs[j] EXCEPT !.state = s]
  BY Zenon DEF TypeOK
<1>3. jobs'[j] \in Jobs
  BY <1>1, <1>2 DEF Jobs
<1>4. jobs' \in [Ids -> Jobs \cup {None}] /\ \A k \in Ids \ {j} : jobs'[k] = jobs[k]
  BY <1>3, Zenon DEF TypeOK
<1> QED BY <1>1, <1>2, <1>3, <1>4, Zenon DEF Jobs

\* Such an update, when the job keeps its distance to the end of its range and
\* nobody else is running or active in its place, preserves the invariants of the
\* table.
LEMMA StateChangeInv ==
    ASSUME IInv, NEW j \in Ids, Exists(j), NEW s \in States,
           jobs' = [jobs EXCEPT ![j] = [@ EXCEPT !.state = s]],
           UNCHANGED stored,
           jobs[j].state # "completed", s # "completed",
           s = "running" => \A k \in Ids \ {j} : ~In(k, {"running"}),
           s \in Active => OneActive(jobs[j].listener, j)
    PROVE  Exclusive' /\ NothingSkipped' /\ \A k \in Ids : Exists(k) => Exists(k)'
<1>1. TypeOK /\ Exclusive /\ NothingSkipped
  BY Zenon DEF IInv
<1>2. /\ \A k \in Ids \ {j} : jobs'[k] = jobs[k]
      /\ jobs'[j] # None /\ jobs'[j].state = s
      /\ jobs'[j].listener = jobs[j].listener
      /\ jobs'[j].from = jobs[j].from /\ jobs'[j].to = jobs[j].to
      /\ jobs'[j].next = jobs[j].next /\ jobs'[j].processed = jobs[j].processed
  BY <1>1, StateChange, NoneAssumption, Zenon
<1>3. Exclusive'
  BY <1>1, <1>2 DEF Exclusive, In, Exists, OneActive
<1>4. NothingSkipped'
  BY <1>1, <1>2 DEF NothingSkipped, Exists
<1> QED BY <1>2, <1>3, <1>4, Zenon DEF Exists

\* There are no jobs.
LEMMA InitIInv == Init => IInv
BY NoneAssumption DEF Init, IInv, TypeOK, Exclusive, NothingSkipped, HeldInv, RequestInv,
    FreshInv, In, Exists

\* The jobs of the requests exist as long as no job is deleted.
LEMMA RequestsKept ==
    ASSUME TypeOK, request' = request, \A k \in Ids : Exists(k) => Exists(k)'
    PROVE  (\A h \in Handlers : request[h] # None => Exists(request[h].job))'
<1> SUFFICES ASSUME NEW h \in Handlers, request[h] # None
             PROVE  Exists(request[h].job)'
  BY Zenon
<1>1. request[h] \in Requests /\ Exists(request[h].job)
  BY Zenon DEF TypeOK
<1>2. request[h].job \in Ids
  BY <1>1, Zenon DEF Requests
<1> QED BY <1>1, <1>2, Zenon

\* A batch n..t of a job f..e that has stored the blocks below n.
LEMMA BatchArithmetic ==
    ASSUME NEW f \in Nat, NEW n \in Nat, NEW t \in Nat, NEW e \in Nat, NEW p \in Nat,
           f <= n, n <= t, t <= e, p = n - f
    PROVE  /\ f..(n - 1) \cup n..t = f..t
           /\ t = (t + 1) - 1
           /\ p + (t - n + 1) = (t + 1) - f
           /\ t + 1 \in f..(e + 1)
           /\ t = e <=> t + 1 = e + 1
OBVIOUS

\* A new job is queued behind no active job of its listener and has stored nothing.
LEMMA CreateIInv ==
    ASSUME IInv, NEW j \in Ids, NEW l \in Listeners, NEW a \in Heights, NEW b \in Heights,
           CreateBackfill(j, l, a, b)
    PROVE  IInv'
<1> DEFINE new == [listener |-> l, from |-> a, to |-> b, next |-> a, processed |-> 0,
                   state |-> "queued"]
<1>1. a \in Nat /\ b \in Nat /\ a <= b
  BY BackfillAssumption, Zenon DEF CreateBackfill, InRange
<1>2. /\ new \in Jobs /\ new # None
      /\ new.listener = l /\ new.from = a /\ new.to = b /\ new.next = a
      /\ new.processed = 0 /\ new.state = "queued"
  BY <1>1, NoneAssumption DEF Jobs, States, Active
<1>3. /\ jobs' \in [Ids -> Jobs \cup {None}] /\ jobs'[j] = new
      /\ \A k \in Ids \ {j} : jobs'[k] = jobs[k]
      /\ stored' = stored /\ request' = request /\ pc' = pc /\ job' = job /\ next' = next
      /\ ~Exists(j) /\ OneActive(l, j)
  BY <1>2, Zenon DEF CreateBackfill, IInv, TypeOK, worker
<1> HIDE DEF new
<1>4. TypeOK'
  <2>1. TypeOK /\ \A k \in Ids : Exists(k) => Exists(k)'
    BY <1>2, <1>3, Zenon DEF IInv, Exists
  <2> QED BY <1>3, <2>1, RequestsKept, Zenon DEF TypeOK
<1>5. Exclusive'
  BY <1>2, <1>3 DEF IInv, Exclusive, In, Exists, OneActive
<1>6. NothingSkipped'
  <2> SUFFICES ASSUME NEW k \in Ids, Exists(k)'
               PROVE  LET r == jobs'[k] IN
                      /\ stored'[k] = r.from..(r.next - 1)
                      /\ r.processed = r.next - r.from
                      /\ r.next \in r.from..(r.to + 1)
                      /\ r.state = "completed" <=> r.next = r.to + 1
    BY Zenon DEF NothingSkipped
  <2>1. CASE k = j
    <3>1. stored[j] = {} /\ a..(a - 1) = {}
      BY <1>1, <1>3 DEF IInv, FreshInv
    <3> QED BY <1>1, <1>2, <1>3, <2>1, <3>1
  <2>2. CASE k # j
    BY <1>3, <2>2 DEF IInv, NothingSkipped, Exists
  <2> QED BY <2>1, <2>2, Zenon
<1>7. HeldInv'
  BY <1>2, <1>3, Zenon DEF IInv, TypeOK, HeldInv, In, Exists
<1>8. RequestInv' /\ FreshInv'
  BY <1>2, <1>3, Zenon DEF IInv, RequestInv, FreshInv, Exists
<1> QED BY <1>4, <1>5, <1>6, <1>7, <1>8, Zenon DEF IInv

\* Reading the state of a job.
LEMMA ReadStateIInv ==
    ASSUME IInv, NEW h \in Handlers, NEW j \in Ids, NEW to \in Targets, ReadState(h, j, to)
    PROVE  IInv'
<1> DEFINE r == [job |-> j, seen |-> jobs[j].state, to |-> to]
<1>1. jobs[j] \in Jobs /\ jobs[j].state \in States /\ jobs[j].state \notin Final
  BY Zenon DEF IInv, TypeOK, ReadState, Exists, Jobs, Allowed, Targets, Final
<1>2. r \in Requests /\ r # None /\ r.job = j /\ r.seen = jobs[j].state
  BY <1>1, NoneAssumption DEF Requests
<1>3. /\ request' \in [Handlers -> Requests \cup {None}] /\ request'[h] = r
      /\ \A k \in Handlers \ {h} : request'[k] = request[k]
      /\ jobs' = jobs /\ stored' = stored /\ pc' = pc /\ job' = job /\ next' = next
      /\ Exists(j)
  BY <1>2, Zenon DEF ReadState, IInv, TypeOK, worker
<1> HIDE DEF r
<1>4. TypeOK'
  BY <1>2, <1>3, Zenon DEF IInv, TypeOK, Exists
<1>5. RequestInv'
  BY <1>1, <1>2, <1>3, Zenon DEF IInv, RequestInv
<1>6. Exclusive' /\ NothingSkipped' /\ HeldInv' /\ FreshInv'
  BY <1>3 DEF IInv, Exclusive, NothingSkipped, HeldInv, FreshInv, In, Exists
<1> QED BY <1>4, <1>5, <1>6, Zenon DEF IInv

\* A request gives up.
LEMMA AbandonIInv ==
    ASSUME IInv, NEW h \in Handlers, Abandon(h)
    PROVE  IInv'
<1>1. /\ request' \in [Handlers -> Requests \cup {None}] /\ request'[h] = None
      /\ \A k \in Handlers \ {h} : request'[k] = request[k]
      /\ jobs' = jobs /\ stored' = stored /\ pc' = pc /\ job' = job /\ next' = next
  BY Zenon DEF Abandon, IInv, TypeOK, worker
<1>2. TypeOK' /\ RequestInv'
  BY <1>1, Zenon DEF IInv, TypeOK, RequestInv, Exists
<1>3. Exclusive' /\ NothingSkipped' /\ HeldInv' /\ FreshInv'
  BY <1>1 DEF IInv, Exclusive, NothingSkipped, HeldInv, FreshInv, In, Exists
<1> QED BY <1>2, <1>3, Zenon DEF IInv

\* The transaction of a request.
LEMMA TransitionIInv ==
    ASSUME IInv, NEW h \in Handlers, Transition(h)
    PROVE  IInv'
<1> DEFINE r == request[h]
<1>1. /\ r \in Requests /\ r.job \in Ids /\ Exists(r.job) /\ r.to \in Targets
      /\ r.seen \notin Final
  BY Zenon DEF IInv, TypeOK, RequestInv, Transition, Requests
<1>2. /\ jobs' = [jobs EXCEPT ![r.job] = [@ EXCEPT !.state = r.to]]
      /\ jobs[r.job].state \notin Final
      /\ r.to \in Active => OneActive(jobs[r.job].listener, r.job)
      /\ stored' = stored /\ pc' = pc /\ job' = job /\ next' = next
  BY <1>1, Zenon DEF Transition, worker
<1>3. /\ request' \in [Handlers -> Requests \cup {None}] /\ request'[h] = None
      /\ \A k \in Handlers \ {h} : request'[k] = request[k]
  BY Zenon DEF Transition, IInv, TypeOK
<1> DEFINE j == r.job
           s == r.to
<1>4. /\ j \in Ids /\ Exists(j) /\ s \in States /\ s \in Targets
      /\ s # "completed" /\ s # "running" /\ jobs[j].state # "completed"
  BY <1>1, <1>2, Zenon DEF Targets, States, Active, Final
<1>5. jobs' = [jobs EXCEPT ![j] = [@ EXCEPT !.state = s]] /\ UNCHANGED stored
        /\ (s \in Active => OneActive(jobs[j].listener, j))
  BY <1>2, Zenon
<1> HIDE DEF r, j, s
<1>6. Exclusive' /\ NothingSkipped' /\ \A k \in Ids : Exists(k) => Exists(k)'
  BY <1>4, <1>5, StateChangeInv, Zenon
<1>7. /\ jobs' \in [Ids -> Jobs \cup {None}]
      /\ \A k \in Ids \ {j} : jobs'[k] = jobs[k]
      /\ jobs'[j].state = s /\ jobs'[j].next = jobs[j].next
  BY <1>4, <1>5, StateChange, Zenon DEF IInv
<1>8. TypeOK'
  BY <1>2, <1>3, <1>6, <1>7 DEF IInv, TypeOK, Exists
<1>9. HeldInv'
  BY <1>2, <1>4, <1>7, Zenon DEF IInv, TypeOK, HeldInv, In, Exists
<1>10. RequestInv'
  BY <1>3, Zenon DEF IInv, RequestInv
<1>11. FreshInv'
  BY <1>2, <1>6, Zenon DEF IInv, FreshInv
<1> QED BY <1>6, <1>8, <1>9, <1>10, <1>11, Zenon DEF IInv

\* The claim: nobody else is running, since the running job comes first.
LEMMA ClaimIInv ==
    ASSUME IInv, NEW j \in Ids, ClaimBackfill(j)
    PROVE  IInv'
<1>1. /\ Exists(j) /\ jobs[j].state \in {"queued", "running"}
      /\ jobs' = [jobs EXCEPT ![j] = [@ EXCEPT !.state = "running"]]
      /\ pc = "idle" /\ pc' = "fetch" /\ job' = j /\ next' = jobs[j].next
      /\ stored' = stored /\ request' = request
  BY Zenon DEF ClaimBackfill, Claimable, In
<1>2. \A k \in Ids \ {j} : ~In(k, {"running"})
  BY <1>1, Zenon DEF ClaimBackfill, Claimable, Before, In, IInv, Exclusive
<1>3. OneActive(jobs[j].listener, j)
  BY <1>1, Zenon DEF OneActive, In, IInv, Exclusive, Active
<1>4. "running" \in States /\ jobs[j].state # "completed"
  BY <1>1, Zenon DEF States, Active
<1>5. Exclusive' /\ NothingSkipped' /\ \A k \in Ids : Exists(k) => Exists(k)'
  BY <1>1, <1>2, <1>3, <1>4, StateChangeInv, Zenon
<1>6. /\ jobs' \in [Ids -> Jobs \cup {None}]
      /\ \A k \in Ids \ {j} : jobs'[k] = jobs[k]
      /\ jobs'[j].state = "running" /\ jobs'[j].next = jobs[j].next
      /\ jobs[j].next \in Nat
  BY <1>1, <1>4, StateChange, Zenon DEF IInv, TypeOK, Exists, Jobs
<1>7. TypeOK'
  BY <1>1, <1>5, <1>6 DEF IInv, TypeOK, Exists
<1>8. HeldInv'
  BY <1>1, <1>2, <1>6, Zenon DEF HeldInv, In, Exists
<1>9. RequestInv' /\ FreshInv'
  BY <1>1, <1>5, Zenon DEF IInv, RequestInv, FreshInv
<1> QED BY <1>5, <1>7, <1>8, <1>9, Zenon DEF IInv

\* The steps that only move the worker on or let it return.
LEMMA FetchIInv ==
    ASSUME IInv, FetchRange \/ SaveRefused
    PROVE  IInv'
<1>1. /\ pc # "idle" /\ pc' \in {"save", "fail"}
      /\ UNCHANGED <<jobs, stored, request, job, next>>
  BY Zenon DEF FetchRange, SaveRefused
<1>2. TypeOK'
  BY <1>1, Zenon DEF IInv, TypeOK, Exists
<1>3. Exclusive' /\ NothingSkipped' /\ HeldInv' /\ RequestInv' /\ FreshInv'
  BY <1>1, Zenon DEF IInv, Exclusive, NothingSkipped, HeldInv, RequestInv, FreshInv, In, Exists
<1> QED BY <1>2, <1>3, Zenon DEF IInv

\* The worker returns without having changed a job.
LEMMA LeaveIInv ==
    ASSUME IInv, Return, UNCHANGED <<jobs, stored, request>>
    PROVE  IInv'
<1>1. TypeOK'
  BY Zenon DEF IInv, TypeOK, Exists, Return
<1>2. Exclusive' /\ NothingSkipped' /\ HeldInv' /\ RequestInv' /\ FreshInv'
  BY DEF IInv, Exclusive, NothingSkipped, HeldInv, RequestInv, FreshInv, In, Exists, Return
<1> QED BY <1>1, <1>2, Zenon DEF IInv

\* The worker marks its job as failed, unless somebody has paused or cancelled it.
LEMMA FailIInv ==
    ASSUME IInv, FailBackfill
    PROVE  IInv'
<1>1. job \in Ids /\ Exists(job) /\ Return /\ UNCHANGED <<stored, request>>
  BY Zenon DEF FailBackfill, IInv, TypeOK
<1>2. CASE jobs[job].state = "running"
  <2>1. jobs' = [jobs EXCEPT ![job] = [@ EXCEPT !.state = "failed"]]
    BY <1>2, Zenon DEF FailBackfill
  <2>2. "failed" \in States /\ "failed" \notin Active /\ jobs[job].state # "completed"
    BY <1>2, Zenon DEF States, Active
  <2>3. Exclusive' /\ NothingSkipped' /\ \A k \in Ids : Exists(k) => Exists(k)'
    BY <1>1, <2>1, <2>2, StateChangeInv, Zenon
  <2>4. jobs' \in [Ids -> Jobs \cup {None}]
    BY <1>1, <2>1, <2>2, StateChange, Zenon DEF IInv
  <2>5. TypeOK'
    BY <1>1, <2>3, <2>4, RequestsKept, Zenon DEF IInv, TypeOK, Return
  <2>6. HeldInv' /\ RequestInv' /\ FreshInv'
    BY <1>1, <2>3, Zenon DEF IInv, HeldInv, RequestInv, FreshInv, Return
  <2> QED BY <2>3, <2>5, <2>6, Zenon DEF IInv
<1>3. CASE jobs[job].state # "running"
  BY <1>1, <1>3, LeaveIInv, Zenon DEF FailBackfill
<1> QED BY <1>2, <1>3, Zenon

\* The stored blocks grow by the batch, which begins where they end.
LEMMA SaveIInv ==
    ASSUME IInv, SaveBackfillBatch
    PROVE  IInv'
<1> DEFINE r == jobs[job]
           t == To
<1>1. /\ job \in Ids /\ Exists(job) /\ r \in Jobs /\ r.state = "running" /\ pc = "save"
      /\ next = r.next /\ next \in Nat
  BY Zenon DEF SaveBackfillBatch, IInv, TypeOK, HeldInv, Exists
<1>2. /\ r.from \in Nat /\ r.to \in Nat /\ r.next \in Nat /\ r.processed \in Nat
      /\ r.listener \in Listeners
  BY <1>1, Zenon DEF Jobs
<1>3. /\ stored[job] = r.from..(r.next - 1) /\ r.processed = r.next - r.from
      /\ r.from <= next /\ next <= r.to
  BY <1>1, <1>2 DEF IInv, NothingSkipped
<1>4. t \in Nat /\ next <= t /\ t <= r.to
  BY <1>1, <1>2, <1>3, BackfillAssumption DEF To
<1> DEFINE s == IF t = r.to THEN "completed" ELSE "running"
           new == [r EXCEPT !.next = t + 1, !.processed = r.processed + (t - next + 1),
                            !.state = s]
<1>5. /\ jobs' = [jobs EXCEPT ![job] = new]
      /\ stored' = [stored EXCEPT ![job] = stored[job] \cup next..t]
  BY Zenon DEF SaveBackfillBatch, Advance
<1>6. Return /\ request' = request
  BY Zenon DEF SaveBackfillBatch
<1> HIDE DEF t
<1>7. s \in States /\ s \in {"completed", "running"} /\ (s = "completed" <=> t = r.to)
  BY Zenon DEF States, Active, Final
<1> HIDE DEF s
<1>8. /\ new \in Jobs /\ new.listener = r.listener /\ new.from = r.from /\ new.to = r.to
      /\ new.next = t + 1 /\ new.processed = r.processed + (t - next + 1) /\ new.state = s
  <2>1. t + 1 \in Nat /\ r.processed + (t - next + 1) \in Nat
    BY <1>1, <1>2, <1>4
  <2> QED BY <1>1, <1>2, <1>7, <2>1, Zenon DEF Jobs
<1>9. /\ r.from..(next - 1) \cup next..t = r.from..t
      /\ t = (t + 1) - 1
      /\ r.processed + (t - next + 1) = (t + 1) - r.from
      /\ t + 1 \in r.from..(r.to + 1)
      /\ t = r.to <=> t + 1 = r.to + 1
  <2> DEFINE f == r.from
             e == r.to
             p == r.processed
  <2>1. /\ f \in Nat /\ e \in Nat /\ p \in Nat /\ next \in Nat /\ t \in Nat
        /\ f <= next /\ next <= t /\ t <= e /\ p = next - f
    BY <1>1, <1>2, <1>3, <1>4, Zenon
  <2> HIDE DEF f, e, p
  <2>2. /\ f..(next - 1) \cup next..t = f..t
        /\ t = (t + 1) - 1
        /\ p + (t - next + 1) = (t + 1) - f
        /\ t + 1 \in f..(e + 1)
        /\ t = e <=> t + 1 = e + 1
    BY <2>1, BatchArithmetic
  <2> QED BY <2>2, Zenon DEF f, e, p
<1> HIDE DEF new
<1>10. /\ jobs' \in [Ids -> Jobs \cup {None}] /\ jobs'[job] = new /\ new # None
       /\ \A k \in Ids \ {job} : jobs'[k] = jobs[k]
  BY <1>1, <1>5, <1>8, NoneAssumption, Zenon DEF IInv, TypeOK
<1>11. /\ stored' \in [Ids -> SUBSET Nat] /\ stored'[job] = r.from..t
       /\ \A k \in Ids \ {job} : stored'[k] = stored[k]
  <2>1. stored' = [stored EXCEPT ![job] = r.from..t]
    BY <1>1, <1>3, <1>5, <1>9, Zenon
  <2>2. r.from..t \in SUBSET Nat
    BY <1>2, <1>4
  <2> QED BY <1>1, <2>1, <2>2, Zenon DEF IInv, TypeOK
<1>12. TypeOK'
  <2>1. TypeOK /\ \A k \in Ids : Exists(k) => Exists(k)'
    BY <1>1, <1>10, Zenon DEF IInv, Exists
  <2> QED BY <1>6, <1>10, <1>11, <2>1, RequestsKept, Zenon DEF TypeOK, Return
<1>13. Exclusive'
  BY <1>1, <1>7, <1>8, <1>10 DEF IInv, Exclusive, In, Exists, Active
<1>14. NothingSkipped'
  <2> SUFFICES ASSUME NEW k \in Ids, Exists(k)'
               PROVE  /\ stored'[k] = jobs'[k].from..(jobs'[k].next - 1)
                      /\ jobs'[k].processed = jobs'[k].next - jobs'[k].from
                      /\ jobs'[k].next \in jobs'[k].from..(jobs'[k].to + 1)
                      /\ jobs'[k].state = "completed" <=> jobs'[k].next = jobs'[k].to + 1
    BY Zenon DEF NothingSkipped
  <2>1. CASE k = job
    <3>1. jobs'[k] = new /\ stored'[k] = r.from..t
      BY <1>10, <1>11, <2>1, Zenon
    <3>2. stored'[k] = r.from..((t + 1) - 1)
      BY <1>9, <3>1, Zenon
    <3>3. r.processed + (t - next + 1) = (t + 1) - r.from /\ (s = "completed" <=> t + 1 = r.to + 1)
      BY <1>7, <1>9, Zenon
    <3> QED BY <1>8, <1>9, <3>1, <3>2, <3>3, Zenon
  <2>2. CASE k # job
    BY <1>10, <1>11, <2>2 DEF IInv, NothingSkipped, Exists
  <2> QED BY <2>1, <2>2, Zenon
<1>15. HeldInv' /\ RequestInv' /\ FreshInv'
  BY <1>6, <1>10, <1>11, Zenon DEF IInv, HeldInv, RequestInv, FreshInv, Return, Exists
<1> QED BY <1>12, <1>13, <1>14, <1>15, Zenon DEF IInv

-----------------------------------------------------------------------------
\* The invariant is inductive.
LEMMA NextIInv == IInv /\ [Next]_vars => IInv'
<1> SUFFICES ASSUME IInv, [Next]_vars PROVE IInv'
  BY Zenon
<1>1. CASE \E j \in Ids : ClaimBackfill(j)
  BY <1>1, ClaimIInv, Zenon
<1>2. CASE FetchRange \/ SaveRefused
  BY <1>2, FetchIInv, Zenon
<1>3. CASE SaveBackfillBatch
  BY <1>3, SaveIInv, Zenon
<1>4. CASE FailBackfill
  BY <1>4, FailIInv, Zenon
<1>5. CASE Leave
  BY <1>5, LeaveIInv, Zenon DEF Leave
<1>6. CASE Administer
  BY <1>6, CreateIInv, ReadStateIInv, TransitionIInv, AbandonIInv, Zenon DEF Administer
<1>7. CASE NothingToClaim \/ UNCHANGED vars
  BY <1>7 DEF NothingToClaim, vars, worker, IInv, TypeOK, Exclusive, NothingSkipped, HeldInv,
     RequestInv, FreshInv, In, Exists
<1> QED BY <1>1, <1>2, <1>3, <1>4, <1>5, <1>6, <1>7, Zenon DEF Next, Work

\* The invariant holds in every state.
LEMMA Invariance == Spec => []IInv
BY InitIInv, NextIInv, PTL DEF Spec

\* The columns have their types, and the worker and the requests work on jobs that
\* exist, for any number of jobs, listeners and requests.
THEOREM TypeCorrect == Spec => []TypeOK
<1>1. IInv => TypeOK
  BY Zenon DEF IInv
<1> QED BY <1>1, Invariance, PTL

\* One running job in the engine and one active job per listener: the claim prefers
\* the running job, and the unique index guards every other change.
THEOREM JobsExclusive == Spec => []Exclusive
<1>1. IInv => Exclusive
  BY Zenon DEF IInv
<1> QED BY <1>1, Invariance, PTL

\* No block of a job is skipped or counted twice, whatever requests, failures and
\* restarts come between the read of a batch and its transaction.
THEOREM JobsComplete == Spec => []NothingSkipped
<1>1. IInv => NothingSkipped
  BY Zenon DEF IInv
<1> QED BY <1>1, Invariance, PTL

\* Completed and cancelled jobs never change again.
THEOREM FinalKept == Spec => FinalStays
<1> DEFINE Kept == \A j \in Ids : In(j, Final) => jobs'[j] = jobs[j] /\ stored'[j] = stored[j]
<1>1. IInv /\ [Next]_vars => [Kept]_vars
  <2> SUFFICES ASSUME IInv, Next, NEW j \in Ids, In(j, Final)
               PROVE  jobs'[j] = jobs[j] /\ stored'[j] = stored[j]
    BY Zenon
  <2>1. TypeOK /\ jobs[j] # None /\ jobs[j].state \in Final
    BY Zenon DEF IInv, In, Exists
  <2>2. CASE \E k \in Ids : ClaimBackfill(k)
    BY <2>1, <2>2, Zenon DEF ClaimBackfill, Claimable, In, TypeOK, Final
  <2>3. CASE FetchRange \/ SaveRefused \/ Leave \/ NothingToClaim
    BY <2>3, Zenon DEF FetchRange, SaveRefused, Leave, NothingToClaim, vars
  <2>4. CASE SaveBackfillBatch
    BY <2>1, <2>4, Zenon DEF SaveBackfillBatch, Advance, TypeOK, Final
  <2>5. CASE FailBackfill
    BY <2>1, <2>5, Zenon DEF FailBackfill, TypeOK, Final
  <2>6. CASE Administer
    <3>1. CASE \E k \in Ids, l \in Listeners, a, b \in Heights : CreateBackfill(k, l, a, b)
      BY <2>1, <3>1, Zenon DEF CreateBackfill, Exists, TypeOK
    <3>2. CASE \E h \in Handlers : Transition(h)
      BY <2>1, <3>2, Zenon DEF Transition, IInv, RequestInv, TypeOK
    <3>3. CASE \E h \in Handlers : Abandon(h)
      BY <3>3, Zenon DEF Abandon
    <3>4. CASE \E h \in Handlers, k \in Ids, to \in Targets : ReadState(h, k, to)
      BY <3>4, Zenon DEF ReadState
    <3> QED BY <2>6, <3>1, <3>2, <3>3, <3>4, Zenon DEF Administer
  <2> QED BY <2>2, <2>3, <2>4, <2>5, <2>6, Zenon DEF Next, Work
<1> QED BY <1>1, Invariance, PTL DEF Spec, FinalStays

\* A step keeps the progress of every job: the row stays, its listener and range
\* never change, its next block never moves back and moves by at most one batch,
\* only a running job moves, and what it stores are exactly the blocks it moves
\* past.  Requests, resumes after a failure and restarts are steps too: none of
\* them makes a job start over.
ProgressKept ==
    [][\A j \in Ids : Exists(j) =>
         /\ Exists(j)'
         /\ jobs'[j].listener = jobs[j].listener
         /\ jobs'[j].from = jobs[j].from /\ jobs'[j].to = jobs[j].to
         /\ jobs'[j].next - jobs[j].next \in 0..BatchSize
         /\ jobs'[j].next # jobs[j].next => jobs[j].state = "running"
         /\ stored'[j] \ stored[j] = jobs[j].next..(jobs'[j].next - 1)
         /\ stored[j] \subseteq stored'[j]]_vars

\* A job that a step leaves where it is.
LEMMA SameProgress ==
    ASSUME IInv, NEW j \in Ids, Exists(j), jobs'[j] # None,
           jobs'[j].listener = jobs[j].listener,
           jobs'[j].from = jobs[j].from, jobs'[j].to = jobs[j].to,
           jobs'[j].next = jobs[j].next, stored'[j] = stored[j]
    PROVE  /\ Exists(j)'
           /\ jobs'[j].listener = jobs[j].listener
           /\ jobs'[j].from = jobs[j].from /\ jobs'[j].to = jobs[j].to
           /\ jobs'[j].next - jobs[j].next \in 0..BatchSize
           /\ jobs'[j].next # jobs[j].next => jobs[j].state = "running"
           /\ stored'[j] \ stored[j] = jobs[j].next..(jobs'[j].next - 1)
           /\ stored[j] \subseteq stored'[j]
<1>1. jobs[j].next \in Nat
  BY Zenon DEF IInv, TypeOK, Exists, Jobs
<1>2. jobs'[j].next - jobs[j].next \in 0..BatchSize
  BY <1>1, BackfillAssumption
<1>3. jobs[j].next..(jobs[j].next - 1) = {}
  BY <1>1
<1> QED BY <1>2, <1>3, Zenon DEF Exists

\* The batch of the worker.
LEMMA BatchProgress ==
    ASSUME IInv, SaveBackfillBatch, NEW j \in Ids, Exists(j)
    PROVE  /\ jobs'[j] # None
           /\ jobs'[j].listener = jobs[j].listener
           /\ jobs'[j].from = jobs[j].from /\ jobs'[j].to = jobs[j].to
           /\ IF j = job
              THEN /\ jobs[j].state = "running"
                   /\ jobs'[j].next - jobs[j].next \in 0..BatchSize
                   /\ stored'[j] \ stored[j] = jobs[j].next..(jobs'[j].next - 1)
                   /\ stored[j] \subseteq stored'[j]
              ELSE jobs'[j].next = jobs[j].next /\ stored'[j] = stored[j]
<1>1. /\ jobs \in [Ids -> Jobs \cup {None}] /\ jobs[j] \in Jobs /\ job \in Ids
      /\ stored \in [Ids -> SUBSET Nat] /\ jobs[job].state = "running" /\ Advance
      /\ next = jobs[job].next
  BY Zenon DEF SaveBackfillBatch, IInv, TypeOK, Exists, HeldInv
<1>2. CASE j # job
  BY <1>1, <1>2, Zenon DEF Advance, Exists
<1>3. CASE j = job
  <2> DEFINE t == To
             p == jobs[job].processed + (t - next + 1)
             s == IF t = jobs[job].to THEN "completed" ELSE "running"
  <2>0. jobs'[j] = [jobs[j] EXCEPT !.next = t + 1, !.processed = p, !.state = s]
    BY <1>1, <1>3, Zenon DEF Advance
  <2> HIDE DEF t, p, s
  <2>1. /\ jobs'[j].listener = jobs[j].listener
        /\ jobs'[j].from = jobs[j].from /\ jobs'[j].to = jobs[j].to
        /\ jobs'[j].next = t + 1
    BY <1>1, <2>0, Zenon DEF Jobs
  <2>2. stored'[j] = stored[j] \cup next..t
    BY <1>1, <1>3, Zenon DEF Advance, t
  <2>3. /\ stored[j] = jobs[j].from..(jobs[j].next - 1)
        /\ jobs[j].next \in jobs[j].from..(jobs[j].to + 1)
        /\ jobs[j].next # jobs[j].to + 1
    BY <1>1, <1>3, Zenon DEF IInv, NothingSkipped
  <2>4. jobs[j].next \in Nat /\ jobs[j].to \in Nat /\ jobs[j].from \in Nat
    BY <1>1, Zenon DEF Jobs
  <2>5. t \in Nat /\ t >= next /\ t <= next + BatchSize - 1
    BY <1>1, <1>3, <2>3, <2>4, BackfillAssumption DEF To, t
  <2> DEFINE n == jobs[j].next
             f == jobs[j].from
  <2>6. next = n /\ n \in Nat /\ f \in Nat /\ stored[j] = f..(n - 1)
    BY <1>1, <1>3, <2>3, <2>4, Zenon
  <2> HIDE DEF n, f
  <2>7. stored'[j] \ stored[j] = n..(t + 1 - 1)
    BY <2>2, <2>5, <2>6
  <2>8. t + 1 - n \in 0..BatchSize
    BY <2>5, <2>6, BackfillAssumption
  <2>9. jobs'[j] # None
    <3>1. p \in Nat /\ t + 1 \in Nat
      BY <1>1, <1>3, <2>4, <2>5 DEF p, Jobs
    <3>2. s \in States
      BY Zenon DEF s, States, Active, Final
    <3>3. jobs'[j] \in Jobs
      BY <1>1, <2>0, <3>1, <3>2, Zenon DEF Jobs
    <3> QED BY <3>3, NoneAssumption, Zenon
  <2>10. /\ jobs'[j].next - jobs[j].next \in 0..BatchSize
         /\ stored'[j] \ stored[j] = jobs[j].next..(jobs'[j].next - 1)
    BY <2>1, <2>4, <2>5, <2>7, <2>8 DEF n
  <2>11. stored[j] \subseteq stored'[j]
    BY <2>2, Zenon
  <2> QED BY <1>1, <1>3, <2>1, <2>9, <2>10, <2>11, Zenon
<1> QED BY <1>2, <1>3, Zenon

\* A job never starts over and never skips ahead.
THEOREM JobsAdvance == Spec => ProgressKept
<1> DEFINE Kept(j) ==
             /\ Exists(j)'
             /\ jobs'[j].listener = jobs[j].listener
             /\ jobs'[j].from = jobs[j].from /\ jobs'[j].to = jobs[j].to
             /\ jobs'[j].next - jobs[j].next \in 0..BatchSize
             /\ jobs'[j].next # jobs[j].next => jobs[j].state = "running"
             /\ stored'[j] \ stored[j] = jobs[j].next..(jobs'[j].next - 1)
             /\ stored[j] \subseteq stored'[j]
<1>1. ASSUME IInv, [Next]_vars
      PROVE  [\A j \in Ids : Exists(j) => Kept(j)]_vars
  <2> SUFFICES ASSUME Next, NEW j \in Ids, Exists(j) PROVE Kept(j)
    BY <1>1, Zenon
  <2>1. TypeOK /\ jobs \in [Ids -> Jobs \cup {None}]
    BY <1>1, Zenon DEF IInv, TypeOK
  <2>2. CASE UNCHANGED <<jobs, stored>>
    <3>1. jobs'[j] = jobs[j] /\ stored'[j] = stored[j] /\ jobs[j] # None
      BY <2>2, Zenon DEF Exists
    <3> QED BY <1>1, <3>1, SameProgress, Zenon
  <2>3. ASSUME NEW i \in Ids, NEW s \in States, Exists(i), UNCHANGED stored,
               jobs' = [jobs EXCEPT ![i] = [@ EXCEPT !.state = s]]
        PROVE  Kept(j)
    <3>1. /\ jobs'[j] # None /\ jobs'[j].listener = jobs[j].listener
          /\ jobs'[j].from = jobs[j].from /\ jobs'[j].to = jobs[j].to
          /\ jobs'[j].next = jobs[j].next /\ stored'[j] = stored[j]
      BY <2>1, <2>3, StateChange, NoneAssumption, Zenon DEF Exists
    <3> QED BY <1>1, <3>1, SameProgress, Zenon
  <2>4. CASE \E k \in Ids : ClaimBackfill(k)
    BY <2>3, <2>4, Zenon DEF ClaimBackfill, Claimable, In, States, Active
  <2>5. CASE SaveBackfillBatch
    <3>1. CASE j = job
      BY <1>1, <2>5, <3>1, BatchProgress, Zenon DEF Exists
    <3>2. CASE j # job
      BY <1>1, <2>5, <3>2, BatchProgress, SameProgress, Zenon
    <3> QED BY <3>1, <3>2, Zenon
  <2>6. CASE FailBackfill
    <3>1. job \in Ids /\ Exists(job)
      BY <2>1, <2>6, Zenon DEF FailBackfill, TypeOK
    <3> QED BY <2>2, <2>3, <2>6, <3>1, Zenon DEF FailBackfill, States
  <2>7. CASE \E k \in Ids, l \in Listeners, a, b \in Heights : CreateBackfill(k, l, a, b)
    <3>1. jobs'[j] = jobs[j] /\ stored'[j] = stored[j] /\ jobs[j] # None
      BY <2>1, <2>7, Zenon DEF CreateBackfill, Exists
    <3> QED BY <1>1, <3>1, SameProgress, Zenon
  <2>8. CASE \E h \in Handlers : Transition(h)
    <3>1. PICK h \in Handlers : Transition(h)
      BY <2>8, Zenon
    <3>2. /\ request[h].job \in Ids /\ Exists(request[h].job)
          /\ request[h].to \in States
      BY <2>1, <3>1, Zenon DEF Transition, TypeOK, Requests, Targets, States, Active, Final
    <3> QED BY <2>3, <3>1, <3>2, Zenon DEF Transition
  <2> QED BY <2>2, <2>4, <2>5, <2>6, <2>7, <2>8, Zenon
        DEF Next, Work, Administer, FetchRange, SaveRefused, Leave, NothingToClaim, vars,
            ReadState, Abandon
<1> QED BY <1>1, Invariance, PTL DEF Spec, ProgressKept
=============================================================================
