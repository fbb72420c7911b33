--------------------------- MODULE Outbox_proofs ---------------------------
(***************************************************************************)
(* Proofs about Outbox, for any events, destinations, processes, options.  *)
(*                                                                         *)
(* The inductive invariant adds to the properties what a job knows while   *)
(* its token is still the token of its row: the row is as it was claimed,  *)
(* and its lease outlasts the request if the claim was not late.           *)
(***************************************************************************)
EXTENDS Outbox, TLAPS, FiniteSetTheorems

\* A job whose token is the token of its row.
HeldInv ==
    \A j \in jobs : deliveries[j.key].token = j.token =>
      /\ deliveries[j.key].status = "pending"
      /\ deliveries[j.key].attempts = j.attempts
      /\ event[j.key[1]] = j.contents
      /\ j.phase = "queued" => deliveries[j.key].wait = j.lease
      /\ j.phase = "posting" =>
           deliveries[j.key].wait >= j.left + (j.lease - HTTPTimeout)

\* A 2xx answer comes from a destination that processed the request.
ReceivedInv == \A j \in jobs : j.phase = "accepted" => Post(j) \in received

\* A process holds no more items than it has workers.
CapacityInv ==
    \A p \in Processes :
      IsFiniteSet(JobsOf(p)) /\ Cardinality(JobsOf(p)) <= Workers

\* A process that waits to claim holds no item.
WaitingInv == \A p \in Processes : age[p] # Idle => JobsOf(p) = {}

IInv ==
    /\ TypeOK /\ HeldInv /\ ReceivedInv /\ CapacityInv /\ WaitingInv
    /\ DeliveredWasReceived /\ DeadWasRetried

----------------------------------------------------------------------------
(* Types of the parts of a job and of a row. *)

\* The fields of a job.
LEMMA JobType ==
    ASSUME TypeOK, NEW j \in jobs
    PROVE  /\ j \in Jobs
           /\ j.process \in Processes /\ j.key \in Keys /\ j.token \in Tokens
           /\ j.attempts \in 1..MaxAttempts /\ j.contents \in Contents
           /\ j.phase \in Phases /\ j.left \in 0..HTTPTimeout /\ j.lease \in Int
           /\ j.key[1] \in EventIDs
  BY Zenon DEF TypeOK, Jobs, Keys

\* The fields of a row.
LEMMA RowType ==
    ASSUME TypeOK, NEW k \in Keys
    PROVE  /\ deliveries[k] \in DeliveryRows
           /\ deliveries[k].status \in Statuses
           /\ deliveries[k].attempts \in 0..MaxAttempts
           /\ deliveries[k].token \in Tokens \cup {NoToken}
           /\ deliveries[k].wait \in Int
           /\ k[1] \in EventIDs /\ k[2] \in Destinations
  BY Zenon DEF TypeOK, DeliveryRows, Keys

\* Rows that are entered, rows that are gone, and rows that are delivered.
LEMMA ConstantRows ==
    /\ NoRow \in DeliveryRows /\ NoRow.status = "none" /\ NoRow.token = NoToken
    /\ NewRow \in DeliveryRows /\ NewRow.status = "pending"
    /\ NewRow.token = NoToken /\ NewRow.attempts = 0
    /\ Delivered \in DeliveryRows /\ Delivered.status = "delivered"
    /\ Delivered.token = NoToken
  BY OptionsAssumption DEF NoRow, NewRow, Delivered, DeliveryRows, Statuses

\* The image of a finite set is not larger than the set.
LEMMA ImageBound ==
    ASSUME NEW S, IsFiniteSet(S), NEW T, NEW f \in [S -> T],
           \A t \in T : \E x \in S : f[x] = t
    PROVE  IsFiniteSet(T) /\ Cardinality(T) <= Cardinality(S)
<1>1. f \in Surjection(S, T)
  BY Zenon DEF Surjection
<1> QED BY <1>1, FS_Surjection, Zenon

\* A set stays as large when one element is exchanged for another.
LEMMA ExchangeBound ==
    ASSUME NEW S, IsFiniteSet(S), NEW x \in S, NEW y
    PROVE  /\ IsFiniteSet((S \ {x}) \cup {y})
           /\ Cardinality((S \ {x}) \cup {y}) <= Cardinality(S)
<1>1. IsFiniteSet(S \ {x}) /\ Cardinality(S \ {x}) = Cardinality(S) - 1
  BY FS_RemoveElement, Zenon
<1>2. /\ IsFiniteSet((S \ {x}) \cup {y})
      /\ Cardinality((S \ {x}) \cup {y}) =
           IF y \in S \ {x} THEN Cardinality(S \ {x}) ELSE Cardinality(S \ {x}) + 1
  BY <1>1, FS_AddElement, Zenon
<1>3. Cardinality(S) \in Nat
  BY FS_CardinalityType, Zenon
<1> QED BY <1>1, <1>2, <1>3

----------------------------------------------------------------------------
(* One lemma per action: it preserves the inductive invariant. *)

\* An empty outbox satisfies the invariant.
LEMMA InitIInv == Init => IInv
<1> SUFFICES ASSUME Init PROVE IInv
  BY Zenon
<1>1. TypeOK
  BY ConstantRows, Zenon DEF Init, TypeOK, Keys
<1>2. CapacityInv
  BY FS_EmptySet, OptionsAssumption DEF Init, CapacityInv, JobsOf
<1>3. DeliveredWasReceived /\ DeadWasRetried
  BY ConstantRows, Zenon DEF Init, DeliveredWasReceived, DeadWasRetried
<1> QED
  BY <1>1, <1>2, <1>3, Zenon DEF Init, IInv, HeldInv, ReceivedInv, WaitingInv, JobsOf

\* What depends on the jobs, on received and on the waiting claims alone.
LEMMA JobsStable ==
    ASSUME IInv, UNCHANGED <<jobs, received, age>>
    PROVE  ReceivedInv' /\ CapacityInv' /\ WaitingInv'
  BY Zenon DEF IInv, ReceivedInv, CapacityInv, WaitingInv, JobsOf, Post

\* saveBatch enters the rows of an event together with the event.
LEMMA SaveIInv ==
    ASSUME IInv, NEW e \in EventIDs, NEW c \in Contents,
           NEW D \in SUBSET Destinations, Save(e, c, D)
    PROVE  IInv'
<1>1. TypeOK /\ event[e] = NoEvent
  BY Zenon DEF IInv, Save
<1>2. \A k \in Keys : /\ k[1] = e => deliveries[k].status = "none"
                      /\ event'[k[1]] = IF k[1] = e THEN c ELSE event[k[1]]
                      /\ deliveries'[k] = IF k[1] = e /\ k[2] \in D
                                          THEN NewRow ELSE deliveries[k]
  BY <1>1, RowType, Zenon DEF Save, TypeOK
<1>3. TypeOK'
  <2>1. event' \in [EventIDs -> Contents \cup {NoEvent}]
    BY Zenon DEF Save, IInv, TypeOK
  <2>2. deliveries' \in [Keys -> DeliveryRows]
    BY <1>1, RowType, ConstantRows, Zenon DEF Save
  <2>3. \A k \in Keys : event'[k[1]] = NoEvent => deliveries'[k].status = "none"
    BY <1>1, <1>2, NullAssumption DEF TypeOK
  <2> QED BY <1>1, <2>1, <2>2, <2>3, Zenon DEF TypeOK, Save
<1>4. HeldInv'
  <2> SUFFICES ASSUME NEW j \in jobs', deliveries'[j.key].token = j.token
               PROVE  j.key[1] # e
    BY <1>1, <1>2, JobType DEF IInv, HeldInv, Save
  <2>1. j \in jobs /\ j.key \in Keys /\ j.token # NoToken
    BY <1>1, JobType, NullAssumption, Zenon DEF Save
  <2>2. deliveries[j.key].token = j.token
    BY <1>2, <2>1, ConstantRows, Zenon
  <2>3. deliveries[j.key].status = "pending"
    BY <2>1, <2>2, Zenon DEF IInv, HeldInv
  <2> QED BY <1>2, <2>1, <2>3, Zenon
<1>5. DeliveredWasReceived'
  BY <1>1, <1>2, ConstantRows DEF IInv, DeliveredWasReceived, Save
<1>6. DeadWasRetried'
  BY <1>1, <1>2, ConstantRows, Zenon DEF IInv, DeadWasRetried, Save
<1> QED BY <1>3, <1>4, <1>5, <1>6, JobsStable, Zenon DEF IInv, Save

\* Events are deleted with their rows.
LEMMA DeleteIInv ==
    ASSUME IInv, NEW E \in SUBSET EventIDs, DeleteEvents(E) PROVE IInv'
<1>1. TypeOK
  BY Zenon DEF IInv
<1>2. \A k \in Keys : /\ event'[k[1]] = IF k[1] \in E THEN NoEvent ELSE event[k[1]]
                      /\ deliveries'[k] = IF k[1] \in E THEN NoRow ELSE deliveries[k]
  BY <1>1, RowType, Zenon DEF DeleteEvents
<1>3. TypeOK'
  <2>1. event' \in [EventIDs -> Contents \cup {NoEvent}]
    BY <1>1, Zenon DEF DeleteEvents, TypeOK
  <2>2. deliveries' \in [Keys -> DeliveryRows]
    BY <1>1, RowType, ConstantRows, Zenon DEF DeleteEvents
  <2>3. \A k \in Keys : event'[k[1]] = NoEvent => deliveries'[k].status = "none"
    BY <1>1, <1>2, ConstantRows DEF TypeOK
  <2> QED BY <1>1, <2>1, <2>2, <2>3, Zenon DEF TypeOK, DeleteEvents
<1>4. HeldInv'
  <2> SUFFICES ASSUME NEW j \in jobs', deliveries'[j.key].token = j.token
               PROVE  j.key[1] \notin E
    BY <1>1, <1>2, JobType, Zenon DEF IInv, HeldInv, DeleteEvents
  <2>1. j \in jobs /\ j.key \in Keys /\ j.token # NoToken
    BY <1>1, JobType, NullAssumption, Zenon DEF DeleteEvents
  <2> QED BY <1>2, <2>1, ConstantRows, Zenon
<1>5. DeliveredWasReceived' /\ DeadWasRetried'
  BY <1>2, ConstantRows
  DEF IInv, DeliveredWasReceived, DeadWasRetried, DeleteEvents
<1> QED BY <1>3, <1>4, <1>5, JobsStable, Zenon DEF IInv, DeleteEvents

\* A requeued row starts afresh; nobody holds its lease.
LEMMA RequeueIInv ==
    ASSUME IInv, NEW K \in SUBSET Dead, Requeue(K) PROVE IInv'
<1>1. TypeOK /\ K \subseteq Keys
  BY Zenon DEF IInv, Dead
<1>2. \A k \in Keys : deliveries'[k] = IF k \in K THEN NewRow ELSE deliveries[k]
  BY Zenon DEF Requeue
<1>3. \A k \in K : deliveries[k].status = "dead"
  BY Zenon DEF Dead
<1>4. TypeOK'
  <2>1. deliveries' \in [Keys -> DeliveryRows]
    BY <1>1, RowType, ConstantRows, Zenon DEF Requeue
  <2>2. \A k \in Keys : event'[k[1]] = NoEvent => deliveries'[k].status = "none"
    BY <1>1, <1>2, <1>3, Zenon DEF TypeOK, Requeue
  <2> QED BY <1>1, <2>1, <2>2, Zenon DEF TypeOK, Requeue
<1>5. HeldInv'
  <2> SUFFICES ASSUME NEW j \in jobs', deliveries'[j.key].token = j.token
               PROVE  j.key \notin K
    BY <1>1, <1>2, JobType, Zenon DEF IInv, HeldInv, Requeue
  <2>1. j \in jobs /\ j.key \in Keys /\ j.token # NoToken
    BY <1>1, JobType, NullAssumption, Zenon DEF Requeue
  <2> QED BY <1>2, <2>1, ConstantRows, Zenon
<1>6. DeliveredWasReceived' /\ DeadWasRetried'
  BY <1>2, ConstantRows, Zenon DEF IInv, DeliveredWasReceived, DeadWasRetried, Requeue
<1> QED BY <1>4, <1>5, <1>6, JobsStable, Zenon DEF IInv, Requeue

\* A worker of the process moves an item on to its next phase.
LEMMA MoveIInv ==
    ASSUME IInv, NEW j \in jobs, NEW i \in Jobs, Move(j, i),
           UNCHANGED <<event, deliveries, running, age>>,
           i.process = j.process, i.key = j.key, i.token = j.token,
           i.attempts = j.attempts, i.contents = j.contents,
           received \subseteq received', received' \subseteq received \cup {Post(j)},
           i.phase # "queued",
           i.phase = "posting" =>
             j.phase = "queued" /\ i.left = HTTPTimeout /\ i.lease = j.lease,
           i.phase = "accepted" => Post(j) \in received'
    PROVE  IInv'
<1>1. TypeOK /\ jobs' = (jobs \ {j}) \cup {i}
  BY Zenon DEF IInv, Move
<1>2. i.lease \in Int
  BY Zenon DEF Jobs
<1>3. TypeOK'
  <2>1. jobs' \subseteq Jobs
    BY <1>1, <1>2, JobType, Zenon
  <2>2. received' \subseteq Keys \X Contents
    BY <1>1, JobType DEF TypeOK, Post
  <2>3. \A a, b \in jobs' : a.token = b.token => a = b
    BY <1>1, <1>2 DEF TypeOK
  <2> QED BY <1>1, <2>1, <2>2, <2>3, Zenon DEF TypeOK
<1>4. HeldInv'
  <2> SUFFICES ASSUME deliveries[i.key].token = i.token
               PROVE  /\ deliveries[i.key].status = "pending"
                      /\ deliveries[i.key].attempts = i.attempts
                      /\ event[i.key[1]] = i.contents
                      /\ i.phase = "queued" => deliveries[i.key].wait = i.lease
                      /\ i.phase = "posting" =>
                           deliveries[i.key].wait >= i.left + (i.lease - HTTPTimeout)
    BY <1>1 DEF IInv, HeldInv
  <2>1. i.phase = "posting" => deliveries[i.key].wait = i.lease
    BY Zenon DEF IInv, HeldInv
  <2>2. i.phase = "posting" =>
           deliveries[i.key].wait >= i.left + (i.lease - HTTPTimeout)
    BY <1>2, <2>1, OptionsAssumption
  <2> QED BY <2>2, Zenon DEF IInv, HeldInv
<1>5. ReceivedInv'
  BY <1>1, <1>2, Zenon DEF IInv, ReceivedInv, Post
<1>6. CapacityInv'
  <2> SUFFICES ASSUME NEW p \in Processes
               PROVE  IsFiniteSet(JobsOf(p)') /\ Cardinality(JobsOf(p)') <= Workers
    BY Zenon DEF CapacityInv
  <2>1. IsFiniteSet(JobsOf(p)) /\ Cardinality(JobsOf(p)) <= Workers
    BY Zenon DEF IInv, CapacityInv
  <2>2. CASE p = j.process
    <3>1. JobsOf(p)' = (JobsOf(p) \ {j}) \cup {i} /\ j \in JobsOf(p)
      BY <1>1, <1>2, <2>2, Zenon DEF JobsOf
    <3> DEFINE S == JobsOf(p)
    <3>4. IsFiniteSet(S) /\ j \in S
      BY <2>1, <3>1, Zenon
    <3> HIDE DEF S
    <3>5. /\ IsFiniteSet((S \ {j}) \cup {i})
          /\ Cardinality((S \ {j}) \cup {i}) <= Cardinality(S)
      BY <3>4, ExchangeBound, Zenon
    <3>2. /\ IsFiniteSet(JobsOf(p)')
          /\ Cardinality(JobsOf(p)') <= Cardinality(JobsOf(p))
      BY <3>1, <3>5, Zenon DEF S
    <3>3. Cardinality(JobsOf(p)) \in Nat /\ Cardinality(JobsOf(p)') \in Nat
      BY <2>1, <3>2, FS_CardinalityType, Zenon
    <3> QED BY <2>1, <3>2, <3>3, OptionsAssumption
  <2>3. CASE p # j.process
    <3>1. JobsOf(p)' = JobsOf(p)
      BY <1>1, <1>2, <2>3, Zenon DEF JobsOf
    <3> QED BY <2>1, <3>1, Zenon
  <2> QED BY <2>2, <2>3, Zenon
<1>7. DeliveredWasReceived' /\ DeadWasRetried'
  BY Zenon DEF IInv, DeliveredWasReceived, DeadWasRetried
<1>8. WaitingInv'
  <2> SUFFICES ASSUME NEW p \in Processes, age[p] # Idle PROVE JobsOf(p)' = {}
    BY Zenon DEF WaitingInv
  <2>1. \A h \in jobs : h.process # p
    BY Zenon DEF IInv, WaitingInv, JobsOf
  <2> QED BY <1>1, <2>1, Zenon DEF JobsOf
<1> QED BY <1>3, <1>4, <1>5, <1>6, <1>7, <1>8, Zenon DEF IInv

\* A subset of the jobs fits into the workers.
LEMMA FewerJobs ==
    ASSUME CapacityInv, jobs' \subseteq jobs PROVE CapacityInv'
<1> SUFFICES ASSUME NEW p \in Processes
             PROVE  IsFiniteSet(JobsOf(p)') /\ Cardinality(JobsOf(p)') <= Workers
  BY Zenon DEF CapacityInv
<1>1. IsFiniteSet(JobsOf(p)) /\ Cardinality(JobsOf(p)) <= Workers
  BY Zenon DEF CapacityInv
<1>2. JobsOf(p)' \in SUBSET JobsOf(p)
  BY Zenon DEF JobsOf
<1>3. /\ IsFiniteSet(JobsOf(p)')
      /\ Cardinality(JobsOf(p)') <= Cardinality(JobsOf(p))
  BY <1>1, <1>2, FS_Subset, Zenon
<1>4. Cardinality(JobsOf(p)) \in Nat /\ Cardinality(JobsOf(p)') \in Nat
  BY <1>1, <1>3, FS_CardinalityType, Zenon
<1> QED BY <1>1, <1>3, <1>4, OptionsAssumption

\* Items are dropped without a trace in the store.
LEMMA DropIInv ==
    ASSUME IInv, jobs' \subseteq jobs, UNCHANGED <<event, deliveries>>,
           running' \subseteq Processes, age' \in [Processes -> Nat \cup {Idle}],
           \A p \in Processes : age'[p] \in {age[p], Idle},
           received \subseteq received', received' \subseteq Keys \X Contents
    PROVE  IInv'
<1>1. TypeOK' /\ HeldInv' /\ ReceivedInv'
  BY Zenon DEF IInv, TypeOK, HeldInv, ReceivedInv, Post
<1>2. DeliveredWasReceived' /\ DeadWasRetried'
  BY Zenon DEF IInv, DeliveredWasReceived, DeadWasRetried
<1>3. WaitingInv'
  BY Zenon DEF IInv, WaitingInv, JobsOf
<1> QED BY <1>1, <1>2, <1>3, FewerJobs, Zenon DEF IInv

\* transition settles or releases the row whose lease the item holds.
LEMMA TransitionIInv ==
    ASSUME IInv, NEW j \in jobs, NEW row, Transition(j, row),
           Leased(j) => /\ row \in DeliveryRows /\ row.token = NoToken
                        /\ row.status # "none"
                        /\ row.status = "dead" => row.attempts = MaxAttempts
                        /\ row.status = "delivered" => j.phase = "accepted"
    PROVE  IInv'
<1>1. TypeOK /\ jobs' \subseteq jobs /\ UNCHANGED <<event, running, age, received>>
  BY Zenon DEF IInv, Transition
<1>2. CASE ~Leased(j)
  BY <1>1, <1>2, DropIInv, Zenon DEF Transition, IInv, TypeOK
<1>3. CASE Leased(j)
  <2>1. /\ j.key \in Keys
        /\ \A k \in Keys : deliveries'[k] = IF k = j.key THEN row ELSE deliveries[k]
    BY <1>1, <1>3, JobType, Zenon DEF Transition, TypeOK
  <2>2. deliveries' \in [Keys -> DeliveryRows]
    BY <1>1, <1>3, JobType, Zenon DEF Transition, TypeOK
  <2>3. /\ event[j.key[1]] # NoEvent
        /\ event[j.key[1]] = j.contents
    BY <1>1, <1>3, JobType, NullAssumption, Zenon DEF IInv, HeldInv, Leased
  <2>4. TypeOK'
    BY <1>1, <1>3, <2>1, <2>2, <2>3, Zenon DEF TypeOK
  <2>5. HeldInv'
    <3> SUFFICES ASSUME NEW i \in jobs', deliveries'[i.key].token = i.token
                 PROVE  i.key # j.key
      BY <1>1, <2>1, JobType DEF IInv, HeldInv
    <3>1. i \in jobs /\ i.key \in Keys /\ i.token # NoToken
      BY <1>1, JobType, NullAssumption, Zenon
    <3> QED BY <1>3, <2>1, <3>1, Zenon
  <2>6. ReceivedInv' /\ CapacityInv' /\ WaitingInv'
    BY <1>1, FewerJobs, Zenon DEF IInv, ReceivedInv, WaitingInv, JobsOf, Post
  <2>7. DeliveredWasReceived'
    <3>1. row.status = "delivered" => <<j.key, event[j.key[1]]>> \in received
      BY <1>3, <2>3, Zenon DEF IInv, ReceivedInv, Post
    <3> QED BY <1>1, <2>1, <3>1, Zenon DEF IInv, DeliveredWasReceived
  <2>8. DeadWasRetried'
    BY <1>1, <1>3, <2>1, Zenon DEF IInv, DeadWasRetried
  <2> QED BY <2>4, <2>5, <2>6, <2>7, <2>8, Zenon DEF IInv
<1> QED BY <1>2, <1>3, Zenon

\* A released row has no token and is otherwise as it was.
LEMMA ReleasedRow ==
    ASSUME TypeOK, NEW k \in Keys
    PROVE  /\ Released(k) \in DeliveryRows
           /\ Released(k) = [deliveries[k] EXCEPT !.token = NoToken]
           /\ Released(k).token = NoToken
           /\ Released(k).status = deliveries[k].status
           /\ Released(k).attempts = deliveries[k].attempts
  BY RowType, Zenon DEF Released, DeliveryRows

\* A dead letter keeps the number of its attempts.
LEMMA BuriedRow ==
    ASSUME TypeOK, NEW k \in Keys
    PROVE  /\ Buried(k) \in DeliveryRows /\ Buried(k).token = NoToken
           /\ Buried(k).status = "dead" /\ Buried(k).attempts = deliveries[k].attempts
<1> DEFINE r == Released(k)
<1>1. /\ r \in DeliveryRows /\ r.token = NoToken
      /\ r.attempts = deliveries[k].attempts
  BY ReleasedRow, Zenon
<1>2. Buried(k) = [r EXCEPT !.status = "dead", !.wait = 0]
  BY Zenon DEF Buried
<1> HIDE DEF r
<1>3. "dead" \in Statuses /\ 0 \in Int
  BY DEF Statuses
<1> QED BY <1>1, <1>2, <1>3, Zenon DEF DeliveryRows

\* MarkDeliveryDelivered settles a row its destination has answered for.
LEMMA MarkDeliveredIInv ==
    ASSUME IInv, NEW j \in jobs, MarkDeliveryDelivered(j) PROVE IInv'
<1>1. Transition(j, Delivered) /\ j.phase = "accepted"
  BY Zenon DEF MarkDeliveryDelivered
<1> QED BY <1>1, ConstantRows, TransitionIInv, Zenon

\* Worker.fail buries the row after MaxAttempts and releases it before.
LEMMA FailIInv ==
    ASSUME IInv, NEW j \in jobs, Fail(j) PROVE IInv'
<1> DEFINE dead == Buried(j.key)
           retry == [Released(j.key) EXCEPT !.wait = Backoff[j.attempts]]
<1>1. TypeOK /\ j.key \in Keys /\ j.attempts \in 1..MaxAttempts
  BY JobType, Zenon DEF IInv
<1>2. CASE j.attempts >= MaxAttempts
  <2>1. /\ dead \in DeliveryRows /\ dead.token = NoToken /\ dead.status = "dead"
        /\ dead.attempts = deliveries[j.key].attempts
    BY <1>1, BuriedRow, Zenon
  <2>2. Leased(j) => deliveries[j.key].attempts = MaxAttempts
    BY <1>1, <1>2, OptionsAssumption DEF IInv, HeldInv, Leased
  <2>3. Transition(j, dead)
    BY <1>2, Zenon DEF Fail
  <2> HIDE DEF dead
  <2> QED BY <2>1, <2>2, <2>3, TransitionIInv, Zenon
<1>3. CASE ~(j.attempts >= MaxAttempts)
  <2>1. Backoff[j.attempts] \in Int
    BY <1>1, OptionsAssumption
  <2>2. /\ retry \in DeliveryRows /\ retry.token = NoToken
        /\ retry.status = deliveries[j.key].status
    BY <1>1, <2>1, ReleasedRow DEF DeliveryRows
  <2>3. Transition(j, retry)
    BY <1>3, Zenon DEF Fail
  <2>4. Leased(j) => retry.status = "pending"
    BY <2>2, Zenon DEF Leased
  <2> HIDE DEF retry
  <2> QED BY <2>2, <2>3, <2>4, TransitionIInv, Zenon
<1> QED BY <1>2, <1>3, Zenon

\* What a claim takes: rows that are due, each under a token of its own that no
\* worker holds, and for what is left of the lease.
LEMMA ClaimStep ==
    ASSUME NEW p \in Processes, ClaimDueDeliveries(p)
    PROVE  \E K \in SUBSET Due(age[p]) :
             /\ IsFiniteSet(K) /\ Cardinality(K) <= ClaimLimit
             /\ \E token \in NewTokens(K) :
                  /\ deliveries' = [k \in Keys |->
                                      IF k \in K
                                      THEN Claimed(k, token[k], LeaseDuration - age[p])
                                      ELSE deliveries[k]]
                  /\ jobs' = jobs \cup {Job(p, k, token[k], LeaseDuration - age[p]) : k \in K}
<1> DEFINE lease == LeaseDuration - age[p]
<1>1. PICK K \in SUBSET Due(age[p]) :
        /\ IsFiniteSet(K) /\ Cardinality(K) <= ClaimLimit
        /\ NewTokens(K) # {}
        /\ LET token == CHOOSE t \in NewTokens(K) : TRUE
           IN  /\ deliveries' = [k \in Keys |-> IF k \in K THEN Claimed(k, token[k], lease)
                                                ELSE deliveries[k]]
               /\ jobs' = jobs \cup {Job(p, k, token[k], lease) : k \in K}
  BY Zenon DEF ClaimDueDeliveries
<1> DEFINE token == CHOOSE t \in NewTokens(K) : TRUE
<1>2. token \in NewTokens(K)
  BY <1>1, Zenon
<1>3. /\ deliveries' = [k \in Keys |-> IF k \in K THEN Claimed(k, token[k], lease)
                                       ELSE deliveries[k]]
      /\ jobs' = jobs \cup {Job(p, k, token[k], lease) : k \in K}
  BY <1>1, Zenon
<1> HIDE DEF token, lease
<1>4. \E t \in NewTokens(K) :
        /\ deliveries' = [k \in Keys |-> IF k \in K THEN Claimed(k, t[k], lease)
                                         ELSE deliveries[k]]
        /\ jobs' = jobs \cup {Job(p, k, t[k], lease) : k \in K}
  BY <1>2, <1>3, Zenon
<1> QED BY <1>1, <1>4, Zenon DEF lease

\* A claim leases rows for what is left of the lease, and gives every item a
\* token of its own.
LEMMA ClaimIInv ==
    ASSUME IInv, NEW p \in Processes, ClaimDueDeliveries(p) PROVE IInv'
<1> DEFINE lease == LeaseDuration - age[p]
<1>1. TypeOK
  BY Zenon DEF IInv
<1>2. PICK K \in SUBSET Due(age[p]) :
        /\ IsFiniteSet(K) /\ Cardinality(K) <= ClaimLimit
        /\ \E token \in NewTokens(K) :
             /\ deliveries' = [k \in Keys |-> IF k \in K THEN Claimed(k, token[k], lease)
                                              ELSE deliveries[k]]
             /\ jobs' = jobs \cup {Job(p, k, token[k], lease) : k \in K}
  BY ClaimStep, Zenon
<1>3. PICK token \in [K -> Tokens \ UsedTokens] :
        /\ \A k, m \in K : token[k] = token[m] => k = m
        /\ deliveries' = [k \in Keys |-> IF k \in K THEN Claimed(k, token[k], lease)
                                         ELSE deliveries[k]]
        /\ jobs' = jobs \cup {Job(p, k, token[k], lease) : k \in K}
  BY <1>2, Zenon DEF NewTokens
<1>4. /\ UNCHANGED <<event, received, running>> /\ JobsOf(p) = {}
      /\ age' \in [Processes -> Nat \cup {Idle}] /\ age' = [age EXCEPT ![p] = Idle]
  BY <1>1, Zenon DEF ClaimDueDeliveries, IInv, WaitingInv, TypeOK
<1>15. lease \in Int
  <2>1. age[p] \in Int
    BY <1>1 DEF TypeOK, Idle
  <2> QED BY <2>1, OptionsAssumption
<1> HIDE DEF lease
<1>5. \A k \in K : /\ k \in Keys /\ deliveries[k].status = "pending"
                   /\ token[k] \in Tokens /\ token[k] # NoToken
                   /\ \A j \in jobs : j.token # token[k]
                   /\ event[k[1]] \in Contents
                   /\ CountAttempt(deliveries[k].attempts) \in 1..MaxAttempts
  <2> SUFFICES ASSUME NEW k \in K
               PROVE  /\ k \in Keys /\ deliveries[k].status = "pending"
                      /\ token[k] \in Tokens /\ token[k] # NoToken
                         /\ \A j \in jobs : j.token # token[k]
                      /\ event[k[1]] \in Contents
                      /\ CountAttempt(deliveries[k].attempts) \in 1..MaxAttempts
    BY Zenon
  <2>1. k \in Keys /\ deliveries[k].status = "pending"
    BY Zenon DEF Due
  <2>2. token[k] \in Tokens /\ token[k] \notin UsedTokens
    BY <1>3, Zenon
  <2>3. /\ token[k] # NoToken
        /\ \A j \in jobs : j.token # token[k]
    BY <2>1, <2>2, NullAssumption, Zenon DEF UsedTokens
  <2>4. event[k[1]] \in Contents
    BY <1>1, <2>1, RowType, Zenon DEF TypeOK
  <2>5. CountAttempt(deliveries[k].attempts) \in 1..MaxAttempts
    BY <1>1, <2>1, RowType, OptionsAssumption DEF CountAttempt
  <2> QED BY <2>1, <2>2, <2>3, <2>4, <2>5, Zenon
<1>6. \A k \in K : /\ Job(p, k, token[k], lease) \in Jobs
                   /\ Job(p, k, token[k], lease).process = p
                   /\ Job(p, k, token[k], lease).key = k
                   /\ Job(p, k, token[k], lease).token = token[k]
                   /\ Job(p, k, token[k], lease).attempts = CountAttempt(deliveries[k].attempts)
                   /\ Job(p, k, token[k], lease).contents = event[k[1]]
                   /\ Job(p, k, token[k], lease).phase = "queued"
                   /\ Job(p, k, token[k], lease).lease = lease
  BY <1>5, <1>15, OptionsAssumption DEF Job, Jobs, Phases
<1>7. \A k \in K : /\ Claimed(k, token[k], lease) \in DeliveryRows
                   /\ Claimed(k, token[k], lease).status = "pending"
                   /\ Claimed(k, token[k], lease).token = token[k]
                   /\ Claimed(k, token[k], lease).attempts = CountAttempt(deliveries[k].attempts)
                   /\ Claimed(k, token[k], lease).wait = lease
  <2> SUFFICES ASSUME NEW k \in K
               PROVE  /\ Claimed(k, token[k], lease) \in DeliveryRows
                      /\ Claimed(k, token[k], lease).status = "pending"
                      /\ Claimed(k, token[k], lease).token = token[k]
                      /\ Claimed(k, token[k], lease).attempts =
                           CountAttempt(deliveries[k].attempts)
                      /\ Claimed(k, token[k], lease).wait = lease
    BY Zenon
  <2>1. deliveries[k] \in DeliveryRows /\ deliveries[k].status = "pending"
    BY <1>1, <1>5, RowType, Zenon
  <2>2. /\ CountAttempt(deliveries[k].attempts) \in 0..MaxAttempts
        /\ token[k] \in Tokens /\ lease \in Int
    BY <1>5, <1>15, OptionsAssumption
  <2> QED BY <2>1, <2>2, Zenon DEF Claimed, DeliveryRows
<1>8. \A k \in Keys : deliveries'[k] = IF k \in K THEN Claimed(k, token[k], lease)
                                       ELSE deliveries[k]
  BY <1>3, Zenon
<1>9. \A j \in jobs' : j \in jobs \/ \E k \in K : j = Job(p, k, token[k], lease)
  BY <1>3, Zenon
<1>10. TypeOK'
  <2>1. deliveries' \in [Keys -> DeliveryRows]
    BY <1>1, <1>3, <1>7, RowType, Zenon
  <2>2. jobs' \subseteq Jobs
    BY <1>1, <1>6, <1>9, JobType
  <2>3. \A k \in Keys : event'[k[1]] = NoEvent => deliveries'[k].status = "none"
    BY <1>1, <1>4, <1>5, <1>8, NullAssumption, Zenon DEF TypeOK
  <2>4. \A i, j \in jobs' : i.token = j.token => i = j
    BY <1>1, <1>3, <1>5, <1>6, <1>9 DEF TypeOK
  <2> QED BY <1>1, <1>4, <2>1, <2>2, <2>3, <2>4, Zenon DEF TypeOK
<1>11. HeldInv'
  <2> SUFFICES ASSUME NEW j \in jobs', deliveries'[j.key].token = j.token
               PROVE  /\ deliveries'[j.key].status = "pending"
                      /\ deliveries'[j.key].attempts = j.attempts
                      /\ event[j.key[1]] = j.contents
                      /\ j.phase = "queued" => deliveries'[j.key].wait = j.lease
                      /\ j.phase = "posting" =>
                           deliveries'[j.key].wait >= j.left + (j.lease - HTTPTimeout)
    BY <1>4, Zenon DEF HeldInv
  <2>1. CASE j \in jobs
    <3>1. j.key \in Keys
      BY <1>1, <2>1, JobType, Zenon
    <3>2. j.key \notin K
      BY <1>5, <1>7, <1>8, <2>1, <3>1
    <3>3. deliveries'[j.key] = deliveries[j.key]
      BY <1>8, <3>1, <3>2, Zenon
    <3> QED BY <2>1, <3>3, Zenon DEF IInv, HeldInv
  <2>2. CASE \E k \in K : j = Job(p, k, token[k], lease)
    <3>1. PICK k \in K : j = Job(p, k, token[k], lease)
      BY <2>2, Zenon
    <3>2. deliveries'[k] = Claimed(k, token[k], lease)
      BY <1>5, <1>8, Zenon
    <3> QED BY <1>6, <1>7, <3>1, <3>2
  <2> QED BY <1>9, <2>1, <2>2, Zenon
<1>12. ReceivedInv'
  BY <1>4, <1>6, <1>9 DEF IInv, ReceivedInv, Post
<1>13. CapacityInv'
  <2> SUFFICES ASSUME NEW q \in Processes
               PROVE  IsFiniteSet(JobsOf(q)') /\ Cardinality(JobsOf(q)') <= Workers
    BY Zenon DEF CapacityInv
  <2>1. CASE q # p
    <3>1. JobsOf(q)' = JobsOf(q)
      BY <1>3, <1>6, <2>1 DEF JobsOf
    <3> QED BY <3>1, Zenon DEF IInv, CapacityInv
  <2>2. CASE q = p
    <3> DEFINE T == {Job(p, k, token[k], lease) : k \in K}
               f == [k \in K |-> Job(p, k, token[k], lease)]
    <3>1. JobsOf(p)' = T
      BY <1>3, <1>4, <1>6 DEF JobsOf
    <3>2. f \in [K -> T] /\ \A t \in T : \E k \in K : f[k] = t
      BY Zenon
    <3> HIDE DEF T, f
    <3>3. IsFiniteSet(T) /\ Cardinality(T) <= Cardinality(K)
      BY <1>2, <3>2, ImageBound, Zenon
    <3>4. Cardinality(T) \in Nat /\ Cardinality(K) \in Nat
      BY <1>2, <3>3, FS_CardinalityType, Zenon
    <3>5. ClaimLimit <= Workers /\ ClaimLimit \in Nat
      BY OptionsAssumption DEF ClaimLimit
    <3>6. Cardinality(T) <= Workers
      BY <1>2, <3>3, <3>4, <3>5, OptionsAssumption
    <3> QED BY <2>2, <3>1, <3>3, <3>6, Zenon
  <2> QED BY <2>1, <2>2, Zenon
<1>14. DeliveredWasReceived' /\ DeadWasRetried'
  BY <1>4, <1>7, <1>8 DEF IInv, DeliveredWasReceived, DeadWasRetried
<1>16. WaitingInv'
  <2> SUFFICES ASSUME NEW q \in Processes, age'[q] # Idle PROVE JobsOf(q)' = {}
    BY Zenon DEF WaitingInv
  <2>1. q # p /\ age[q] # Idle
    BY <1>1, <1>4, Zenon DEF TypeOK
  <2>2. JobsOf(q) = {}
    BY <2>1, Zenon DEF IInv, WaitingInv
  <2> QED BY <1>6, <1>9, <2>1, <2>2 DEF JobsOf
<1> QED BY <1>10, <1>11, <1>12, <1>13, <1>14, <1>16, Zenon DEF IInv

\* An item that waits in the queue could start: the other workers are fewer
\* than Workers.
LEMMA QueuedCanStart ==
    ASSUME IInv, NEW j \in jobs, j.phase = "queued" PROVE CanStart(j)
<1> DEFINE S == JobsOf(j.process)
           B == Busy(j.process)
<1>1. TypeOK /\ j.process \in Processes
  BY JobType, Zenon DEF IInv
<1>2. IsFiniteSet(S) /\ Cardinality(S) <= Workers
  BY <1>1, Zenon DEF IInv, CapacityInv
<1>3. j \in S /\ B \in SUBSET (S \ {j})
  BY Zenon DEF JobsOf, Busy
<1> HIDE DEF S, B
<1>4. IsFiniteSet(S \ {j}) /\ Cardinality(S \ {j}) = Cardinality(S) - 1
  BY <1>2, <1>3, FS_RemoveElement, Zenon
<1>5. IsFiniteSet(B) /\ Cardinality(B) <= Cardinality(S \ {j})
  BY <1>3, <1>4, FS_Subset, Zenon
<1>6. Cardinality(S) \in Nat /\ Cardinality(B) \in Nat
  BY <1>2, <1>5, FS_CardinalityType, Zenon
<1>7. Cardinality(B) < Workers
  BY <1>2, <1>4, <1>5, <1>6, OptionsAssumption
<1> QED BY <1>7, Zenon DEF CanStart, B

\* Time does not overtake a request: its own timeout ends first.
LEMMA TickIInv == ASSUME IInv, Tick PROVE IInv'
<1> DEFINE g(j) == IF j.phase = "posting" THEN [j EXCEPT !.left = @ - 1] ELSE j
<1>1. TypeOK /\ UNCHANGED <<event, received, running>>
  BY Zenon DEF IInv, Tick
<1>2. jobs' = {g(j) : j \in jobs}
  BY Zenon DEF Tick
<1>3. \A j \in jobs : /\ j.phase # "queued"
                      /\ j.phase = "posting" => j.left > 0
  BY QueuedCanStart, Zenon DEF Tick
<1>4. \A j \in jobs : /\ g(j) \in Jobs /\ g(j).process = j.process
                      /\ g(j).key = j.key /\ g(j).token = j.token
                      /\ g(j).attempts = j.attempts /\ g(j).contents = j.contents
                      /\ g(j).phase = j.phase
                      /\ g(j).lease = j.lease
                      /\ j.phase = "posting" => g(j).left = j.left - 1
  <2> SUFFICES ASSUME NEW j \in jobs
               PROVE  /\ g(j) \in Jobs /\ g(j).process = j.process
                      /\ g(j).key = j.key /\ g(j).token = j.token
                      /\ g(j).attempts = j.attempts /\ g(j).contents = j.contents
                      /\ g(j).phase = j.phase
                      /\ g(j).lease = j.lease
                      /\ j.phase = "posting" => g(j).left = j.left - 1
    BY Zenon
  <2>1. j \in Jobs /\ j.left \in 0..HTTPTimeout
    BY <1>1, JobType, Zenon
  <2>2. CASE j.phase = "posting"
    <3>1. j.left - 1 \in 0..HTTPTimeout
      BY <1>3, <2>1, <2>2, OptionsAssumption
    <3> QED BY <2>1, <2>2, <3>1, Zenon DEF Jobs
  <2>3. CASE j.phase # "posting"
    BY <2>1, <2>3, Zenon
  <2> QED BY <2>2, <2>3, Zenon
<1> HIDE DEF g
<1>5. \A k \in Keys :
        /\ deliveries'[k] \in DeliveryRows
        /\ deliveries'[k].status = deliveries[k].status
        /\ deliveries'[k].attempts = deliveries[k].attempts
        /\ deliveries'[k].token = deliveries[k].token
        /\ deliveries'[k].wait >= deliveries[k].wait - 1
  <2> SUFFICES ASSUME NEW k \in Keys
               PROVE  /\ deliveries'[k] \in DeliveryRows
                      /\ deliveries'[k].status = deliveries[k].status
                      /\ deliveries'[k].attempts = deliveries[k].attempts
                      /\ deliveries'[k].token = deliveries[k].token
                      /\ deliveries'[k].wait >= deliveries[k].wait - 1
    BY Zenon
  <2>1. deliveries[k] \in DeliveryRows /\ deliveries[k].wait \in Int
    BY <1>1, RowType, Zenon
  <2>2. /\ Later(deliveries[k].wait) \in Int
        /\ Later(deliveries[k].wait) >= deliveries[k].wait - 1
    BY <2>1, OptionsAssumption DEF Later
  <2>3. CASE deliveries[k].status = "pending"
    <3>1. deliveries'[k] = [deliveries[k] EXCEPT !.wait = Later(@)]
      BY <2>3, Zenon DEF Tick
    <3> QED BY <2>1, <2>2, <3>1, Zenon DEF DeliveryRows
  <2>4. CASE deliveries[k].status # "pending"
    <3>1. deliveries'[k] = deliveries[k]
      BY <2>4, Zenon DEF Tick
    <3> QED BY <2>1, <3>1
  <2> QED BY <2>3, <2>4, Zenon
<1>6. TypeOK'
  <2>1. deliveries' \in [Keys -> DeliveryRows]
    <3>1. DOMAIN deliveries' = Keys /\ deliveries' = [k \in Keys |-> deliveries'[k]]
      BY Zenon DEF Tick
    <3> QED BY <1>5, <3>1, Zenon
  <2>2. jobs' \subseteq Jobs /\ \A a, b \in jobs' : a.token = b.token => a = b
    BY <1>1, <1>2, <1>4 DEF TypeOK
  <2>3. age' \in [Processes -> Nat \cup {Idle}]
    BY <1>1 DEF Tick, TypeOK, Idle
  <2> QED BY <1>1, <1>5, <2>1, <2>2, <2>3, Zenon DEF TypeOK
<1>7. HeldInv'
  <2> SUFFICES ASSUME NEW j \in jobs, deliveries'[g(j).key].token = g(j).token
               PROVE  /\ deliveries'[g(j).key].status = "pending"
                      /\ deliveries'[g(j).key].attempts = g(j).attempts
                      /\ event[g(j).key[1]] = g(j).contents
                      /\ g(j).phase = "queued" =>
                           deliveries'[g(j).key].wait = g(j).lease
                      /\ g(j).phase = "posting" =>
                           deliveries'[g(j).key].wait
                             >= g(j).left + (g(j).lease - HTTPTimeout)
    BY <1>1, <1>2 DEF HeldInv
  <2>1. j.key \in Keys /\ deliveries[j.key].token = j.token
        /\ j.left \in 0..HTTPTimeout /\ j.lease \in Int /\ deliveries[j.key].wait \in Int
        /\ deliveries'[j.key].wait \in Int
    BY <1>1, <1>4, <1>5, JobType, RowType, Zenon DEF DeliveryRows
  <2>2. j.phase = "posting" =>
          deliveries[j.key].wait >= j.left + (j.lease - HTTPTimeout)
    BY <2>1, Zenon DEF IInv, HeldInv
  <2>3. j.phase = "posting" =>
          deliveries'[j.key].wait >= (j.left - 1) + (j.lease - HTTPTimeout)
    <3> DEFINE w == deliveries[j.key].wait
               x == deliveries'[j.key].wait
               l == j.left
               m == j.lease
    <3>1. w \in Int /\ x \in Int /\ l \in Int /\ m \in Int /\ x >= w - 1
      BY <1>5, <2>1, OptionsAssumption
    <3>2. j.phase = "posting" => w >= l + (m - HTTPTimeout)
      BY <2>2, Zenon
    <3> HIDE DEF w, x, l, m
    <3>3. j.phase = "posting" => x >= (l - 1) + (m - HTTPTimeout)
      BY <3>1, <3>2, OptionsAssumption
    <3> QED BY <3>3, Zenon DEF x, l, m
  <2>4. /\ deliveries[j.key].status = "pending"
        /\ deliveries[j.key].attempts = j.attempts
        /\ event[j.key[1]] = j.contents
    BY <2>1, Zenon DEF IInv, HeldInv
  <2>5. /\ deliveries'[j.key].status = deliveries[j.key].status
        /\ deliveries'[j.key].attempts = deliveries[j.key].attempts
    BY <1>5, <2>1, Zenon
  <2>6. /\ g(j).key = j.key /\ g(j).attempts = j.attempts
        /\ g(j).contents = j.contents /\ g(j).phase = j.phase /\ j.phase # "queued"
        /\ g(j).lease = j.lease
        /\ j.phase = "posting" => g(j).left = j.left - 1
    BY <1>3, <1>4, Zenon
  <2> QED BY <2>3, <2>4, <2>5, <2>6, Zenon
<1>8. ReceivedInv'
  BY <1>1, <1>2, <1>4 DEF IInv, ReceivedInv, Post
<1>9. CapacityInv'
  <2> SUFFICES ASSUME NEW p \in Processes
               PROVE  IsFiniteSet(JobsOf(p)') /\ Cardinality(JobsOf(p)') <= Workers
    BY Zenon DEF CapacityInv
  <2> DEFINE S == JobsOf(p)
             T == {g(j) : j \in S}
             f == [j \in S |-> g(j)]
  <2>1. IsFiniteSet(S) /\ Cardinality(S) <= Workers
    BY Zenon DEF IInv, CapacityInv
  <2>2. JobsOf(p)' = T
    BY <1>2, <1>4 DEF JobsOf
  <2>3. f \in [S -> T] /\ \A t \in T : \E j \in S : f[j] = t
    BY Zenon
  <2> HIDE DEF S, T, f
  <2>4. IsFiniteSet(T) /\ Cardinality(T) <= Cardinality(S)
    BY <2>1, <2>3, ImageBound, Zenon
  <2>5. Cardinality(T) \in Nat /\ Cardinality(S) \in Nat
    BY <2>1, <2>4, FS_CardinalityType, Zenon
  <2>6. Cardinality(T) <= Workers
    BY <2>1, <2>4, <2>5, OptionsAssumption
  <2> QED BY <2>2, <2>4, <2>6, Zenon
<1>10. DeliveredWasReceived' /\ DeadWasRetried'
  BY <1>1, <1>5, Zenon DEF IInv, DeliveredWasReceived, DeadWasRetried
<1>11. WaitingInv'
  BY <1>1, <1>2, <1>4 DEF IInv, WaitingInv, JobsOf, Tick, TypeOK
<1> QED BY <1>6, <1>7, <1>8, <1>9, <1>10, <1>11, Zenon DEF IInv

\* A restarted process holds nothing.
LEMMA BootIInv == ASSUME IInv, NEW p \in Processes, Boot(p) PROVE IInv'
<1>1. TypeOK'
  BY Zenon DEF Boot, IInv, TypeOK
<1>2. HeldInv' /\ DeliveredWasReceived' /\ DeadWasRetried'
  BY Zenon DEF Boot, IInv, HeldInv, DeliveredWasReceived, DeadWasRetried
<1> QED BY <1>1, <1>2, JobsStable, Zenon DEF Boot, IInv

\* A process that reads the clock for a claim holds nothing.
LEMMA DrainIInv == ASSUME IInv, NEW p \in Processes, DrainOnce(p) PROVE IInv'
<1>1. TypeOK'
  BY Zenon DEF DrainOnce, IInv, TypeOK
<1>2. HeldInv' /\ DeliveredWasReceived' /\ DeadWasRetried'
  BY Zenon DEF DrainOnce, IInv, HeldInv, DeliveredWasReceived, DeadWasRetried
<1>3. ReceivedInv' /\ CapacityInv'
  BY Zenon DEF DrainOnce, IInv, ReceivedInv, CapacityInv, JobsOf, Post
<1>4. WaitingInv'
  BY Zenon DEF DrainOnce, IInv, WaitingInv, JobsOf, TypeOK
<1> QED BY <1>1, <1>2, <1>3, <1>4, Zenon DEF IInv

\* A step that changes no variable.
LEMMA StutterIInv == ASSUME IInv, UNCHANGED vars PROVE IInv'
<1>1. TypeOK'
  BY Zenon DEF vars, IInv, TypeOK
<1>2. HeldInv' /\ DeliveredWasReceived' /\ DeadWasRetried'
  BY Zenon DEF vars, IInv, HeldInv, DeliveredWasReceived, DeadWasRetried
<1> QED BY <1>1, <1>2, JobsStable, Zenon DEF vars, IInv

----------------------------------------------------------------------------
(* The invariant. *)

\* Every step preserves the inductive invariant.
LEMMA NextIInv == IInv /\ [Next]_vars => IInv'
<1> SUFFICES ASSUME IInv, [Next]_vars PROVE IInv'
  BY Zenon
<1>1. CASE Produce
  BY <1>1, SaveIInv, DeleteIInv, Zenon DEF Produce, Rewind, PruneDeliveredBefore
<1>2. ASSUME NEW p \in Processes, Boot(p) \/ Work(p) PROVE IInv'
  <2>1. CASE Boot(p) \/ DrainOnce(p) \/ ClaimDueDeliveries(p)
    BY <2>1, BootIInv, DrainIInv, ClaimIInv, Zenon
  <2>2. ASSUME NEW j \in jobs, Start(j) PROVE IInv'
    <3> DEFINE i == [j EXCEPT !.phase = "posting", !.left = HTTPTimeout]
    <3>1. j \in Jobs /\ HTTPTimeout \in 0..HTTPTimeout /\ "posting" \in Phases
      BY JobType, OptionsAssumption DEF IInv, Phases
    <3>2. /\ i \in Jobs /\ i.process = j.process /\ i.key = j.key /\ i.token = j.token
          /\ i.attempts = j.attempts /\ i.contents = j.contents
          /\ i.phase = "posting" /\ i.left = HTTPTimeout /\ i.lease = j.lease
      BY <3>1, Zenon DEF Jobs
    <3>3. Move(j, i) /\ j.phase = "queued" /\ UNCHANGED <<event, deliveries, received, running, age>>
      BY <2>2, Zenon DEF Start, CanStart
    <3> HIDE DEF i
    <3> QED BY <3>2, <3>3, MoveIInv, Zenon
  <2>3. ASSUME NEW j \in jobs, NEW phase \in {"accepted", "failed"}
        PROVE  LET i == Ended(j, phase)
               IN  /\ i \in Jobs /\ i.process = j.process /\ i.key = j.key
                   /\ i.token = j.token /\ i.attempts = j.attempts
                   /\ i.contents = j.contents /\ i.phase = phase
    <3>1. j \in Jobs /\ 0 \in 0..HTTPTimeout /\ 0 \in Int /\ phase \in Phases
      BY JobType, OptionsAssumption DEF IInv, Phases
    <3> QED BY <3>1, Zenon DEF Ended, Jobs
  <2>4. ASSUME NEW j \in jobs, Accept(j) PROVE IInv'
    BY <2>3, <2>4, MoveIInv, Zenon DEF Accept
  <2>5. ASSUME NEW j \in jobs, Refuse(j) PROVE IInv'
    BY <2>3, <2>5, MoveIInv, Zenon DEF Refuse
  <2>6. ASSUME NEW j \in jobs, MarkDeliveryDelivered(j) \/ Fail(j) PROVE IInv'
    BY <2>6, MarkDeliveredIInv, FailIInv, Zenon
  <2> QED BY <1>2, <2>1, <2>2, <2>4, <2>5, <2>6, Zenon DEF Work, JobsOf
<1>3. CASE Break
  <2>1. TypeOK
    BY Zenon DEF IInv
  <2>2. ASSUME NEW p \in Processes, Crash(p) PROVE IInv'
    <3>1. \A j \in jobs : Post(j) \in Keys \X Contents
      BY <2>1, JobType, Zenon DEF Post
    <3>2. /\ received \subseteq received' /\ received' \subseteq Keys \X Contents
          /\ jobs' \subseteq jobs /\ running' \subseteq Processes
      BY <2>1, <2>2, <3>1 DEF Crash, JobsOf, TypeOK
    <3>3. /\ age' \in [Processes -> Nat \cup {Idle}]
          /\ \A q \in Processes : age'[q] \in {age[q], Idle}
      BY <2>1, <2>2, Zenon DEF Crash, TypeOK
    <3> QED BY <2>2, <3>2, <3>3, DropIInv, Zenon DEF Crash
  <2>3. ASSUME NEW j \in jobs, LoseOutcome(j) PROVE IInv'
    BY <2>1, <2>3, DropIInv, Zenon DEF LoseOutcome, TypeOK
  <2>4. ASSUME NEW p \in Processes, LoseClaim(p) PROVE IInv'
    BY <2>1, <2>4, DropIInv, Zenon DEF LoseClaim, TypeOK
  <2> QED BY <1>3, <2>2, <2>3, <2>4, Zenon DEF Break
<1>4. CASE Operate
  BY <1>4, RequeueIInv, Zenon
  DEF Operate, RequeueAllDead, RequeueDeadByGUID, RequeueDeadDeliveryAudited
<1>5. CASE Tick
  BY <1>5, TickIInv, Zenon
<1>6. CASE UNCHANGED vars
  BY <1>6, StutterIInv, Zenon
<1> QED BY <1>1, <1>2, <1>3, <1>4, <1>5, <1>6, Zenon DEF Next

\* The inductive invariant holds in every state of the outbox.
THEOREM Invariance == Spec => []IInv
  BY InitIInv, NextIInv, PTL DEF Spec

\* Rows and jobs keep their types, rows belong to stored events, and a lease
\* token names one job.
THEOREM TypeCorrect == Spec => []TypeOK
<1>1. IInv => TypeOK
  BY Zenon DEF IInv
<1> QED BY <1>1, Invariance, PTL

\* Whatever crashes, reorgs, requeues and late answers happen, the outbox says
\* "delivered" only of contents the destination has processed (transition).
THEOREM DeliveredReceived == Spec => []DeliveredWasReceived
<1>1. IInv => DeliveredWasReceived
  BY Zenon DEF IInv
<1> QED BY <1>1, Invariance, PTL

\* A claim that returns with more of its lease than a request can take covers the
\* request: no more items are claimed than there are workers, so that each starts
\* at once and its timeout comes before the end of the lease (DrainOnce).
THEOREM LeaseCovers == Spec => []LeaseCoversRequest
<1>1. IInv => LeaseCoversRequest
  <2> SUFFICES ASSUME IInv, NEW j \in jobs, j.phase = "posting",
                      deliveries[j.key].token = j.token, Timely(j)
               PROVE  deliveries[j.key].status = "pending" /\ deliveries[j.key].wait > 0
    BY Zenon DEF LeaseCoversRequest
  <2> DEFINE w == deliveries[j.key].wait
             l == j.left
             m == j.lease
  <2>1. TypeOK
    BY Zenon DEF IInv
  <2>2. w \in Int /\ l \in 0..HTTPTimeout /\ m \in Int /\ m > HTTPTimeout
    BY <2>1, JobType, RowType, Zenon DEF Timely
  <2>3. deliveries[j.key].status = "pending" /\ w >= l + (m - HTTPTimeout)
    BY Zenon DEF IInv, HeldInv
  <2> HIDE DEF w, l, m
  <2>4. w > 0
    BY <2>2, <2>3, OptionsAssumption
  <2> QED BY <2>3, <2>4, Zenon DEF w
<1> QED BY <1>1, Invariance, PTL

\* A dead letter has used up its attempts, and settled rows carry no lease
\* (Worker.fail, transition).
THEOREM DeadRetried == Spec => []DeadWasRetried
<1>1. IInv => DeadWasRetried
  BY Zenon DEF IInv
<1> QED BY <1>1, Invariance, PTL

----------------------------------------------------------------------------
(* The outbox implements the ledger. *)

\* The status column, which is what the ledger shows of the rows.
StatusOf == [k \in Keys |-> deliveries[k].status]

\* The ledger speaks of the same deliveries.
LEMMA LedgerKeys == Ledger!Keys = Keys
  BY Zenon DEF Ledger!Keys, Keys

\* A step that only leases rows, or moves items, is at most a receipt.
LEMMA QuietImplements ==
    ASSUME UNCHANGED event, StatusOf' = StatusOf, received \subseteq received'
    PROVE  Ledger!Next
  BY Zenon DEF StatusOf, Ledger!Next, Ledger!Receive

\* Deleting events withdraws their deliveries from the ledger.
LEMMA WithdrawImplements ==
    ASSUME NEW E \in SUBSET EventIDs, DeleteEvents(E) PROVE Ledger!Next
<1>1. StatusOf' = [k \in Keys |-> IF k[1] \in E THEN "none" ELSE StatusOf[k]]
  BY ConstantRows, Zenon DEF StatusOf, DeleteEvents
<1>2. Ledger!Withdraw(E)
  BY <1>1, LedgerKeys, Zenon DEF StatusOf, DeleteEvents, Ledger!Withdraw
<1> QED BY <1>2, Zenon DEF Ledger!Next

\* A requeue reopens dead letters and nothing else.
LEMMA ReopenImplements ==
    ASSUME NEW K \in SUBSET Dead, Requeue(K) PROVE Ledger!Next
<1>1. K \in SUBSET Keys /\ \A k \in K : StatusOf[k] = "dead"
  BY Zenon DEF Dead, StatusOf
<1>2. StatusOf' = [k \in Keys |-> IF k \in K THEN "pending" ELSE StatusOf[k]]
  BY ConstantRows, Zenon DEF StatusOf, Requeue
<1>3. Ledger!Reopen(K)
  BY <1>1, <1>2, LedgerKeys, Zenon DEF StatusOf, Requeue, Ledger!Reopen
<1> QED BY <1>1, <1>3, LedgerKeys, Zenon DEF Ledger!Next

\* The record of an outcome settles the leased row, retries it, or does nothing.
LEMMA TransitionImplements ==
    ASSUME IInv, NEW j \in jobs, NEW row, Transition(j, row),
           row.status \in {"pending", "delivered", "dead"},
           row.status = "delivered" => j.phase = "accepted"
    PROVE  Ledger!Next
<1>1. TypeOK /\ j.key \in Keys
  BY JobType, Zenon DEF IInv
<1>2. UNCHANGED <<event, received>>
  BY Zenon DEF Transition
<1>3. CASE ~Leased(j)
  BY <1>2, <1>3, QuietImplements, Zenon DEF Transition, StatusOf
<1>4. CASE Leased(j)
  <2>1. deliveries' = [deliveries EXCEPT ![j.key] = row]
    BY <1>4, Zenon DEF Transition
  <2>2. StatusOf[j.key] = "pending" /\ StatusOf' = [StatusOf EXCEPT ![j.key] = row.status]
    BY <1>1, <1>4, <2>1, Zenon DEF StatusOf, Leased, TypeOK
  <2>3. CASE row.status = "pending"
    BY <1>2, <2>2, <2>3, QuietImplements DEF StatusOf
  <2>4. CASE row.status = "dead"
    <3>1. Ledger!Bury(j.key)
      BY <1>2, <2>2, <2>4, Zenon DEF StatusOf, Ledger!Bury
    <3> QED BY <1>1, <3>1, LedgerKeys, Zenon DEF Ledger!Next
  <2>5. CASE row.status = "delivered"
    <3>1. <<j.key, event[j.key[1]]>> \in received
      BY <1>4, <2>5, Zenon DEF IInv, HeldInv, ReceivedInv, Leased, Post
    <3>2. Ledger!Deliver(j.key)
      BY <1>2, <2>2, <2>5, <3>1, Zenon DEF StatusOf, Ledger!Deliver
    <3> QED BY <1>1, <3>2, LedgerKeys, Zenon DEF Ledger!Next
  <2> QED BY <2>3, <2>4, <2>5, Zenon
<1> QED BY <1>3, <1>4, Zenon

\* Every step of the outbox is a step of the ledger or leaves it alone.
LEMMA StepImplements ==
    ASSUME IInv, IInv', [Next]_vars
    PROVE  [Ledger!Next]_<<event, StatusOf, received>>
<1>1. TypeOK
  BY Zenon DEF IInv
<1>2. ASSUME NEW e \in EventIDs, NEW c \in Contents, NEW D \in SUBSET Destinations,
             Save(e, c, D)
      PROVE  Ledger!Next
  <2>1. StatusOf' = [k \in Keys |-> IF k[1] = e /\ k[2] \in D THEN "pending"
                                    ELSE StatusOf[k]]
    BY <1>2, ConstantRows, Zenon DEF StatusOf, Save
  <2>2. Ledger!Enter(e, c, D)
    BY <1>2, <2>1, LedgerKeys, Zenon DEF StatusOf, Save, Ledger!Enter
  <2> QED BY <2>2, Zenon DEF Ledger!Next
<1>3. CASE Produce
  BY <1>2, <1>3, WithdrawImplements, Zenon DEF Produce, Rewind, PruneDeliveredBefore
<1>4. ASSUME NEW p \in Processes, Boot(p) \/ Work(p) PROVE Ledger!Next
  <2>1. CASE Boot(p) \/ DrainOnce(p)
    BY <2>1, QuietImplements, Zenon DEF Boot, DrainOnce, StatusOf
  <2>2. CASE ClaimDueDeliveries(p)
    <3>1. PICK K \in SUBSET Due(age[p]) : \E token \in NewTokens(K) :
            deliveries' = [k \in Keys |->
                             IF k \in K THEN Claimed(k, token[k], LeaseDuration - age[p])
                             ELSE deliveries[k]]
      BY <2>2, ClaimStep, ZenonT(40)
    <3>2. \A t, n : \A k \in Keys : Claimed(k, t, n).status = deliveries[k].status
      BY <1>1, RowType, Zenon DEF Claimed, DeliveryRows
    <3>3. StatusOf' = StatusOf
      BY <3>1, <3>2 DEF StatusOf
    <3> QED BY <2>2, <3>3, QuietImplements, Zenon DEF ClaimDueDeliveries
  <2>3. ASSUME NEW j \in jobs, Start(j) \/ Accept(j) \/ Refuse(j) PROVE Ledger!Next
    BY <2>3, QuietImplements, Zenon DEF Start, Accept, Refuse, StatusOf
  <2>4. ASSUME NEW j \in jobs PROVE j.key \in Keys
    BY <1>1, JobType, Zenon
  <2>5. ASSUME NEW j \in jobs, MarkDeliveryDelivered(j) PROVE Ledger!Next
    BY <2>5, ConstantRows, TransitionImplements, Zenon DEF MarkDeliveryDelivered
  <2>6. ASSUME NEW j \in jobs, Fail(j) PROVE Ledger!Next
    <3> DEFINE dead == Buried(j.key)
               retry == [Released(j.key) EXCEPT !.wait = Backoff[j.attempts]]
    <3>1. dead.status = "dead"
      BY <1>1, <2>4, BuriedRow, Zenon
    <3>2. retry.status = deliveries[j.key].status
      BY <1>1, <2>4, ReleasedRow, RowType, Zenon DEF DeliveryRows, Released
    <3>3. Transition(j, dead) \/ Transition(j, retry)
      BY <2>6, Zenon DEF Fail
    <3> HIDE DEF dead, retry
    <3>4. CASE ~Leased(j)
      BY <3>3, <3>4, QuietImplements, Zenon DEF Transition, StatusOf
    <3>5. CASE Leased(j)
      <4>1. retry.status = "pending"
        BY <3>2, <3>5, Zenon DEF Leased
      <4> QED BY <3>1, <3>3, <4>1, TransitionImplements, Zenon
    <3> QED BY <3>4, <3>5, Zenon
  <2> QED BY <1>4, <2>1, <2>2, <2>3, <2>5, <2>6, Zenon DEF Work, JobsOf
<1>5. CASE Break
  BY <1>5, QuietImplements, Zenon DEF Break, Crash, LoseClaim, LoseOutcome, StatusOf
<1>6. CASE Operate
  BY <1>6, ReopenImplements, Zenon
  DEF Operate, RequeueAllDead, RequeueDeadByGUID, RequeueDeadDeliveryAudited
<1>7. CASE Tick
  <2>1. \A k \in Keys : [deliveries[k] EXCEPT !.wait = Later(@)].status
                          = deliveries[k].status
    BY <1>1, RowType, Zenon DEF DeliveryRows
  <2>2. StatusOf' = StatusOf
    BY <1>7, <2>1, Zenon DEF Tick, StatusOf
  <2> QED BY <1>7, <2>2, QuietImplements, Zenon DEF Tick
<1>8. CASE UNCHANGED vars
  BY <1>8, Zenon DEF vars, StatusOf
<1> QED BY <1>3, <1>4, <1>5, <1>6, <1>7, <1>8, Zenon DEF Next

\* The outbox implements the ledger of obligations: an event is entered and
\* withdrawn together with its deliveries, a delivery is settled as delivered
\* only after the stored contents were received, and only dead letters reopen.
THEOREM Refinement == Spec => ImplementsLedger
<1>1. Init => Ledger!Init
  BY LedgerKeys, ConstantRows, Zenon DEF Init, Ledger!Init
<1>2. IInv /\ IInv' /\ [Next]_vars
        => [Ledger!Next]_<<event, [k \in Keys |-> deliveries[k].status], received>>
  BY StepImplements, Zenon DEF StatusOf
<1> QED BY <1>1, <1>2, Invariance, PTL DEF Spec, ImplementsLedger, Ledger!Spec

----------------------------------------------------------------------------
(* Steps. *)

\* The history of an obligation: an event is never changed in place, it keeps its
\* contents until it is withdrawn; a delivery that was made stays made, and one
\* that was not entered with its event is never entered later, until then; and
\* what a destination has received stays received.
HistoryKept ==
    [][/\ \A e \in EventIDs : event[e] # NoEvent =>
            /\ event'[e] \in {event[e], NoEvent}
            /\ \A d \in Destinations : event'[e] # NoEvent =>
                 /\ deliveries[<<e, d>>].status = "delivered" =>
                      deliveries'[<<e, d>>].status = "delivered"
                 /\ deliveries[<<e, d>>].status = "none" =>
                      deliveries'[<<e, d>>].status = "none"
                 /\ deliveries[<<e, d>>].status = "dead" =>
                      deliveries'[<<e, d>>].status \in {"dead", "pending"}
       /\ received \subseteq received']_vars

\* A step of the ledger keeps the history.
LEMMA LedgerKeepsHistory ==
    ASSUME TypeOK, Ledger!Next, NEW e \in EventIDs, event[e] # NoEvent
    PROVE  /\ event'[e] \in {event[e], NoEvent}
           /\ \A d \in Destinations : event'[e] # NoEvent =>
                /\ StatusOf[<<e, d>>] \in {"delivered", "none"} =>
                     StatusOf'[<<e, d>>] = StatusOf[<<e, d>>]
                /\ StatusOf[<<e, d>>] = "dead" => StatusOf'[<<e, d>>] \in {"dead", "pending"}
<1>1. /\ event \in [EventIDs -> Contents \cup {NoEvent}]
      /\ \A d \in Destinations : <<e, d>> \in Keys /\ <<e, d>>[1] = e
  BY Zenon DEF TypeOK, Keys
<1>2. ASSUME NEW f \in EventIDs, NEW c \in Contents, NEW D \in SUBSET Destinations,
             Ledger!Enter(f, c, D)
      PROVE  /\ event'[e] = event[e]
             /\ \A d \in Destinations : StatusOf'[<<e, d>>] = StatusOf[<<e, d>>]
  BY <1>1, <1>2, LedgerKeys, Zenon DEF Ledger!Enter, StatusOf
<1>3. ASSUME NEW E \in SUBSET EventIDs, Ledger!Withdraw(E)
      PROVE  /\ event'[e] \in {event[e], NoEvent}
             /\ \A d \in Destinations : event'[e] # NoEvent =>
                  StatusOf'[<<e, d>>] = StatusOf[<<e, d>>]
  BY <1>1, <1>3, LedgerKeys, Zenon DEF Ledger!Withdraw, StatusOf
<1>4. ASSUME Ledger!Receive
      PROVE  event' = event /\ StatusOf' = StatusOf
  BY <1>4, Zenon DEF Ledger!Receive, StatusOf
<1>5. ASSUME NEW k \in Keys, Ledger!Deliver(k) \/ Ledger!Bury(k)
      PROVE  /\ event' = event
             /\ \A m \in Keys : StatusOf'[m] = StatusOf[m] \/ StatusOf[m] = "pending"
  BY <1>5, LedgerKeys, Zenon DEF Ledger!Deliver, Ledger!Bury, StatusOf
<1>6. ASSUME NEW K \in SUBSET Keys, Ledger!Reopen(K)
      PROVE  /\ event' = event
             /\ \A m \in Keys : \/ StatusOf'[m] = StatusOf[m]
                                \/ StatusOf[m] = "dead" /\ StatusOf'[m] = "pending"
  BY <1>6, LedgerKeys, Zenon DEF Ledger!Reopen, StatusOf
<1> QED BY <1>1, <1>2, <1>3, <1>4, <1>5, <1>6, LedgerKeys, Zenon DEF Ledger!Next

\* Nothing that was promised or delivered is undone, whatever leases, answers and
\* requeues are in flight: it follows from the ledger alone.
THEOREM PromisesKept == Spec => HistoryKept
<1> DEFINE Kept ==
      /\ \A e \in EventIDs : event[e] # NoEvent =>
            /\ event'[e] \in {event[e], NoEvent}
            /\ \A d \in Destinations : event'[e] # NoEvent =>
                 /\ deliveries[<<e, d>>].status = "delivered" =>
                      deliveries'[<<e, d>>].status = "delivered"
                 /\ deliveries[<<e, d>>].status = "none" =>
                      deliveries'[<<e, d>>].status = "none"
                 /\ deliveries[<<e, d>>].status = "dead" =>
                      deliveries'[<<e, d>>].status \in {"dead", "pending"}
      /\ received \subseteq received'
<1>1. ASSUME IInv, IInv', [Next]_vars PROVE [Kept]_vars
  <2>1. [Ledger!Next]_<<event, StatusOf, received>>
    BY <1>1, StepImplements, Zenon
  <2>2. received \subseteq received'
    BY <2>1, Zenon DEF Ledger!Next, Ledger!Enter, Ledger!Withdraw, Ledger!Receive,
         Ledger!Deliver, Ledger!Bury, Ledger!Reopen
  <2>3. ASSUME NEW e \in EventIDs, NEW d \in Destinations
        PROVE  /\ deliveries[<<e, d>>].status = StatusOf[<<e, d>>]
               /\ deliveries'[<<e, d>>].status = StatusOf'[<<e, d>>]
    BY Zenon DEF StatusOf, Keys
  <2>4. CASE Ledger!Next
    <3> SUFFICES ASSUME NEW e \in EventIDs, event[e] # NoEvent
                 PROVE  /\ event'[e] \in {event[e], NoEvent}
                        /\ \A d \in Destinations : event'[e] # NoEvent =>
                             /\ deliveries[<<e, d>>].status = "delivered" =>
                                  deliveries'[<<e, d>>].status = "delivered"
                             /\ deliveries[<<e, d>>].status = "none" =>
                                  deliveries'[<<e, d>>].status = "none"
                             /\ deliveries[<<e, d>>].status = "dead" =>
                                  deliveries'[<<e, d>>].status \in {"dead", "pending"}
      BY <2>2, Zenon
    <3>1. TypeOK
      BY <1>1, Zenon DEF IInv
    <3>2. event'[e] \in {event[e], NoEvent}
      BY <2>4, <3>1, LedgerKeepsHistory, Zenon
    <3>3. ASSUME NEW d \in Destinations, event'[e] # NoEvent
          PROVE  /\ StatusOf[<<e, d>>] \in {"delivered", "none"} =>
                      StatusOf'[<<e, d>>] = StatusOf[<<e, d>>]
                 /\ StatusOf[<<e, d>>] = "dead" =>
                      StatusOf'[<<e, d>>] \in {"dead", "pending"}
      BY <2>4, <3>1, <3>3, LedgerKeepsHistory, Zenon
    <3> QED BY <2>3, <3>2, <3>3, Zenon
  <2>5. CASE UNCHANGED <<event, StatusOf, received>>
    BY <2>2, <2>3, <2>5, Zenon
  <2> QED BY <2>1, <2>4, <2>5, Zenon
<1> QED BY <1>1, Invariance, PTL DEF Spec, HistoryKept

\* A claim takes the row away from nobody who is about to send or is sending: a
\* job that holds the lease of its row before its answer is known still holds it
\* after every step, until it is gone itself or its event was withdrawn, unless
\* its own claim came back with no more of the lease than a request can take.
\* This is what "Do not lease work that cannot start immediately" is for.
LeaseKept ==
    [][\A j \in jobs :
         j.phase \in {"queued", "posting"} /\ Leased(j) /\ Timely(j) =>
           Leased(j)' \/ event'[j.key[1]] = NoEvent]_vars

\* A row that is not due is not claimed, however old the clock reading is.
LEMMA HeldNotDue ==
    ASSUME IInv, NEW j \in jobs, j.phase \in {"queued", "posting"}, Leased(j), Timely(j)
    PROVE  /\ j \in Jobs /\ j.key \in Keys /\ j.token # NoToken
           /\ deliveries[j.key] \in DeliveryRows /\ j.key \notin Dead
           /\ \A a \in Nat \cup {Idle} : a # Idle => j.key \notin Due(a)
<1>1. /\ j \in Jobs /\ j.key \in Keys /\ j.token \in Tokens /\ j.left \in 0..HTTPTimeout
      /\ j.lease \in Int /\ deliveries[j.key] \in DeliveryRows
  BY Zenon DEF IInv, TypeOK, Jobs
<1>2. deliveries[j.key].wait > 0 /\ deliveries[j.key].wait \in Int
  <2>1. \/ deliveries[j.key].wait = j.lease
        \/ deliveries[j.key].wait >= j.left + (j.lease - HTTPTimeout)
    BY Zenon DEF IInv, HeldInv, Leased
  <2>2. deliveries[j.key].wait \in Int
    BY <1>1, Zenon DEF DeliveryRows
  <2>3. j.lease > HTTPTimeout
    BY Zenon DEF Timely
  <2>4. HTTPTimeout \in Nat /\ j.left \in Nat /\ j.lease \in Int
    BY <1>1, OptionsAssumption
  <2> DEFINE wait == deliveries[j.key].wait
             left == j.left
             lease == j.lease
  <2> HIDE DEF wait, left, lease
  <2>5. ASSUME wait \in Int, left \in Nat, lease \in Int, HTTPTimeout \in Nat,
               lease > HTTPTimeout, wait = lease \/ wait >= left + (lease - HTTPTimeout)
        PROVE  wait > 0
    BY <2>5
  <2> QED BY <2>1, <2>2, <2>3, <2>4, <2>5, Zenon DEF wait, left, lease
<1>3. \A a \in Nat \cup {Idle} : a # Idle => j.key \notin Due(a)
  BY <1>2 DEF Due
<1> QED BY <1>1, <1>3, NullAssumption, Zenon DEF Dead, Leased

\* The claims of all processes together.
THEOREM LeasesKept == Spec => LeaseKept
<1>1. ASSUME IInv, [Next]_vars
      PROVE  [\A j \in jobs :
                j.phase \in {"queued", "posting"} /\ Leased(j) /\ Timely(j) =>
                  Leased(j)' \/ event'[j.key[1]] = NoEvent]_vars
  <2> SUFFICES ASSUME Next, NEW j \in jobs, j.phase \in {"queued", "posting"},
                      Leased(j), Timely(j)
               PROVE  Leased(j)' \/ event'[j.key[1]] = NoEvent
    BY <1>1, Zenon
  <2> DEFINE k == j.key
  <2>1. /\ TypeOK /\ j \in Jobs /\ k \in Keys /\ j.token # NoToken
        /\ deliveries[k] \in DeliveryRows /\ k \notin Dead
        /\ \A a \in Nat \cup {Idle} : a # Idle => k \notin Due(a)
        /\ k[1] \in EventIDs
        /\ deliveries[k].status = "pending" /\ deliveries[k].token = j.token
    BY <1>1, HeldNotDue, Zenon DEF IInv, Leased, Keys
  <2>2. Leased(j)' <=> deliveries'[k].status = "pending" /\ deliveries'[k].token = j.token
    BY Zenon DEF Leased
  <2> HIDE DEF k
  <2>3. CASE deliveries'[k] = deliveries[k]
    BY <2>1, <2>2, <2>3, Zenon
  <2>4. ASSUME NEW e \in EventIDs, NEW c \in Contents, NEW D \in SUBSET Destinations,
               Save(e, c, D)
        PROVE  deliveries'[k] = deliveries[k]
    BY <2>1, <2>4, Zenon DEF Save, TypeOK
  <2>5. ASSUME NEW E \in SUBSET EventIDs, DeleteEvents(E)
        PROVE  deliveries'[k] = deliveries[k] \/ event'[k[1]] = NoEvent
    BY <2>1, <2>5, Zenon DEF DeleteEvents
  <2>6. ASSUME NEW p \in Processes, ClaimDueDeliveries(p)
        PROVE  deliveries'[k] = deliveries[k]
    <3>1. k \notin Due(age[p])
      BY <2>1, <2>6, Zenon DEF ClaimDueDeliveries, TypeOK
    <3>2. PICK K \in SUBSET Due(age[p]) : \E token \in NewTokens(K) :
            deliveries' = [m \in Keys |->
                             IF m \in K THEN Claimed(m, token[m], LeaseDuration - age[p])
                             ELSE deliveries[m]]
      BY <2>6, ClaimStep, Zenon
    <3> QED BY <2>1, <3>1, <3>2, Zenon
  <2>7. ASSUME NEW i \in jobs, NEW row, Transition(i, row),
               i.phase \in {"accepted", "failed"}
        PROVE  deliveries'[k] = deliveries[k]
    <3>1. i.token # j.token
      BY <2>1, <2>7, Zenon DEF TypeOK
    <3>2. CASE i.key = k
      BY <2>1, <2>7, <3>1, <3>2, Zenon DEF Transition, Leased
    <3>3. CASE i.key # k
      BY <2>1, <2>7, <3>3, Zenon DEF Transition, TypeOK
    <3> QED BY <3>2, <3>3, Zenon
  <2>8. ASSUME NEW K \in SUBSET Dead, Requeue(K)
        PROVE  deliveries'[k] = deliveries[k]
    BY <2>1, <2>8, Zenon DEF Requeue
  <2>9. CASE Tick
    <3>1. deliveries'[k] = [deliveries[k] EXCEPT !.wait = Later(@)]
      BY <2>1, <2>9, Zenon DEF Tick
    <3>2. deliveries'[k].status = "pending" /\ deliveries'[k].token = j.token
      BY <2>1, <3>1, Zenon DEF DeliveryRows
    <3> QED BY <2>2, <3>2, Zenon
  <2>10. CASE UNCHANGED deliveries
    BY <2>3, <2>10, Zenon
  <2>11. CASE Produce
    BY <2>3, <2>4, <2>5, <2>11, Zenon DEF Produce, Rewind, PruneDeliveredBefore, k
  <2>12. ASSUME NEW i \in jobs, MarkDeliveryDelivered(i) \/ Fail(i)
         PROVE  deliveries'[k] = deliveries[k]
    BY <2>7, <2>12, Zenon DEF MarkDeliveryDelivered, Fail
  <2>13. CASE Operate
    <3>1. \E K \in SUBSET Dead : Requeue(K)
      BY <2>13, Zenon DEF Operate, RequeueAllDead, RequeueDeadByGUID,
           RequeueDeadDeliveryAudited
    <3> QED BY <2>3, <2>8, <3>1, Zenon
  <2>14. ASSUME NEW p \in Processes, Boot(p) \/ Work(p)
         PROVE  Leased(j)' \/ event'[j.key[1]] = NoEvent
    BY <2>3, <2>6, <2>10, <2>12, <2>14, Zenon
    DEF Work, JobsOf, Boot, DrainOnce, Start, Accept, Refuse
  <2>15. CASE Break
    BY <2>10, <2>15, Zenon DEF Break, Crash, LoseClaim, LoseOutcome
  <2> QED BY <2>9, <2>11, <2>13, <2>14, <2>15, Zenon DEF Next
<1> QED BY <1>1, Invariance, PTL DEF Spec, LeaseKept
=============================================================================
