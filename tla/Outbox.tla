------------------------------- MODULE Outbox -------------------------------
(***************************************************************************)
(* internal/delivery and the outbox tables of the SQLite store (events,    *)
(* deliveries): the delivery workers of the engine processes that share a  *)
(* database, the scanners and backfills that enter and withdraw events,    *)
(* retention, and the operators who requeue dead letters.                  *)
(*                                                                         *)
(* Every store transaction is one action.  A request to a webhook is three *)
(* steps, its start, its outcome and the transaction that records it, so   *)
(* that everything else can happen in between.  A claim is two: DrainOnce  *)
(* reads the clock, and the transaction begins when the only connection of *)
(* the process is free; what is due, and the end of the lease, are counted *)
(* from the reading.                                                       *)
(*                                                                         *)
(* Time is counted in ticks.  A row keeps the time left until next_attempt *)
(* instead of the timestamp: it is due when no time is left.  Attempts are *)
(* counted up to MaxAttempts, beyond which the code does not tell them     *)
(* apart.  A retry is due Backoff after the transaction that schedules it. *)
(***************************************************************************)
EXTENDS Integers, FiniteSets

CONSTANTS EventIDs,      \* core.EventID
          Destinations,  \* webhook destinations
          Contents,      \* what an event can say; the same event has other
                         \*   contents when its transaction is mined again
          Processes,     \* engine processes on the database
          Tokens,        \* lease tokens
          NoEvent, NoToken,
          Workers, BatchSize, HTTPTimeout, LeaseDuration, MaxAttempts,
                         \* delivery.Options
          Backoff,       \* Backoff[n]: the retry delay after n attempts
          PollInterval,  \* delivery.Options: how late an idle process is at most
          MaxDelay,      \* bound: how long a claim waits for the connection
          MaxLate        \* bound: more lateness than this is not counted

\* NewWithObserver rejects other options.
ASSUME OptionsAssumption ==
    /\ Workers \in Nat \ {0} /\ BatchSize \in Nat \ {0}
    /\ HTTPTimeout \in Nat \ {0}
    /\ LeaseDuration \in Nat /\ LeaseDuration > HTTPTimeout
    /\ MaxAttempts \in Nat \ {0}
    /\ Backoff \in [1..MaxAttempts -> Nat \ {0}]
    /\ PollInterval \in Nat \ {0} /\ MaxDelay \in Nat
    /\ MaxLate \in Nat /\ MaxLate >= PollInterval /\ MaxLate >= MaxDelay
ASSUME NullAssumption == NoEvent \notin Contents /\ NoToken \notin Tokens

VARIABLES
    event,      \* events rows: event[e] is the contents, or NoEvent
    deliveries, \* deliveries rows, by <<event, destination>>
    running,    \* the processes that are up
    age,        \* age[p]: the age of the now with which p waits to claim, or Idle
    jobs,       \* claimed items the workers of the processes hold
    received    \* the pairs <<k, contents>> a destination has processed

vars == <<event, deliveries, running, age, jobs, received>>

Keys == EventIDs \X Destinations
Statuses == {"none", "pending", "delivered", "dead"}
Phases == {"queued", "posting", "accepted", "failed"}

Idle == -1
NoRow == [status |-> "none", attempts |-> 0, token |-> NoToken, wait |-> 0]
NewRow == [NoRow EXCEPT !.status = "pending"]

Init ==
    /\ event = [e \in EventIDs |-> NoEvent]
    /\ deliveries = [k \in Keys |-> NoRow]
    /\ running = {}
    /\ age = [p \in Processes |-> Idle]
    /\ jobs = {}
    /\ received = {}

----------------------------------------------------------------------------
(* Scanner, backfill and retention. *)

\* saveBatch for one event.  An event that is stored already keeps its
\* deliveries; one with other contents fails the batch.  Neither changes a row.
Save(e, c, D) ==
    /\ event[e] = NoEvent
    /\ event' = [event EXCEPT ![e] = c]
    /\ deliveries' = [k \in Keys |-> IF k[1] = e /\ k[2] \in D
                                     THEN NewRow ELSE deliveries[k]]
    /\ UNCHANGED <<running, age, jobs, received>>

\* DELETE FROM events, and the cascade to deliveries.
DeleteEvents(E) ==
    /\ event' = [e \in EventIDs |-> IF e \in E THEN NoEvent ELSE event[e]]
    /\ deliveries' = [k \in Keys |-> IF k[1] \in E THEN NoRow ELSE deliveries[k]]
    /\ UNCHANGED <<running, age, jobs, received>>

Stored == {e \in EventIDs : event[e] # NoEvent}

\* RewindCanonical, Rewind or ResetFrom: the events above some height.
Rewind(E) == E # {} /\ E \subseteq Stored /\ DeleteEvents(E)

\* Every delivery of the event was delivered, and there is one.
Prunable ==
    {e \in Stored :
        /\ \E d \in Destinations : deliveries[<<e, d>>].status # "none"
        /\ \A d \in Destinations :
             deliveries[<<e, d>>].status \in {"none", "delivered"}}

\* PruneDeliveredBefore: at most limit of them, by age of the event.
PruneDeliveredBefore(E) == E # {} /\ E \subseteq Prunable /\ DeleteEvents(E)

----------------------------------------------------------------------------
(* The delivery worker. *)

JobsOf(p) == {j \in jobs : j.process = p}


\* The rows that were due a ticks ago.
Due(a) == {k \in Keys : deliveries[k].status = "pending" /\ deliveries[k].wait <= -a}

\* Tokens are random and never repeat: a claim draws unused ones, one per row.
\* Which ones it draws makes no difference, and a token that no worker holds any
\* more is as good as a new one, because only workers present their tokens.
UsedTokens == {j.token : j \in jobs}
NewTokens(K) ==
    {t \in [K -> Tokens \ UsedTokens] : \A k, m \in K : t[k] = t[m] => k = m}

\* Mutant: as many items as a batch holds.
BatchLimit == BatchSize

\* DrainOnce does not lease work that cannot start immediately.
ClaimLimit == IF BatchSize < Workers THEN BatchSize ELSE Workers

CountAttempt(n) == IF n < MaxAttempts THEN n + 1 ELSE n

\* DrainOnce reads the clock.  It has waited for all its items before.
DrainOnce(p) ==
    /\ p \in running /\ age[p] = Idle /\ JobsOf(p) = {}
    /\ age' = [age EXCEPT ![p] = 0]
    /\ UNCHANGED <<event, deliveries, running, jobs, received>>

Claimed(k, token, lease) ==
    [deliveries[k] EXCEPT !.attempts = CountAttempt(@), !.token = token,
                          !.wait = lease]
\* lease is a history: what was left of the lease when the claim returned.
Job(p, k, token, lease) ==
    [process |-> p, key |-> k, token |-> token,
     attempts |-> CountAttempt(deliveries[k].attempts),
     contents |-> event[k[1]], phase |-> "queued", left |-> 0, lease |-> lease]

\* ClaimDueDeliveries: of the rows that were due at now those due for longest,
\* each under a token of its own, until now + LeaseDuration.
ClaimDueDeliveries(p) ==
    /\ age[p] # Idle
    /\ LET due == Due(age[p])
           lease == LeaseDuration - age[p]
       IN  \E K \in SUBSET due :
             /\ IsFiniteSet(K) /\ Cardinality(K) <= ClaimLimit
             /\ Cardinality(K) = ClaimLimit \/ K = due
             /\ \A k \in K, m \in due \ K : deliveries[k].wait <= deliveries[m].wait
             /\ NewTokens(K) # {}
             /\ LET token == CHOOSE t \in NewTokens(K) : TRUE
                IN  /\ deliveries' = [k \in Keys |->
                                        IF k \in K THEN Claimed(k, token[k], lease)
                                        ELSE deliveries[k]]
                    /\ jobs' = jobs \cup {Job(p, k, token[k], lease) : k \in K}
    /\ age' = [age EXCEPT ![p] = Idle]
    /\ UNCHANGED <<event, received, running>>

\* The transaction of the claim fails; Run logs the error and polls again.
LoseClaim(p) ==
    /\ age[p] # Idle
    /\ age' = [age EXCEPT ![p] = Idle]
    /\ UNCHANGED <<event, deliveries, running, jobs, received>>

Move(j, next) == jobs' = (jobs \ {j}) \cup {next}
\* The request is over; its times do not matter any more.
Ended(j, phase) == [j EXCEPT !.phase = phase, !.left = 0, !.lease = 0]

\* Goroutines of p that are busy with an item, from its request to its mark.
Busy(p) == {j \in JobsOf(p) : j.phase # "queued"}
CanStart(j) == j.phase = "queued" /\ Cardinality(Busy(j.process)) < Workers

\* A worker takes the item from the channel; the HTTP timeout starts.
Start(j) ==
    /\ CanStart(j)
    /\ Move(j, [j EXCEPT !.phase = "posting", !.left = HTTPTimeout])
    /\ UNCHANGED <<event, deliveries, received, running, age>>

Post(j) == <<j.key, j.contents>>

\* A 2xx answer.
Accept(j) ==
    /\ j.phase = "posting"
    /\ received' = received \cup {Post(j)}
    /\ Move(j, Ended(j, "accepted"))
    /\ UNCHANGED <<event, deliveries, running, age>>

\* Any other answer, a timeout or an error before or during the request; the
\* destination may have processed the request nevertheless.
Refuse(j) ==
    /\ j.phase = "posting"
    /\ received' \in {received, received \cup {Post(j)}}
    /\ Move(j, Ended(j, "failed"))
    /\ UNCHANGED <<event, deliveries, running, age>>

\* The WHERE clause of transition.
Leased(j) ==
    /\ deliveries[j.key].status = "pending"
    /\ deliveries[j.key].token = j.token

\* transition: no other row than the leased one changes.
Transition(j, row) ==
    /\ deliveries' = IF Leased(j) THEN [deliveries EXCEPT ![j.key] = row]
                     ELSE deliveries
    /\ jobs' = jobs \ {j}
    /\ UNCHANGED <<event, received, running, age>>

Released(k) == [deliveries[k] EXCEPT !.token = NoToken]
\* Of a settled row neither next_attempt nor, once delivered, attempts is read.
Delivered == [NoRow EXCEPT !.status = "delivered"]
Buried(k) == [Released(k) EXCEPT !.status = "dead", !.wait = 0]

\* Mutant: any answer counts as delivered.
MarkAnswered(j) ==
    /\ j.phase \in {"accepted", "failed"}
    /\ Transition(j, Delivered)

MarkDeliveryDelivered(j) ==
    /\ j.phase = "accepted"
    /\ Transition(j, Delivered)

\* Worker.fail: MarkDeliveryDead or ScheduleDeliveryRetry.
Fail(j) ==
    /\ j.phase = "failed"
    /\ IF j.attempts >= MaxAttempts
       THEN Transition(j, Buried(j.key))
       ELSE Transition(j, [Released(j.key) EXCEPT !.wait = Backoff[j.attempts]])

\* The transaction that records the outcome fails, for example because the
\* context was cancelled; the lease stays until it expires.
LoseOutcome(j) ==
    /\ j.phase \in {"accepted", "failed"}
    /\ jobs' = jobs \ {j}
    /\ UNCHANGED <<event, deliveries, received, running, age>>

\* The process stops.  Requests on their way may still be processed.
Crash(p) ==
    /\ p \in running
    /\ running' = running \ {p}
    /\ \E R \in SUBSET {Post(j) : j \in {i \in JobsOf(p) : i.phase = "posting"}} :
         received' = received \cup R
    /\ jobs' = jobs \ JobsOf(p)
    /\ age' = [age EXCEPT ![p] = Idle]
    /\ UNCHANGED <<event, deliveries>>

Boot(p) ==
    /\ p \notin running
    /\ running' = running \cup {p}
    /\ UNCHANGED <<event, deliveries, age, jobs, received>>

----------------------------------------------------------------------------
(* Operators. *)

Dead == {k \in Keys : deliveries[k].status = "dead"}

Requeue(K) ==
    /\ deliveries' = [k \in Keys |-> IF k \in K THEN NewRow ELSE deliveries[k]]
    /\ UNCHANGED <<event, running, age, jobs, received>>

RequeueAllDead == Dead # {} /\ Requeue(Dead)

\* Mutant: every delivery of the event, whatever its status.
RequeueByGUID(e) ==
    LET K == {k \in Keys : k[1] = e /\ deliveries[k].status # "none"}
    IN K # {} /\ Requeue(K)

RequeueDeadByGUID(e) ==
    LET K == {k \in Dead : k[1] = e} IN K # {} /\ Requeue(K)

RequeueDeadDeliveryAudited(k) == k \in Dead /\ Requeue({k})

----------------------------------------------------------------------------
(* Time. *)

Later(n) == IF n > -MaxLate THEN n - 1 ELSE n

\* Time passes only as far as the runtime lets it: a free worker takes its item
\* at once, the HTTP client ends a request at its timeout, and an idle process
\* polls; a claim gets the connection within MaxDelay.
Tick ==
    /\ \A j \in jobs : ~CanStart(j) /\ (j.phase = "posting" => j.left > 0)
    /\ \A p \in running : age[p] = Idle /\ JobsOf(p) = {} =>
         \A k \in Due(0) : deliveries[k].wait > -PollInterval
    /\ \A p \in Processes : age[p] < MaxDelay
    /\ age' = [p \in Processes |-> IF age[p] = Idle THEN Idle ELSE age[p] + 1]
    /\ deliveries' = [k \in Keys |->
                        IF deliveries[k].status = "pending"
                        THEN [deliveries[k] EXCEPT !.wait = Later(@)]
                        ELSE deliveries[k]]
    /\ jobs' = {IF j.phase = "posting" THEN [j EXCEPT !.left = @ - 1] ELSE j :
                  j \in jobs}
    /\ UNCHANGED <<event, received, running>>

----------------------------------------------------------------------------
Produce ==
    \/ \E e \in EventIDs, c \in Contents, D \in SUBSET Destinations : Save(e, c, D)
    \/ \E E \in SUBSET EventIDs : Rewind(E) \/ PruneDeliveredBefore(E)

\* What the loop of Run, its workers and its HTTP client do in process p.
Work(p) ==
    \/ DrainOnce(p) \/ ClaimDueDeliveries(p)
    \/ \E j \in JobsOf(p) :
         \/ Start(j) \/ Accept(j) \/ Refuse(j)
         \/ MarkDeliveryDelivered(j) \/ Fail(j)

Break ==
    \/ \E p \in Processes : Crash(p) \/ LoseClaim(p)
    \/ \E j \in jobs : LoseOutcome(j)

Operate ==
    \/ RequeueAllDead
    \/ \E e \in EventIDs : RequeueDeadByGUID(e)
    \/ \E k \in Keys : RequeueDeadDeliveryAudited(k)

Next ==
    \/ Produce \/ Break \/ Operate \/ Tick
    \/ \E p \in Processes : Boot(p) \/ Work(p)

Spec == Init /\ [][Next]_vars

\* In a process that is up, Worker.Run polls for ever, its goroutines run and
\* requests end by their timeout; and time passes.  Nothing makes a process
\* start, and nothing is assumed of one that has stopped.
FairSpec ==
    /\ Spec
    /\ \A p \in Processes : WF_vars(Work(p))
    /\ WF_vars(Tick)
----------------------------------------------------------------------------
(* Properties. *)

DeliveryRows == [status : Statuses, attempts : 0..MaxAttempts,
                 token : Tokens \cup {NoToken}, wait : Int]
Jobs == [process : Processes, key : Keys, token : Tokens,
         attempts : 1..MaxAttempts, contents : Contents, phase : Phases,
         left : 0..HTTPTimeout, lease : Int]

\* Every variable has the type of the column or field it stands for, rows belong
\* to stored events, and a token names one job.
TypeOK ==
    /\ event \in [EventIDs -> Contents \cup {NoEvent}]
    /\ deliveries \in [Keys -> DeliveryRows]
    /\ running \subseteq Processes
    /\ age \in [Processes -> Nat \cup {Idle}]
    /\ jobs \subseteq Jobs
    /\ received \subseteq Keys \X Contents
    /\ \A k \in Keys : event[k[1]] = NoEvent => deliveries[k].status = "none"
    /\ \A i, j \in jobs : i.token = j.token => i = j

\* A delivery is recorded as delivered only after its destination has processed
\* the event with the contents that are stored now: an answer that arrives after
\* the lease expired, after the event was withdrawn, or after it was stored again
\* from another block does not settle the delivery.
DeliveredWasReceived ==
    \A k \in Keys : deliveries[k].status = "delivered" =>
        <<k, event[k[1]]>> \in received

\* "Do not lease work that cannot start immediately": the lease of a request in
\* flight has not expired, so that no process claims the row a second time while
\* a destination is processing it.  The exception is a claim that waited so long
\* for the connection that it came back with no more of the lease than a request
\* can take: LeaseDuration is counted from the reading of the clock in DrainOnce.
Timely(j) == j.lease > HTTPTimeout
LeaseCoversRequest ==
    \A j \in jobs :
      j.phase = "posting" /\ deliveries[j.key].token = j.token /\ Timely(j) =>
        deliveries[j.key].status = "pending" /\ deliveries[j.key].wait > 0

\* A dead letter was claimed MaxAttempts times since it was entered or requeued,
\* and nobody holds a lease on a delivery that is settled.
DeadWasRetried ==
    \A k \in Keys :
      /\ deliveries[k].status = "dead" => deliveries[k].attempts = MaxAttempts
      /\ deliveries[k].status # "pending" => deliveries[k].token = NoToken

\* The outbox implements the ledger of obligations.
Ledger == INSTANCE DeliveryLedger
            WITH status <- [k \in Keys |-> deliveries[k].status]
ImplementsLedger == Ledger!Spec

\* Once one process stays up, no other comes back, and no claim or outcome is lost
\* any more, every pending delivery is delivered, becomes a dead letter, or is
\* withdrawn with its event, whatever leases the other processes have left.
Calm == \E p \in Processes : <>[](running = {p}) /\ <>[][~Break]_vars
=============================================================================
