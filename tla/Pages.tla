------------------------------- MODULE Pages -------------------------------
(***************************************************************************)
(* The lists the management API serves page by page, newest entry first,   *)
(* while they change: event history, deliveries of an event, backfill      *)
(* jobs, the audits, and the operational events kept in memory.            *)
(*                                                                         *)
(* Every list is ordered by a key of its own, and a request names the last *)
(* key of the page before, so that no position in the list has to stay     *)
(* valid between two requests.  The lists differ in how they change.  The  *)
(* keys of events (time of observation) and jobs (time of creation) are    *)
(* chosen before the transaction begins, so new entries come anywhere;     *)
(* events go away with rewinds and retention, and a rewound event can be   *)
(* stored again.  The deliveries of an event come and go with it.  The     *)
(* audits only grow.  The operational events are a ring that drops the     *)
(* oldest and starts over with the process.  Deliveries are listed by      *)
(* ascending GUID, which is the same list with the keys reversed.  A       *)
(* behaviour follows one list and one client.                              *)
(***************************************************************************)
EXTENDS Integers, FiniteSets, Sequences

CONSTANTS MaxKey,    \* bound: keys
          Capacity,  \* operationalEventCapacity
          PageSizes  \* limits of requests

ASSUME PagesAssumption ==
    MaxKey \in Nat /\ Capacity \in Nat \ {0} /\ PageSizes \subseteq Nat \ {0}

Keys == 1..MaxKey
Audits == {"listener audit", "requeue audit", "backfill audit", "skip audit"}

VARIABLES
    list,    \* the list
    stored,  \* stored[k]: "absent", or whether the filter of the walk "shows"
             \* or "hides" the entry
    next,    \* the next number of a sequence or ring
    walk,    \* the walk of a client through the list
    stable   \* history: the entries the list has shown ever since it began

pagesVars == <<list, stored, next, walk, stable>>

Stored == {k \in Keys : stored[k] # "absent"}
Shown == {k \in Keys : stored[k] = "shows"}

NoWalk == [at |-> "start", before |-> 0, seen |-> <<>>]

PagesInit ==
    /\ list \in {"events", "deliveries", "jobs", "operational"} \cup Audits
    /\ stored = [k \in Keys |-> "absent"]
    /\ next = 1
    /\ walk = NoWalk
    /\ stable = {}

Keep(k, s) == stored' = [stored EXCEPT ![k] = s]

----------------------------------------------------------------------------
(* The lists change. *)

insertEvent(k, s) ==
    /\ list = "events" /\ stored[k] = "absent"
    /\ Keep(k, s)
    /\ UNCHANGED <<list, next, walk>>

\* A rewind or retention deletes the event.
DeleteEvent(k) ==
    /\ list = "events" /\ stored[k] # "absent"
    /\ Keep(k, "absent")
    /\ UNCHANGED <<list, next, walk>>

\* A delivery changes its status, by which the history can be filtered.
SetStatus(k) ==
    /\ list = "events" /\ stored[k] # "absent"
    /\ Keep(k, IF stored[k] = "shows" THEN "hides" ELSE "shows")
    /\ UNCHANGED <<list, next, walk>>

\* saveBatch: the event is stored with all its deliveries K; one that is stored
\* already gets no others.
insertDeliveries(K) ==
    /\ list = "deliveries" /\ Stored = {} /\ K # {}
    /\ stored' = [k \in Keys |-> IF k \in K THEN "shows" ELSE "absent"]
    /\ UNCHANGED <<list, next, walk>>

\* The deliveries go with their event.
DeleteDeliveries ==
    /\ list = "deliveries"
    /\ stored' = [k \in Keys |-> "absent"]
    /\ UNCHANGED <<list, next, walk>>

CreateBackfill(k) ==
    /\ list = "jobs" /\ stored[k] = "absent"
    /\ Keep(k, "shows")
    /\ UNCHANGED <<list, next, walk>>

\* insertRPCListenerAudit and the like.  The sequence is AUTOINCREMENT; only
\* skips are listed by listener.
InsertAudit(s) ==
    /\ list \in Audits /\ next \in Keys
    /\ s = "hides" => list = "skip audit"
    /\ Keep(next, s) /\ next' = next + 1
    /\ UNCHANGED <<list, walk>>

\* Mutant: the slice is shortened without being moved first.
appendUnmoved(s) ==
    /\ list = "operational" /\ next \in Keys
    /\ LET dropped == {k \in Stored : Cardinality(Stored) = Capacity
                                        /\ \A j \in Stored : k >= j}
       IN  stored' = [k \in Keys |-> IF k = next THEN s
                                     ELSE IF k \in dropped THEN "absent" ELSE stored[k]]
    /\ next' = next + 1
    /\ UNCHANGED <<list, walk>>

\* operationalEventBuffer.append.
append(s) ==
    /\ list = "operational" /\ next \in Keys
    /\ LET oldest == {k \in Stored : Cardinality(Stored) = Capacity
                                       /\ \A j \in Stored : k <= j}
       IN  stored' = [k \in Keys |-> IF k = next THEN s
                                     ELSE IF k \in oldest THEN "absent" ELSE stored[k]]
    /\ next' = next + 1
    /\ UNCHANGED <<list, walk>>

\* The process starts again: newOperationalEventBuffer.
NewBuffer ==
    /\ list = "operational"
    /\ stored' = [k \in Keys |-> "absent"] /\ next' = 1
    /\ UNCHANGED <<list, walk>>

----------------------------------------------------------------------------
(* The walk. *)

Newest(S, n) == {k \in S : Cardinality({j \in S : j > k}) < n}

\* ORDER BY the key, descending.
Descending(S) ==
    CHOOSE s \in [1..Cardinality(S) -> S] : \A i, j \in DOMAIN s : i < j => s[i] > s[j]

\* Mutant: the cursor is part of the next page.
BeyondInclusive(before) == {k \in Shown : before = 0 \/ k <= before}

\* The condition on the key; without a cursor there is none.
Beyond(before) == {k \in Shown : before = 0 \/ k < before}

\* The key of the last entry of the page (nextBefore, nextAfter).
LastOfPage(before, limit) ==
    CHOOSE k \in Newest(Beyond(before), limit) :
      \A j \in Newest(Beyond(before), limit) : k <= j

\* One entry more than the limit is read, to know whether there are more.
hasMore(before, limit) == Cardinality(Newest(Beyond(before), limit + 1)) > limit

Page(limit) ==
    /\ walk.at # "done"
    /\ LET entries == Descending(Newest(Beyond(walk.before), limit))
           more == hasMore(walk.before, limit)
       IN  walk' = [at |-> IF more THEN "next" ELSE "done",
                    before |-> IF more THEN LastOfPage(walk.before, limit) ELSE 0,
                    seen |-> walk.seen \o entries]
    /\ UNCHANGED <<list, stored, next>>

handleEventHistory(limit) == list = "events" /\ Page(limit)
handleEventDeliveries(limit) == list = "deliveries" /\ Page(limit)
handleBackfills(limit) == list = "jobs" /\ Page(limit)
handleRPCListenerAudit(limit) == list = "listener audit" /\ Page(limit)
handleDeliveryRequeueAudit(limit) == list = "requeue audit" /\ Page(limit)
handleBackfillAudit(limit) == list = "backfill audit" /\ Page(limit)
audit(limit) == list = "skip audit" /\ Page(limit)
handleOperationalEvents(limit) == list = "operational" /\ Page(limit)

Request(limit) ==
    \/ handleEventHistory(limit) \/ handleEventDeliveries(limit) \/ handleBackfills(limit)
    \/ handleRPCListenerAudit(limit) \/ handleDeliveryRequeueAudit(limit)
    \/ handleBackfillAudit(limit) \/ audit(limit) \/ handleOperationalEvents(limit)

\* The client has read enough.
Leave ==
    /\ walk.at # "start"
    /\ walk' = NoWalk
    /\ UNCHANGED <<list, stored, next>>

----------------------------------------------------------------------------
Change ==
    \/ \E k \in Keys : DeleteEvent(k) \/ SetStatus(k) \/ CreateBackfill(k)
    \/ \E s \in {"shows", "hides"} :
         InsertAudit(s) \/ append(s) \/ \E k \in Keys : insertEvent(k, s)
    \/ \E K \in SUBSET Keys : insertDeliveries(K)
    \/ DeleteDeliveries \/ NewBuffer

Watch == stable' = IF walk.at = "start" THEN Shown' ELSE stable \cap Shown'

PagesNext == (Change \/ Leave \/ \E limit \in PageSizes : Request(limit)) /\ Watch

PagesSpec == PagesInit /\ [][PagesNext]_pagesVars
----------------------------------------------------------------------------
(* Properties. *)

\* The ring keeps the newest entries, at most its capacity of them, numbered
\* without a gap (operationalEventBuffer.append).
PagesTypeOK ==
    /\ stored \in [Keys -> {"absent", "hides", "shows"}]
    /\ next \in 1..MaxKey + 1
    /\ walk.at \in {"start", "next", "done"} /\ walk.before \in Keys \cup {0}
    /\ walk.seen \in Seq(Keys)
    /\ list = "operational" =>
         /\ Cardinality(Stored) <= Capacity
         /\ Stored = (next - Cardinality(Stored))..(next - 1)
         /\ next > Capacity => Cardinality(Stored) = Capacity

\* A walk to the end has listed every entry that was there, and passed the
\* filter, from its first request to its last, exactly once, whatever is
\* inserted, deleted or evicted between the requests (handleEventHistory,
\* handleRPCListenerAudit, handleOperationalEvents).
ListedOnce ==
    walk.at = "done" => \A k \in stable :
      Cardinality({i \in DOMAIN walk.seen : walk.seen[i] = k}) = 1
=============================================================================
