------------------------------ MODULE Scanner ------------------------------
(***************************************************************************)
(* internal/scanner: one scanner following one chain, and the part of the  *)
(* SQLite store it owns (checkpoints, canonical_blocks, events).           *)
(*                                                                         *)
(* Every RPC is an action of its own, because the endpoint may switch to   *)
(* another fork (or to a lagging node) between any two of them.  Every     *)
(* store transaction is one action: the store has one connection and       *)
(* commits atomically.  Local computation is folded into the RPC or the    *)
(* transaction that precedes it.                                           *)
(***************************************************************************)
EXTENDS Chain, FiniteSets

CONSTANTS StartBlock,     \* Options.StartBlock
          BatchSize,      \* Options.BatchSize
          Confirmations,  \* Options.Confirmations
          ReorgDepth,     \* Options.ReorgDepth
          LaggingNodes    \* whether the endpoint may also answer from a node
                          \*   that is behind on the same fork

\* NewWithObserver rejects a zero batch size.
ASSUME OptionsAssumption ==
    /\ StartBlock \in Nat
    /\ BatchSize \in Nat \ {0}
    /\ Confirmations \in Nat
    /\ ReorgDepth \in Nat
    /\ LaggingNodes \in BOOLEAN

VARIABLES
    head,       \* head of the chain the endpoint currently answers from
    checkpoint, \* checkpoints row of the chain: a block, or NoHash
    canonical,  \* canonical_blocks rows: [number, hash, parent]
    events,     \* events rows: [id, block]
    pc,         \* the call ScanOnce makes next
    latest,     \* latestNumber
    walk,       \* canonical rows resumeBlock has still to compare
    from,       \* first block of the batch
    expected,   \* expectedParent
    endParent,  \* endHeader.ParentHash
    endHash,    \* beforeEndHash
    logs,       \* what eth_getLogs returned
    headers,    \* (hash, parent) of from, from + 1, ... read so far
    disturbed,  \* history: the endpoint left its fork between the read of the
                \*   end header and the read of the logs of this batch
    tainted     \* history: such a batch was committed since the last reset

store == <<checkpoint, canonical, events>>
batch == <<from, expected, endParent, endHash, logs, headers>>
local == <<pc, latest, walk, batch>>
history == <<disturbed, tainted>>
vars == <<head, store, local, history>>

Fetching == {"endHeader", "endHash", "filterLogs", "headers", "commit"}
Steps == {"idle", "checkpoint", "verifyHeader", "verifyHash", "walk", "rewind"}
             \cup Fetching

\* latest >= Confirmations whenever these are used.
ConfirmedHead == latest - Confirmations
To == IF from + BatchSize - 1 > ConfirmedHead
      THEN ConfirmedHead ELSE from + BatchSize - 1

Init ==
    /\ head = << >>
    /\ checkpoint = NoHash /\ canonical = {} /\ events = {}
    /\ pc = "idle" /\ latest = 0 /\ walk = {}
    /\ from = 0 /\ expected = NoHash /\ endParent = NoHash /\ endHash = NoHash
    /\ logs = {} /\ headers = << >>
    /\ disturbed = FALSE /\ tainted = FALSE

----------------------------------------------------------------------------
(* The endpoint. *)

\* A new block on top of the current head.
Extend(b) ==
    /\ b # << >> /\ ParentHash(b) = head
    /\ head' = b
    /\ UNCHANGED <<store, local, history>>

\* The endpoint answers from another fork, or from a node that lags behind.
Reorg(b) ==
    /\ ~IsAncestor(head, b)
    /\ LaggingNodes \/ ~IsAncestor(b, head)
    /\ head' = b
    /\ disturbed' = (disturbed \/ pc \in {"endHash", "filterLogs"})
    /\ UNCHANGED <<store, local, tainted>>

----------------------------------------------------------------------------
(* ScanOnce. *)

ClearBatch ==
    /\ from' = 0 /\ expected' = NoHash /\ endParent' = NoHash
    /\ endHash' = NoHash /\ logs' = {} /\ headers' = << >>

\* ScanOnce returns, with or without an error; Run sleeps and calls it again.
Return ==
    /\ pc' = "idle" /\ latest' = 0 /\ walk' = {} /\ disturbed' = FALSE
    /\ ClearBatch

\* The first call of fetchVerifiedBatch(n, ..., parent).
StartBatch(n, parent) ==
    /\ pc' = "endHeader" /\ from' = n /\ expected' = parent
    /\ endParent' = NoHash /\ endHash' = NoHash /\ logs' = {}
    /\ headers' = << >> /\ disturbed' = FALSE
    /\ walk' = {} /\ UNCHANGED latest

\* resumeBlock returned next; the checkpoint row is now cp.
Resume(next, cp) ==
    IF next > ConfirmedHead
    THEN Return
    ELSE StartBatch(next, IF next > StartBlock THEN cp ELSE NoHash)

\* verifyChainID and the latest header.  The endpoint serves the right chain:
\* a wrong chain ID is an error return, see Fail.
ReadLatest ==
    /\ pc = "idle"
    /\ Number(head) >= Confirmations
    /\ latest' = Number(head)
    /\ pc' = "checkpoint"
    /\ UNCHANGED <<head, store, walk, batch, history>>

\* resumeBlock up to its first RPC.
LoadCheckpoint ==
    /\ pc = "checkpoint"
    /\ \/ /\ checkpoint = NoHash
          /\ Resume(StartBlock, NoHash)
       \/ /\ checkpoint # NoHash
          /\ Number(checkpoint) > latest
          /\ Resume(latest + 1, checkpoint)
       \/ /\ checkpoint # NoHash
          /\ Number(checkpoint) <= latest
          /\ pc' = "verifyHeader"
          /\ UNCHANGED <<latest, walk, batch, disturbed>>
    /\ UNCHANGED <<head, store, tainted>>

\* headerByNumber(checkpoint) only tests that the block exists.
VerifyCheckpointHeader ==
    /\ pc = "verifyHeader"
    /\ IF Number(checkpoint) > Number(head)
       THEN Return
       ELSE pc' = "verifyHash" /\ UNCHANGED <<latest, walk, batch, disturbed>>
    /\ UNCHANGED <<head, store, tainted>>

\* CanonicalBlocks(limit): the newest rows.
CanonicalBlocks(limit) ==
    {r \in canonical :
        Cardinality({s \in canonical : s.number > r.number}) < limit}

\* Mutant: a checkpoint that left the chain is reported and never rewound.
VerifyCheckpointHashNoRewind ==
    /\ pc = "verifyHash"
    /\ \/ /\ Number(checkpoint) > Number(head)
          /\ Return
       \/ /\ Number(checkpoint) <= Number(head)
          /\ IF At(head, Number(checkpoint)) = checkpoint
             THEN Resume(Number(checkpoint) + 1, checkpoint)
             ELSE Return
    /\ UNCHANGED <<head, store, tainted>>

\* blockHashByNumber(checkpoint), and the history when the hash differs.
VerifyCheckpointHash ==
    /\ pc = "verifyHash"
    /\ \/ /\ Number(checkpoint) > Number(head)
          /\ Return
       \/ /\ Number(checkpoint) <= Number(head)
          /\ At(head, Number(checkpoint)) = checkpoint
          /\ Resume(Number(checkpoint) + 1, checkpoint)
       \/ /\ Number(checkpoint) <= Number(head)
          /\ At(head, Number(checkpoint)) # checkpoint
          /\ pc' = "walk"
          /\ walk' = {r \in CanonicalBlocks(ReorgDepth + 1) :
                        r.number <= latest}
          /\ UNCHANGED <<latest, batch, disturbed>>
    /\ UNCHANGED <<head, store, tainted>>

\* One iteration of the ancestor search: newest row first.
CompareAncestor ==
    /\ pc = "walk"
    /\ \E r \in walk :
         /\ \A s \in walk : s.number <= r.number
         /\ \/ /\ r.number > Number(head)
               /\ Return
            \/ /\ r.number <= Number(head)
               /\ IF At(head, r.number) = r.hash
                  THEN pc' = "rewind" /\ walk' = {r}
                  ELSE pc' = "walk" /\ walk' = walk \ {r}
               /\ UNCHANGED <<latest, batch, disturbed>>
    /\ UNCHANGED <<head, store, tainted>>

\* Mutant: the events of the abandoned blocks are deleted, the checkpoint row
\* keeps naming one of them.
RewindKeepsCheckpoint ==
    /\ pc = "rewind"
    /\ \E r \in walk :
         /\ events' = {e \in events : Number(e.block) <= r.number}
         /\ canonical' = {s \in canonical : s.number <= r.number}
         /\ Resume(r.number + 1, r.hash)
    /\ UNCHANGED <<head, checkpoint, tainted>>

\* RewindCanonical(r.number + 1, r.hash).
Rewind ==
    /\ pc = "rewind"
    /\ \E r \in walk :
         /\ events' = {e \in events : Number(e.block) <= r.number}
         /\ canonical' = {s \in canonical : s.number <= r.number}
         /\ checkpoint' = r.hash
         /\ Resume(r.number + 1, r.hash)
    /\ UNCHANGED <<head, tainted>>

\* No ancestor is left: ResetFrom(StartBlock).
ResetFrom ==
    /\ pc = "walk" /\ walk = {}
    /\ events' = {e \in events : Number(e.block) < StartBlock}
    /\ canonical' = {r \in canonical : r.number < StartBlock}
    /\ checkpoint' = NoHash
    /\ Resume(StartBlock, NoHash)
    /\ tainted' = FALSE
    /\ UNCHANGED head

----------------------------------------------------------------------------
(* fetchVerifiedBatch and the commit of the batch. *)

\* headerByNumber(to): number and parent hash only.
ReadEndHeader ==
    /\ pc = "endHeader"
    /\ IF To > Number(head)
       THEN Return
       ELSE /\ endParent' = ParentHash(At(head, To))
            /\ pc' = "endHash"
            /\ UNCHANGED <<latest, walk, from, expected, endHash, logs,
                           headers, disturbed>>
    /\ UNCHANGED <<head, store, tainted>>

\* canonicalHeaderByNumber(to): only the hash is kept.
ReadEndHash ==
    /\ pc = "endHash"
    /\ IF To > Number(head)
       THEN Return
       ELSE /\ endHash' = At(head, To)
            /\ pc' = "filterLogs"
            /\ UNCHANGED <<latest, walk, from, expected, endParent, logs,
                           headers, disturbed>>
    /\ UNCHANGED <<head, store, tainted>>

\* The step after a read of the headers or the logs.
AfterHeaders(read) == IF from + Len(read) = To THEN "commit" ELSE "headers"

\* Mutant: the first block of the batch is left out of the query.
FilterLogsSkipsFirst ==
    /\ pc = "filterLogs"
    /\ logs' = LogsBetween(head, from + 1, To)
    /\ pc' = AfterHeaders(headers)
    /\ UNCHANGED <<head, store, latest, walk, from, expected, endParent,
                   endHash, headers, history>>

FilterLogs ==
    /\ pc = "filterLogs"
    /\ logs' = LogsBetween(head, from, To)
    /\ pc' = AfterHeaders(headers)
    /\ UNCHANGED <<head, store, latest, walk, from, expected, endParent,
                   endHash, headers, history>>

\* One header of the range below To, alone or as an element of a JSON-RPC
\* batch, whose elements the endpoint may answer from different heads.
ReadHeader ==
    /\ pc = "headers"
    /\ LET n == from + Len(headers) IN
       IF n > Number(head)
       THEN Return
       ELSE LET b == At(head, n)
                read == Append(headers, [hash |-> b, parent |-> ParentHash(b)])
            IN /\ headers' = read
               /\ pc' = AfterHeaders(read)
               /\ UNCHANGED <<latest, walk, from, expected, endParent,
                              endHash, logs, disturbed>>
    /\ UNCHANGED <<head, store, tainted>>

\* The headers and hashes the verification compares: those read one by one,
\* and for To the pair read before the logs.
BatchHeaders == Append(headers, [hash |-> endHash, parent |-> endParent])

\* Mutants: the checks are forgotten.
ParentUnchecked == TRUE
LogsUnchecked == TRUE

ParentVerified == expected # NoHash /\ from > 0 => BatchHeaders[1].parent = expected
LinksVerified == \A i \in 2..Len(BatchHeaders) : BatchHeaders[i].parent = BatchHeaders[i-1].hash
LogsVerified ==
    \A l \in logs : l.block = BatchHeaders[Number(l.block) - from + 1].hash
Verified == ParentVerified /\ LinksVerified /\ LogsVerified

\* insertEvent fails when the identity is stored with other contents.
Conflict == \E e \in events, l \in logs : e.id = l.id /\ e.block # l.block

\* The rows of the batch as upserts by number.
BatchRows ==
    {[number |-> from + i - 1, hash |-> BatchHeaders[i].hash,
      parent |-> BatchHeaders[i].parent] : i \in 1..Len(BatchHeaders)}
Upsert(rows, new) ==
    {r \in rows : \A s \in new : s.number # r.number} \cup new
\* Pruned to the newest ReorgDepth + 1 heights.
Retained(rows) == {r \in rows : r.number + ReorgDepth >= To}

\* ProcessCanonicalBatch: the transaction of saveBatch.
SaveBatch ==
    /\ events' = events \cup logs
    /\ canonical' = Retained(Upsert(canonical, BatchRows))
    /\ checkpoint' = IF checkpoint = NoHash \/ To >= Number(checkpoint)
                     THEN endHash ELSE checkpoint
    /\ tainted' = (tainted \/ disturbed)

Commit ==
    /\ pc = "commit"
    /\ IF Verified /\ ~Conflict
       THEN /\ SaveBatch
            /\ IF To = ConfirmedHead THEN Return ELSE StartBatch(To + 1, endHash)
       ELSE Return /\ UNCHANGED <<store, tainted>>
    /\ UNCHANGED head

\* An RPC that fails after its retries, a cancelled context, an error of the
\* store or of the decoder, or a crash of the process: the open transaction is
\* rolled back and the next cycle starts from the store.
Fail ==
    /\ pc # "idle"
    /\ Return
    /\ UNCHANGED <<head, store, tainted>>

----------------------------------------------------------------------------
Scan ==
    \/ ReadLatest \/ LoadCheckpoint \/ VerifyCheckpointHeader
    \/ VerifyCheckpointHash \/ CompareAncestor \/ Rewind \/ ResetFrom
    \/ ReadEndHeader \/ ReadEndHash \/ FilterLogs \/ ReadHeader \/ Commit

Grow == \E b \in Blocks : Extend(b)
Switch == \E b \in Blocks : Reorg(b)

Next == Scan \/ Fail \/ Switch \/ Grow

Spec == Init /\ [][Next]_vars

\* Run calls ScanOnce for ever, and every call of ScanOnce returns or goes on
\* to its next RPC: RPCs have a timeout.
FairSpec == Spec /\ WF_vars(Scan)
----------------------------------------------------------------------------
(* Properties. *)

Hashes == Blocks \cup {NoHash}
Rows == [number : Nat, hash : Blocks, parent : Hashes]
Events == [id : EventIDs, block : Blocks]
Headers == [hash : Blocks, parent : Hashes]

\* Every variable has the type of the Go field or column it stands for, a row
\* of canonical_blocks is stored under the height of its block, and the batch
\* ScanOnce works on lies in the confirmed range.
TypeOK ==
    /\ head \in Blocks
    /\ checkpoint \in Hashes
    /\ canonical \subseteq Rows /\ \A r \in canonical : Number(r.hash) = r.number
    /\ events \subseteq Events
    /\ pc \in Steps
    /\ latest \in Nat
    /\ walk \subseteq canonical
    /\ from \in Nat
    /\ expected \in Hashes /\ endParent \in Hashes /\ endHash \in Hashes
    /\ logs \subseteq Events
    /\ headers \in Seq(Headers)
    /\ disturbed \in BOOLEAN /\ tainted \in BOOLEAN
    /\ pc \in Fetching => Confirmations <= latest /\ from <= ConfirmedHead

\* The rewind history is one unbroken chain of (hash, parent) rows that ends
\* in the checkpoint, whatever the endpoint does between two RPCs: it covers
\* the newest heights without a gap, and each row names the row below it as
\* its parent.  resumeBlock depends on it to find the newest common ancestor.
HistoryIsChain ==
    /\ checkpoint = NoHash => canonical = {}
    /\ checkpoint # NoHash =>
         \E r \in canonical : r.hash = checkpoint
    /\ \A r, s \in canonical : r.number = s.number => r = s
    /\ \A r \in canonical :
         /\ r.number <= Number(checkpoint)
         /\ r.number < Number(checkpoint) =>
              \E s \in canonical : s.number = r.number + 1 /\ s.parent = r.hash

\* A stored event is a log of the block it is stored with, that block lies in
\* the scanned range, and where the history still has a row for its height the
\* row has the same hash: no event of an abandoned fork survives a rewind.
EventsOnRecordedBlocks ==
    \A e \in events :
      /\ e.id \in Logs[e.block]
      /\ checkpoint # NoHash
      /\ Number(e.block) \in StartBlock..Number(checkpoint)
      /\ \A r \in canonical : r.number = Number(e.block) => r.hash = e.block

\* Unless a reorganisation hit a batch between its end header and its logs, the
\* events table holds exactly the matching logs of the checkpoint block and its
\* ancestors down to StartBlock: nothing is missing, nothing is left over from
\* another fork, however often the chain, the RPCs or the process fail.
CheckpointDescribesEvents ==
    ~tainted =>
      events = IF checkpoint = NoHash THEN {}
               ELSE LogsBetween(checkpoint, StartBlock, Number(checkpoint))

\* The store implements the abstract index: the checkpoint moves forward only
\* to a descendant and back only to an ancestor of the block it names, events
\* and checkpoint move in the same transaction, and only a batch torn between
\* its end header and its logs can break this until the next reset.
Index == INSTANCE ConfirmedIndex
           WITH tip <- checkpoint, index <- events, exact <- ~tainted
ImplementsIndex == Index!Spec

\* Once the chain stops switching forks and the endpoint, the store and the
\* process stop failing, the scanner reaches the confirmed head of the chain
\* and stays with it, or waits for the chain to reach its checkpoint.  There is
\* one exception: a batch torn by a switch may have stored an event of another
\* fork below a checkpoint the chain contains.  Nothing rewinds such an event,
\* and when its transaction is mined again above the checkpoint every batch
\* with it fails for ever as a conflict.
CaughtUp ==
    \/ Number(head) < Confirmations + StartBlock
    \/ /\ checkpoint # NoHash
       /\ \/ Number(checkpoint) > Number(head)
          \/ /\ IsAncestor(checkpoint, head)
             /\ Number(checkpoint) >= Number(head) - Confirmations
Stranded ==
    /\ tainted /\ checkpoint # NoHash /\ IsAncestor(checkpoint, head)
    /\ \E e \in events : ~IsAncestor(e.block, head)
Calm == <>[][Scan \/ Grow]_vars
CatchesUp == Calm => <>[](Stranded \/ CaughtUp)

\* TestReorgDuringEmptyLogQueryDoesNotAdvanceCheckpoint: a batch whose blocks
\* were replaced while its logs were queried is not committed.  So, whenever
\* the chain contains the checkpoint, no log of a recorded block is missing.
NoLogMissed ==
    checkpoint # NoHash /\ IsAncestor(checkpoint, head) =>
      \A r \in canonical : LogsOf(r.hash) \subseteq events
=============================================================================
