--------------------------- MODULE Scanner_proofs ---------------------------
(***************************************************************************)
(* Proofs about Scanner, and about Scanner beside a backfill               *)
(* (BackfillIndex), for every chain, every start block, batch size, number *)
(* of confirmations and reorg depth, and every set of backfill jobs.       *)
(***************************************************************************)
EXTENDS BackfillIndex, TLAPS, WellFoundedInduction

----------------------------------------------------------------------------
(* The inductive invariant. *)

\* The cycle in progress agrees with the store: no other writer moves the
\* checkpoint, so the batch always continues where it ends.
CycleInv ==
    /\ pc # "idle" => Confirmations <= latest
    /\ pc \in {"verifyHeader", "verifyHash", "walk", "rewind"} =>
         checkpoint # NoHash
    /\ pc \in Fetching =>
         IF checkpoint = NoHash
         THEN from = StartBlock /\ expected = NoHash
         ELSE from = Number(checkpoint) + 1 /\ expected = checkpoint

\* Everything stored lies at or above StartBlock.
RangeInv ==
    /\ checkpoint # NoHash => StartBlock <= Number(checkpoint)
    /\ \A r \in canonical : StartBlock <= r.number

\* What the batch has read so far, whatever forks it was read from.
BatchInv ==
    /\ pc \in {"endHeader", "endHash", "filterLogs"} => headers = << >>
    /\ pc \in {"filterLogs", "headers", "commit"} =>
         endHash \in Blocks /\ Number(endHash) = To
    /\ pc \in {"headers", "commit"} =>
         /\ \A l \in logs : l.id \in Logs[l.block] /\ Number(l.block) \in from..To
         /\ \A i \in 1..Len(headers) :
              /\ Number(headers[i].hash) = from + i - 1
              /\ headers[i].parent = ParentHash(headers[i].hash)
    /\ pc = "headers" => from + Len(headers) < To
    /\ pc = "commit" => from + Len(headers) = To

\* What it has read if the endpoint kept its fork.
CalmInv ==
    ~disturbed =>
      /\ pc \in {"endHash", "filterLogs"} =>
           To <= Number(head) /\ endParent = ParentHash(At(head, To))
      /\ pc = "filterLogs" => endHash = At(head, To)
      /\ pc \in {"headers", "commit"} =>
           /\ endParent = ParentHash(endHash)
           /\ logs = LogsBetween(endHash, from, To)

\* The rows of the history are ancestors of the checkpoint.
AncestryInv ==
    ~tainted => \A r \in canonical : IsAncestor(r.hash, checkpoint)

IInv ==
    /\ TypeOK /\ HistoryIsChain /\ EventsOnRecordedBlocks
    /\ CheckpointDescribesEvents
    /\ CycleInv /\ RangeInv /\ BatchInv /\ CalmInv /\ AncestryInv
\* The parts of IInv that only depend on the store.
StoreType ==
    /\ checkpoint \in Hashes
    /\ canonical \subseteq Rows /\ \A r \in canonical : Number(r.hash) = r.number
    /\ events \subseteq Events
    /\ tainted \in BOOLEAN

StoreInv ==
    /\ HistoryIsChain /\ EventsOnRecordedBlocks /\ CheckpointDescribesEvents
    /\ RangeInv /\ AncestryInv

----------------------------------------------------------------------------
(* Blocks and their ancestors. *)

\* A non-empty set of naturals has a least element: the form of induction the
\* argument about a batch needs.
LEMMA LeastNumber ==
    ASSUME NEW T \in SUBSET Nat, T # {}
    PROVE  \E n \in T : \A m \in T : n <= m
<1>1. PICK n \in T : \A m \in T : <<m, n>> \notin OpToRel(<, Nat)
  BY NatLessThanWellFounded, WFMin, Zenon
<1>2. \A m \in T : ~(m < n)
  BY <1>1, Zenon DEF OpToRel
<1> QED BY <1>2

\* The height of a block is a natural number.
LEMMA NumberNat == \A b \in Blocks : Number(b) \in Nat
  BY BlocksAssumption DEF Number

\* The ancestor of a block at a height not above its own is a block of that
\* height.
LEMMA AtBlock ==
    \A b \in Blocks : \A n \in 0..Number(b) :
      At(b, n) \in Blocks /\ Number(At(b, n)) = n
  BY BlocksAssumption DEF At, Number

\* A block is its own ancestor at its own height.
LEMMA AtSelf == \A b \in Blocks : At(b, Number(b)) = b
  BY BlocksAssumption DEF At, Number

\* Ancestors of an ancestor are ancestors.
LEMMA AtAt ==
    \A b \in Blocks : \A n \in 0..Number(b) : \A m \in 0..n :
      At(At(b, n), m) = At(b, m)
<1> SUFFICES ASSUME NEW b \in Blocks, NEW n \in 0..Number(b), NEW m \in 0..n
             PROVE  At(At(b, n), m) = At(b, m)
  BY Zenon
<1>1. \A i \in 1..n : At(b, n)[i] = b[i]
  BY BlocksAssumption DEF At, Number
<1> QED BY <1>1, BlocksAssumption, AtBlock DEF At, Number

\* The parent of a block above genesis is its ancestor one height below.
LEMMA ParentAt ==
    \A b \in Blocks :
      /\ Number(b) > 0 => ParentHash(b) = At(b, Number(b) - 1)
      /\ ParentHash(b) \in Hashes
<1> SUFFICES ASSUME NEW b \in Blocks
             PROVE  /\ Number(b) > 0 => ParentHash(b) = At(b, Number(b) - 1)
                    /\ ParentHash(b) \in Hashes
  BY Zenon
<1>1. Number(b) > 0 <=> b # << >>
  BY BlocksAssumption DEF Number
<1>2. Number(b) > 0 => At(b, Number(b) - 1) \in Blocks
  BY AtBlock, NumberNat
<1> QED BY <1>1, <1>2, NumberNat, Zenon DEF ParentHash, Hashes

\* The empty hash is not a block.
LEMMA NoHashNotBlock == NoHash \notin Blocks
  BY BlocksAssumption, Zenon

\* Before a header is read.
LEMMA NoHeaders == << >> \in Seq(Headers)
  OBVIOUS

\* What eth_getLogs returns are logs of ancestors of the block asked for.
LEMMA LogsBetweenType ==
    ASSUME NEW b \in Blocks, NEW m \in Nat, NEW n \in Nat,
           NEW l \in LogsBetween(b, m, n)
    PROVE  /\ l \in Events
           /\ l.id \in Logs[l.block]
           /\ Number(l.block) \in m..n
           /\ Number(l.block) <= Number(b)
           /\ l.block = At(b, Number(l.block))
<1>1. PICK k \in {j \in m..n : j <= Number(b)} : l \in LogsOf(At(b, k))
  BY Zenon DEF LogsBetween
<1>2. At(b, k) \in Blocks /\ Number(At(b, k)) = k
  BY <1>1, AtBlock, NumberNat
<1>3. l.block = At(b, k) /\ l.id \in Logs[At(b, k)]
      /\ l = [id |-> l.id, block |-> l.block]
  BY <1>1 DEF LogsOf
<1>4. Logs[At(b, k)] \subseteq EventIDs
  BY <1>2, LogsAssumption, Zenon
<1> QED BY <1>1, <1>2, <1>3, <1>4, Zenon DEF Events

\* The logs of an ancestor are those of the block up to the ancestor's height.
LEMMA LogsOfPrefix ==
    ASSUME NEW b \in Blocks, NEW m \in Nat, NEW k \in 0..Number(b)
    PROVE  LogsBetween(At(b, k), m, k)
             = {l \in LogsBetween(b, m, Number(b)) : Number(l.block) <= k}
<1>1. At(b, k) \in Blocks /\ Number(At(b, k)) = k /\ k \in Nat /\ Number(b) \in Nat
  BY AtBlock, NumberNat, Zenon
<1>2. ASSUME NEW l \in LogsBetween(At(b, k), m, k)
      PROVE  l \in LogsBetween(b, m, Number(b)) /\ Number(l.block) <= k
  <2>1. PICK j \in m..k : l \in LogsOf(At(At(b, k), j))
    BY <1>2, Zenon DEF LogsBetween
  <2>2. At(At(b, k), j) = At(b, j)
    BY <1>1, AtAt
  <2>3. l.block = At(b, j)
    BY <2>1, <2>2 DEF LogsOf
  <2> QED BY <1>1, <2>1, <2>2, <2>3, AtBlock DEF LogsBetween
<1>3. ASSUME NEW l \in LogsBetween(b, m, Number(b)), Number(l.block) <= k
      PROVE  l \in LogsBetween(At(b, k), m, k)
  <2>1. PICK j \in m..Number(b) : l \in LogsOf(At(b, j))
    BY <1>3, Zenon DEF LogsBetween
  <2>2. Number(l.block) = j
    BY <1>1, <2>1, AtBlock DEF LogsOf
  <2>3. j \in m..k /\ At(At(b, k), j) = At(b, j)
    BY <1>1, <1>3, <2>1, <2>2, AtAt
  <2> QED BY <1>1, <2>1, <2>3 DEF LogsBetween
<1> QED BY <1>2, <1>3, Zenon

\* The logs of two adjacent ranges are the logs of the whole range.
LEMMA LogsOfRanges ==
    ASSUME NEW b \in Blocks, NEW m \in Nat, NEW k \in 0..Number(b), m <= k + 1
    PROVE  LogsBetween(b, m, Number(b))
             = LogsBetween(At(b, k), m, k) \cup LogsBetween(b, k + 1, Number(b))
<1>1. Number(b) \in Nat
  BY NumberNat, Zenon
<1>2. \A j \in m..k : At(At(b, k), j) = At(b, j) /\ j <= Number(At(b, k))
  BY <1>1, AtAt, AtBlock
<1>3. LogsBetween(At(b, k), m, k) = UNION {LogsOf(At(b, j)) : j \in m..k}
  BY <1>1, <1>2, Zenon DEF LogsBetween
<1>4. LogsBetween(b, k + 1, Number(b))
        = UNION {LogsOf(At(b, j)) : j \in (k+1)..Number(b)}
  BY <1>1 DEF LogsBetween
<1>5. LogsBetween(b, m, Number(b))
        = UNION {LogsOf(At(b, j)) : j \in m..Number(b)}
  BY <1>1 DEF LogsBetween
<1>6. m..Number(b) = (m..k) \cup ((k+1)..Number(b))
  BY <1>1
<1> QED BY <1>3, <1>4, <1>5, <1>6

----------------------------------------------------------------------------
(* The building blocks of the actions. *)

\* The parts of IInv about the cycle in progress.
LocalInv == TypeOK /\ CycleInv /\ BatchInv /\ CalmInv

\* Invariants of the store survive a step that leaves the store alone.
LEMMA StoreStable ==
    ASSUME StoreInv, UNCHANGED <<store, tainted>>
    PROVE  StoreInv'
  BY Zenon DEF StoreInv, HistoryIsChain, EventsOnRecordedBlocks, RangeInv,
         CheckpointDescribesEvents, AncestryInv, store

\* So does the type of the store.
LEMMA StoreTypeStable ==
    ASSUME TypeOK, UNCHANGED <<store, tainted>>
    PROVE  StoreType'
  BY Zenon DEF TypeOK, StoreType, store

\* A return of ScanOnce leaves nothing behind.
LEMMA ReturnLocal ==
    ASSUME StoreType', head' \in Blocks, Return
    PROVE  LocalInv'
<1>1. Number(head') \in Nat
  BY NumberNat, Zenon
<1>2. TypeOK'
  BY OptionsAssumption, NoHeaders, Zenon
  DEF StoreType, TypeOK, Return, ClearBatch, Steps, Fetching, Hashes
<1>3. CycleInv' /\ BatchInv' /\ CalmInv'
  BY Zenon DEF CycleInv, BatchInv, CalmInv, Return, ClearBatch, Fetching
<1> QED BY <1>2, <1>3, Zenon DEF LocalInv

\* A batch starts right above the checkpoint, or at StartBlock without one.
LEMMA StartBatchLocal ==
    ASSUME TypeOK, StoreType', head' \in Blocks, NEW n \in Nat,
           NEW parent \in Hashes, StartBatch(n, parent),
           Confirmations <= latest, n <= ConfirmedHead,
           IF checkpoint' = NoHash
           THEN n = StartBlock /\ parent = NoHash
           ELSE n = Number(checkpoint') + 1 /\ parent = checkpoint'
    PROVE  LocalInv'
<1>1. TypeOK'
  <2>1. latest \in Nat /\ latest' = latest /\ ConfirmedHead' = ConfirmedHead
    BY Zenon DEF TypeOK, StartBatch, ConfirmedHead
  <2>2. /\ from' \in Nat /\ from' <= ConfirmedHead'
        /\ Confirmations <= latest' /\ latest' \in Nat
    BY <2>1, Zenon DEF StartBatch
  <2>3. /\ expected' \in Hashes /\ endParent' \in Hashes /\ endHash' \in Hashes
        /\ logs' \subseteq Events /\ walk' \subseteq canonical'
        /\ headers' \in Seq(Headers)
        /\ pc' \in Steps /\ disturbed' \in BOOLEAN
    BY NoHeaders, Zenon DEF StartBatch, Steps, Fetching, Hashes
  <2> QED BY <2>2, <2>3, Zenon DEF StoreType, TypeOK
<1>2. CycleInv' /\ BatchInv' /\ CalmInv'
  BY Zenon DEF CycleInv, BatchInv, CalmInv, StartBatch, Fetching
<1> QED BY <1>1, <1>2, Zenon DEF LocalInv

\* resumeBlock hands over to the first batch or ends the cycle.
LEMMA ResumeLocal ==
    ASSUME TypeOK, StoreType', head' \in Blocks, NEW n \in Nat,
           NEW cp \in Hashes, Resume(n, cp), Confirmations <= latest,
           IF checkpoint' = NoHash
           THEN n = StartBlock
           ELSE /\ n <= ConfirmedHead => n = Number(checkpoint') + 1
                /\ n > StartBlock \/ n > ConfirmedHead
                /\ cp = checkpoint'
    PROVE  LocalInv'
<1>1. CASE n > ConfirmedHead
  BY <1>1, ReturnLocal, Zenon DEF Resume
<1>2. CASE ~(n > ConfirmedHead)
  <2> DEFINE parent == IF n > StartBlock THEN cp ELSE NoHash
  <2>1. parent \in Hashes
    BY Zenon DEF Hashes
  <2>2. n <= ConfirmedHead
    BY <1>2, OptionsAssumption DEF ConfirmedHead, TypeOK
  <2>3. StartBatch(n, parent)
    BY <1>2, Zenon DEF Resume
  <2>4. IF checkpoint' = NoHash
        THEN n = StartBlock /\ parent = NoHash
        ELSE n = Number(checkpoint') + 1 /\ parent = checkpoint'
    BY <1>2, <2>2, OptionsAssumption
  <2> HIDE DEF parent
  <2> QED BY <2>1, <2>2, <2>3, <2>4, StartBatchLocal, Zenon
<1> QED BY <1>1, <1>2, Zenon
----------------------------------------------------------------------------
(* One lemma per action: it preserves the inductive invariant. *)

\* The inductive invariant is a part about the scanner and one about the store.
LEMMA Split == IInv <=> LocalInv /\ StoreInv
  BY Zenon DEF IInv, LocalInv, StoreInv

\* The two parts, one step later.
LEMMA Join == ASSUME LocalInv', StoreInv' PROVE IInv'
  BY Zenon DEF IInv, LocalInv, StoreInv

\* An empty store and an idle scanner satisfy the invariant.
LEMMA InitIInv == Init => IInv
<1> SUFFICES ASSUME Init PROVE IInv
  BY Zenon
<1>1. TypeOK
  BY BlocksAssumption, OptionsAssumption, NoHeaders, Zenon
  DEF Init, TypeOK, Steps, Fetching, Hashes
<1>2. StoreInv
  BY Zenon DEF Init, StoreInv, HistoryIsChain, EventsOnRecordedBlocks, RangeInv,
         CheckpointDescribesEvents, AncestryInv
<1>3. CycleInv /\ BatchInv /\ CalmInv
  BY Zenon DEF Init, CycleInv, BatchInv, CalmInv, Fetching
<1> QED BY <1>1, <1>2, <1>3, Split, Zenon DEF LocalInv

\* A new block of the chain leaves everything the scanner read valid.
LEMMA ExtendIInv ==
    ASSUME IInv, NEW b \in Blocks, Extend(b) PROVE IInv'
<1>1. head \in Blocks /\ head = At(b, Number(b) - 1) /\ Number(b) > 0
  BY BlocksAssumption, ParentAt DEF Extend, IInv, TypeOK, Number, ParentHash
<1>2. Number(head) = Number(b) - 1
  BY <1>1, AtBlock, NumberNat
<1>3. \A n \in 0..Number(head) : At(b, n) = At(head, n) /\ n <= Number(b)
  BY <1>1, <1>2, AtAt, NumberNat
<1>4. TypeOK'
  BY Zenon DEF IInv, TypeOK, Extend, store, local, batch, history, ConfirmedHead
<1>5. To' = To
  BY Zenon DEF To, ConfirmedHead, Extend, local, batch
<1>6. CycleInv' /\ BatchInv'
  BY <1>5, Zenon DEF IInv, CycleInv, BatchInv, Extend, store, local, batch, history
<1>7. pc \in {"endHash", "filterLogs"} => To \in Nat
  BY OptionsAssumption DEF IInv, TypeOK, To, ConfirmedHead, Fetching
<1>8. CalmInv'
  <2>1. pc \in {"endHash", "filterLogs"} /\ To <= Number(head) =>
          To <= Number(b) /\ At(b, To) = At(head, To)
    BY <1>3, <1>7, <1>1, NumberNat
  <2> QED BY <1>5, <2>1, Zenon
    DEF IInv, CalmInv, Extend, store, local, batch, history
<1>9. StoreInv'
  BY Split, StoreStable, Zenon DEF Extend, store, history
<1> QED BY <1>4, <1>6, <1>8, <1>9, Join, Zenon DEF LocalInv

\* A change of fork leaves the store alone and marks a batch it tears.
LEMMA ReorgIInv ==
    ASSUME IInv, NEW b \in Blocks, Reorg(b) PROVE IInv'
<1>1. TypeOK'
  BY Zenon DEF IInv, TypeOK, Reorg, store, local, batch, history, ConfirmedHead
<1>2. To' = To
  BY Zenon DEF To, ConfirmedHead, Reorg, local, batch
<1>3. CycleInv' /\ BatchInv'
  BY <1>2, Zenon DEF IInv, CycleInv, BatchInv, Reorg, store, local, batch
<1>4. CalmInv'
  BY <1>2, Zenon DEF IInv, TypeOK, CalmInv, Reorg, store, local, batch
<1>5. StoreInv'
  BY Split, StoreStable, Zenon DEF Reorg, store
<1> QED BY <1>1, <1>3, <1>4, <1>5, Join, Zenon DEF LocalInv

\* A step that returns and leaves the store alone.
LEMMA ReturnIInv ==
    ASSUME IInv, Return, UNCHANGED <<head, store, tainted>> PROVE IInv'
<1>1. LocalInv'
  BY StoreTypeStable, ReturnLocal, Zenon DEF IInv, TypeOK
<1>2. StoreInv'
  BY Split, StoreStable, Zenon
<1> QED BY <1>1, <1>2, Join, Zenon

\* The latest header starts a cycle.
LEMMA ReadLatestIInv == ASSUME IInv, ReadLatest PROVE IInv'
<1>1. TypeOK'
  BY NumberNat, Zenon
  DEF IInv, TypeOK, ReadLatest, store, batch, history, Steps, Fetching
<1>2. CycleInv' /\ BatchInv' /\ CalmInv'
  BY Zenon DEF IInv, TypeOK, CycleInv, BatchInv, CalmInv, ReadLatest, store, batch,
         history, Fetching
<1>3. StoreInv'
  BY Split, StoreStable, Zenon DEF ReadLatest, history
<1> QED BY <1>1, <1>2, <1>3, Join, Zenon DEF LocalInv

\* A step of resumeBlock that only moves to its next call.
LEMMA MoveIInv ==
    ASSUME IInv, pc \notin Fetching, pc # "idle",
           pc' \in {"verifyHeader", "verifyHash", "walk", "rewind"},
           walk' \subseteq canonical, checkpoint # NoHash,
           UNCHANGED <<head, store, latest, batch, disturbed, tainted>>
    PROVE  IInv'
<1>1. TypeOK'
  BY Zenon DEF IInv, TypeOK, store, batch, Steps, Fetching
<1>2. CycleInv' /\ BatchInv' /\ CalmInv'
  BY Zenon DEF IInv, CycleInv, BatchInv, CalmInv, store, batch, Fetching
<1>3. StoreInv'
  BY Split, StoreStable, Zenon
<1> QED BY <1>1, <1>2, <1>3, Join, Zenon DEF LocalInv

\* resumeBlock decides from the checkpoint row where to go on.
LEMMA LoadCheckpointIInv == ASSUME IInv, LoadCheckpoint PROVE IInv'
<1>1. /\ pc = "checkpoint" /\ UNCHANGED <<head, store, tainted>>
      /\ Confirmations <= latest /\ latest \in Nat
      /\ StoreType' /\ head' \in Blocks /\ checkpoint' = checkpoint
      /\ checkpoint \in Hashes
  BY StoreTypeStable, Zenon DEF LoadCheckpoint, IInv, TypeOK, CycleInv, store
<1>2. CASE checkpoint = NoHash /\ Resume(StartBlock, NoHash)
  <2>1. LocalInv'
    BY <1>1, <1>2, ResumeLocal, OptionsAssumption, Zenon DEF IInv
  <2> QED BY <1>1, <2>1, Split, StoreStable, Join, Zenon
<1>3. CASE /\ checkpoint # NoHash /\ Number(checkpoint) > latest
           /\ Resume(latest + 1, checkpoint)
  <2>1. latest + 1 > ConfirmedHead
    BY <1>1, OptionsAssumption DEF ConfirmedHead
  <2> QED BY <1>1, <1>3, <2>1, ReturnIInv, Zenon DEF Resume
<1>4. CASE /\ checkpoint # NoHash /\ Number(checkpoint) <= latest
           /\ pc' = "verifyHeader" /\ UNCHANGED <<latest, walk, batch, disturbed>>
  BY <1>1, <1>4, MoveIInv, Zenon DEF IInv, TypeOK, Fetching
<1> QED BY <1>2, <1>3, <1>4, Zenon DEF LoadCheckpoint

\* The read of the checkpoint header returns or moves on.
LEMMA VerifyCheckpointHeaderIInv ==
    ASSUME IInv, VerifyCheckpointHeader PROVE IInv'
<1>1. pc = "verifyHeader" /\ checkpoint # NoHash
  BY Zenon DEF VerifyCheckpointHeader, IInv, CycleInv
<1>2. CASE Number(checkpoint) > Number(head)
  BY <1>2, ReturnIInv, Zenon DEF VerifyCheckpointHeader
<1>3. CASE ~(Number(checkpoint) > Number(head))
  BY <1>1, <1>3, MoveIInv, Zenon DEF VerifyCheckpointHeader, IInv, TypeOK, Fetching
<1> QED BY <1>2, <1>3, Zenon

\* The checkpoint hash agrees, or the ancestor search starts.
LEMMA VerifyCheckpointHashIInv ==
    ASSUME IInv, VerifyCheckpointHash PROVE IInv'
<1>1. /\ pc = "verifyHash" /\ checkpoint # NoHash /\ checkpoint \in Blocks
      /\ Confirmations <= latest /\ UNCHANGED <<head, store, tainted>>
      /\ StoreType' /\ head' \in Blocks /\ checkpoint' = checkpoint
  BY StoreTypeStable, Zenon
  DEF VerifyCheckpointHash, IInv, TypeOK, CycleInv, Hashes, store
<1>2. CASE Return
  BY <1>1, <1>2, ReturnIInv, Zenon
<1>3. CASE Resume(Number(checkpoint) + 1, checkpoint)
  <2>1. Number(checkpoint) + 1 \in Nat /\ Number(checkpoint) + 1 > StartBlock
    BY <1>1, NumberNat, OptionsAssumption DEF IInv, RangeInv
  <2>2. LocalInv'
    BY <1>1, <1>3, <2>1, ResumeLocal, Zenon DEF IInv, Hashes
  <2> QED BY <1>1, <2>2, Split, StoreStable, Join, Zenon
<1>4. CASE /\ pc' = "walk" /\ UNCHANGED <<latest, batch, disturbed>>
           /\ walk' = {r \in CanonicalBlocks(ReorgDepth + 1) :
                         r.number <= latest}
  <2>1. walk' \subseteq canonical
    BY <1>4, Zenon DEF CanonicalBlocks
  <2> QED BY <1>1, <1>4, <2>1, MoveIInv, Zenon DEF Fetching
<1> QED BY <1>2, <1>3, <1>4, Zenon DEF VerifyCheckpointHash

\* The search keeps to rows of the history and remembers the one that agrees.
LEMMA CompareAncestorIInv == ASSUME IInv, CompareAncestor PROVE IInv'
<1>1. /\ pc = "walk" /\ checkpoint # NoHash /\ walk \subseteq canonical
      /\ UNCHANGED <<head, store, tainted>>
  BY Zenon DEF CompareAncestor, IInv, TypeOK, CycleInv
<1>2. CASE Return
  BY <1>1, <1>2, ReturnIInv, Zenon
<1>3. CASE /\ pc' \in {"walk", "rewind"} /\ walk' \subseteq walk
           /\ UNCHANGED <<latest, batch, disturbed>>
  BY <1>1, <1>3, MoveIInv, Zenon DEF Fetching
<1> QED BY <1>2, <1>3, Zenon DEF CompareAncestor
\* RewindCanonical cuts history, events and checkpoint at the same row, and
\* that row is an ancestor of the old checkpoint.
LEMMA RewindIInv == ASSUME IInv, Rewind PROVE IInv'
<1> PICK r \in walk :
         /\ events' = {e \in events : Number(e.block) <= r.number}
         /\ canonical' = {s \in canonical : s.number <= r.number}
         /\ checkpoint' = r.hash
         /\ Resume(r.number + 1, r.hash)
  BY Zenon DEF Rewind
<1>1. /\ r \in canonical /\ r \in Rows /\ r.number = Number(r.hash)
      /\ r.hash \in Blocks /\ r.number \in Nat /\ r.hash # NoHash
      /\ checkpoint # NoHash /\ checkpoint \in Blocks /\ head' \in Blocks
      /\ head' = head /\ tainted' = tainted /\ Confirmations <= latest
      /\ StartBlock <= r.number
  BY NoHashNotBlock, Zenon DEF Rewind, IInv, TypeOK, CycleInv, Rows, Hashes, RangeInv
<1>2. StoreType'
  BY <1>1, Zenon DEF IInv, TypeOK, StoreType, Hashes
<1>3. LocalInv'
  BY <1>1, <1>2, ResumeLocal, OptionsAssumption DEF IInv, Hashes
<1>4. HistoryIsChain'
  <2>1. \A s \in canonical' : s.number \in Nat /\ s \in canonical
    BY Zenon DEF IInv, TypeOK, Rows
  <2>2. \A s \in canonical' : s.number < r.number =>
          \E t \in canonical' : t.number = s.number + 1 /\ t.parent = s.hash
    BY <1>1, <2>1, NumberNat DEF IInv, HistoryIsChain
  <2>3. r \in canonical'
    BY <1>1
  <2> QED BY <1>1, <2>1, <2>2, <2>3 DEF IInv, HistoryIsChain
<1>5. EventsOnRecordedBlocks'
  <2>1. \A e \in events' : Number(e.block) \in StartBlock..Number(checkpoint')
    BY <1>1, NumberNat DEF IInv, EventsOnRecordedBlocks
  <2> QED BY <1>1, <2>1, Zenon DEF IInv, EventsOnRecordedBlocks
<1>6. RangeInv'
  BY <1>1, Zenon DEF IInv, RangeInv
<1>7. ASSUME ~tainted PROVE IsAncestor(r.hash, checkpoint)
  BY <1>1, <1>7, Zenon DEF IInv, AncestryInv
<1>8. CheckpointDescribesEvents'
  <2> SUFFICES ASSUME ~tainted
               PROVE events' = LogsBetween(r.hash, StartBlock, r.number)
    BY <1>1, Zenon DEF CheckpointDescribesEvents
  <2>1. r.hash = At(checkpoint, r.number) /\ r.number <= Number(checkpoint)
    BY <1>1, <1>7, Zenon DEF IsAncestor
  <2>2. events = LogsBetween(checkpoint, StartBlock, Number(checkpoint))
    BY <1>1, Zenon DEF IInv, CheckpointDescribesEvents
  <2>3. r.number \in 0..Number(checkpoint) /\ StartBlock \in Nat
    BY <1>1, <2>1, NumberNat, OptionsAssumption
  <2>4. LogsBetween(r.hash, StartBlock, r.number)
          = {l \in events : Number(l.block) <= r.number}
    BY <1>1, <2>1, <2>2, <2>3, LogsOfPrefix
  <2> QED BY <2>4, Zenon
<1>9. AncestryInv'
  <2> SUFFICES ASSUME ~tainted, NEW s \in canonical, s.number <= r.number
               PROVE  IsAncestor(s.hash, r.hash)
    BY <1>1, Zenon DEF AncestryInv
  <2>1. s.hash \in Blocks /\ Number(s.hash) = s.number /\ s.number \in Nat
    BY Zenon DEF IInv, TypeOK, Rows
  <2>2. At(checkpoint, s.number) = s.hash /\ s.number <= Number(checkpoint)
    BY <1>1, <2>1, Zenon DEF IInv, AncestryInv, IsAncestor
  <2>3. At(checkpoint, r.number) = r.hash /\ r.number <= Number(checkpoint)
    BY <1>1, <1>7, Zenon DEF IsAncestor
  <2>4. At(r.hash, s.number) = s.hash
    BY <1>1, <2>1, <2>2, <2>3, AtAt, NumberNat
  <2> QED BY <1>1, <2>1, <2>4, Zenon DEF IsAncestor
<1> QED BY <1>3, <1>4, <1>5, <1>6, <1>8, <1>9, Join, Zenon DEF StoreInv

\* ResetFrom empties the store of the chain.
LEMMA ResetFromIInv == ASSUME IInv, ResetFrom PROVE IInv'
<1>1. \A e \in events : Number(e.block) \in Nat /\ StartBlock <= Number(e.block)
  BY NumberNat, OptionsAssumption
  DEF IInv, TypeOK, Events, EventsOnRecordedBlocks
<1>2. \A r \in canonical : r.number \in Nat /\ StartBlock <= r.number
  BY Zenon DEF IInv, TypeOK, Rows, RangeInv
<1>3. events' = {} /\ canonical' = {} /\ checkpoint' = NoHash /\ tainted' = FALSE
  BY <1>1, <1>2, OptionsAssumption DEF ResetFrom
<1>4. StoreType' /\ head' \in Blocks /\ Confirmations <= latest
  BY <1>3, Zenon DEF StoreType, Hashes, ResetFrom, IInv, TypeOK, CycleInv
<1>5. LocalInv'
  BY <1>3, <1>4, ResumeLocal, OptionsAssumption, Zenon DEF ResetFrom, IInv, Hashes
<1>6. StoreInv'
  BY <1>3, Zenon DEF StoreInv, HistoryIsChain, EventsOnRecordedBlocks, RangeInv,
              CheckpointDescribesEvents, AncestryInv
<1> QED BY <1>5, <1>6, Join, Zenon

\* To is the last block of the batch: not below its first, and confirmed.
LEMMA ToType ==
    ASSUME TypeOK, pc \in Fetching
    PROVE  To \in Nat /\ from <= To /\ To <= ConfirmedHead
  BY OptionsAssumption DEF TypeOK, To, ConfirmedHead

\* The end header is read with the parent of a block at height To.
LEMMA ReadEndHeaderIInv == ASSUME IInv, ReadEndHeader PROVE IInv'
<1>1. CASE To > Number(head)
  BY <1>1, ReturnIInv, Zenon DEF ReadEndHeader
<1>2. CASE ~(To > Number(head))
  <2>1. pc = "endHeader" /\ To \in Nat /\ head \in Blocks
    BY ToType, Zenon DEF ReadEndHeader, IInv, TypeOK, Fetching
  <2>2. To <= Number(head) /\ At(head, To) \in Blocks
    BY <1>2, <2>1, AtBlock, NumberNat
  <2>3. /\ endParent' = ParentHash(At(head, To)) /\ endParent' \in Hashes
        /\ pc' = "endHash" /\ To' = To /\ ConfirmedHead' = ConfirmedHead
        /\ UNCHANGED <<head, store, latest, walk, from, expected, endHash,
                       logs, headers, disturbed, tainted>>
    BY <1>2, <2>2, ParentAt, Zenon DEF ReadEndHeader, To, ConfirmedHead
  <2>4. TypeOK'
    BY <2>1, <2>3, Zenon DEF IInv, TypeOK, store, Steps, Fetching
  <2>5. CycleInv' /\ BatchInv' /\ CalmInv'
    BY <2>1, <2>2, <2>3, Zenon
    DEF IInv, CycleInv, BatchInv, CalmInv, Fetching, store
  <2>6. StoreInv'
    BY <2>3, Split, StoreStable, Zenon
  <2> QED BY <2>4, <2>5, <2>6, Join, Zenon DEF LocalInv
<1> QED BY <1>1, <1>2, Zenon

\* The end hash is that of a block at height To, with the parent read before it
\* unless the chain switched in between.
LEMMA ReadEndHashIInv == ASSUME IInv, ReadEndHash PROVE IInv'
<1>1. CASE To > Number(head)
  BY <1>1, ReturnIInv, Zenon DEF ReadEndHash
<1>2. CASE ~(To > Number(head))
  <2>1. pc = "endHash" /\ To \in Nat /\ head \in Blocks
    BY ToType, Zenon DEF ReadEndHash, IInv, TypeOK, Fetching
  <2>2. At(head, To) \in Blocks /\ Number(At(head, To)) = To
    BY <1>2, <2>1, AtBlock, NumberNat
  <2>3. /\ endHash' = At(head, To) /\ endHash' \in Hashes
        /\ pc' = "filterLogs" /\ To' = To /\ ConfirmedHead' = ConfirmedHead
        /\ UNCHANGED <<head, store, latest, walk, from, expected, endParent,
                       logs, headers, disturbed, tainted>>
    BY <1>2, <2>2, Zenon DEF ReadEndHash, To, ConfirmedHead, Hashes
  <2>4. TypeOK'
    BY <2>1, <2>3, Zenon DEF IInv, TypeOK, store, Steps, Fetching
  <2>5. CycleInv' /\ BatchInv' /\ CalmInv'
    BY <2>1, <2>2, <2>3, Zenon
    DEF IInv, CycleInv, BatchInv, CalmInv, Fetching, store
  <2>6. StoreInv'
    BY <2>3, Split, StoreStable, Zenon
  <2> QED BY <2>4, <2>5, <2>6, Join, Zenon DEF LocalInv
<1> QED BY <1>1, <1>2, Zenon

\* The logs belong to ancestors of the end block unless the chain switched.
LEMMA FilterLogsIInv == ASSUME IInv, FilterLogs PROVE IInv'
<1>1. /\ pc = "filterLogs" /\ To \in Nat /\ from <= To /\ from \in Nat
      /\ head \in Blocks /\ headers = << >> /\ Len(headers) = 0
  BY ToType, Zenon DEF FilterLogs, IInv, TypeOK, Fetching, BatchInv
<1>2. /\ logs' = LogsBetween(head, from, To)
      /\ To' = To /\ ConfirmedHead' = ConfirmedHead
      /\ pc' = (IF from = To THEN "commit" ELSE "headers")
      /\ UNCHANGED <<head, store, latest, walk, from, expected, endParent,
                     endHash, headers, disturbed, tainted>>
  BY <1>1 DEF FilterLogs, To, ConfirmedHead, AfterHeaders, history
<1>3. \A l \in logs' : /\ l \in Events /\ l.id \in Logs[l.block]
                       /\ Number(l.block) \in from..To
  BY <1>1, <1>2, LogsBetweenType, Zenon
<1>4. TypeOK'
  BY <1>1, <1>2, <1>3, Zenon DEF IInv, TypeOK, store, Steps, Fetching
<1>5. CycleInv'
  BY <1>1, <1>2, Zenon DEF IInv, CycleInv, Fetching, store
<1>6. BatchInv'
  BY <1>1, <1>2, <1>3 DEF IInv, BatchInv
<1>7. CalmInv'
  <2> SUFFICES ASSUME ~disturbed
               PROVE /\ endParent' = ParentHash(endHash')
                     /\ logs' = LogsBetween(endHash', from', To')
    BY <1>1, <1>2, Zenon DEF CalmInv
  <2>1. /\ endHash = At(head, To) /\ To <= Number(head)
        /\ endParent = ParentHash(endHash)
    BY <1>1, Zenon DEF IInv, CalmInv
  <2>2. \A j \in from..To : /\ At(At(head, To), j) = At(head, j)
                            /\ j <= Number(head) /\ j <= Number(At(head, To))
    BY <1>1, <2>1, AtAt, AtBlock, NumberNat
  <2>3. LogsBetween(head, from, To) = LogsBetween(endHash, from, To)
    BY <2>1, <2>2, Zenon DEF LogsBetween
  <2> QED BY <1>2, <2>1, <2>3, Zenon
<1>8. StoreInv'
  BY <1>2, Split, StoreStable, Zenon
<1> QED BY <1>4, <1>5, <1>6, <1>7, <1>8, Join, Zenon DEF LocalInv

\* The headers below To are read one by one with their real parents.
LEMMA ReadHeaderIInv == ASSUME IInv, ReadHeader PROVE IInv'
<1> DEFINE n == from + Len(headers)
           b == At(head, n)
           h == [hash |-> b, parent |-> ParentHash(b)]
<1>1. CASE n > Number(head)
  BY <1>1, ReturnIInv, Zenon DEF ReadHeader
<1>2. CASE ~(n > Number(head))
  <2>1. /\ pc = "headers" /\ To \in Nat /\ from \in Nat /\ head \in Blocks
        /\ headers \in Seq(Headers) /\ Len(headers) \in Nat /\ n < To
    BY ToType DEF ReadHeader, IInv, TypeOK, Fetching, BatchInv
  <2>2. b \in Blocks /\ Number(b) = n /\ h \in Headers
    BY <1>2, <2>1, AtBlock, NumberNat, ParentAt DEF Headers
  <2>3. /\ headers' = Append(headers, h)
        /\ pc' = (IF from + Len(headers') = To THEN "commit" ELSE "headers")
        /\ To' = To /\ ConfirmedHead' = ConfirmedHead
        /\ UNCHANGED <<head, store, latest, walk, from, expected, endParent,
                       endHash, logs, disturbed, tainted>>
    BY <1>2, Zenon DEF ReadHeader, To, ConfirmedHead, AfterHeaders
  <2> HIDE DEF h
  <2>4. /\ headers' \in Seq(Headers) /\ Len(headers') = Len(headers) + 1
        /\ \A i \in 1..Len(headers) : headers'[i] = headers[i]
        /\ headers'[Len(headers) + 1] = h
    BY <2>1, <2>2, <2>3
  <2>5. TypeOK'
    BY <2>1, <2>3, <2>4, Zenon DEF IInv, TypeOK, store, Steps, Fetching
  <2>6. CycleInv' /\ CalmInv'
    BY <2>1, <2>3, Zenon DEF IInv, CycleInv, CalmInv, Fetching, store
  <2>7. \A i \in 1..Len(headers') :
          /\ Number(headers'[i].hash) = from + i - 1
          /\ headers'[i].parent = ParentHash(headers'[i].hash)
    <3>1. h.hash = b /\ h.parent = ParentHash(b)
      BY Zenon DEF h
    <3>2. \A i \in 1..Len(headers) :
            /\ Number(headers[i].hash) = from + i - 1
            /\ headers[i].parent = ParentHash(headers[i].hash)
      BY <2>1, Zenon DEF IInv, BatchInv
    <3>3. Number(h.hash) = from + (Len(headers) + 1) - 1
      BY <2>1, <2>2, <3>1
    <3>4. TAKE i \in 1..Len(headers')
    <3>5. CASE i = Len(headers) + 1
      BY <2>4, <3>1, <3>3, <3>5, Zenon
    <3>6. CASE i \in 1..Len(headers)
      BY <2>4, <3>2, <3>6, Zenon
    <3> QED BY <2>1, <2>4, <3>5, <3>6
  <2>8. BatchInv'
    <3>1. endHash \in Blocks /\ Number(endHash) = To
      BY <2>1, Zenon DEF IInv, BatchInv
    <3>2. \A l \in logs : l.id \in Logs[l.block] /\ Number(l.block) \in from..To
      BY <2>1, Zenon DEF IInv, BatchInv
    <3>3. from + Len(headers') # To => from + Len(headers') < To
      BY <2>1, <2>4
    <3>4. pc' \in {"headers", "commit"} /\ pc' # "endHeader" /\ pc' # "endHash"
            /\ pc' # "filterLogs"
      BY <2>3, Zenon
    <3>5. (pc' = "headers" => from + Len(headers') < To)
            /\ (pc' = "commit" => from + Len(headers') = To)
      BY <2>3, <3>3, Zenon
    <3> QED BY <2>3, <2>7, <3>1, <3>2, <3>4, <3>5, Zenon DEF BatchInv
  <2>9. StoreInv'
    BY <2>3, Split, StoreStable, Zenon
  <2> QED BY <2>5, <2>6, <2>8, <2>9, Join, Zenon DEF LocalInv
<1> QED BY <1>1, <1>2, Zenon
\* The pairs the verification compares: each is stored under the height of its
\* block, and below To the parent is the real one.
LEMMA BatchHeadersFacts ==
    ASSUME IInv, pc = "commit"
    PROVE  /\ Len(headers) \in Nat /\ from + Len(headers) = To /\ To \in Nat
           /\ from \in Nat
           /\ Len(BatchHeaders) = Len(headers) + 1
           /\ \A i \in 1..Len(BatchHeaders) :
                /\ BatchHeaders[i] \in Headers
                /\ Number(BatchHeaders[i].hash) = from + i - 1
                /\ i <= Len(headers) \/ ~disturbed =>
                     BatchHeaders[i].parent = ParentHash(BatchHeaders[i].hash)
           /\ BatchHeaders[Len(headers) + 1].hash = endHash
<1> DEFINE e == [hash |-> endHash, parent |-> endParent]
<1>1. /\ headers \in Seq(Headers) /\ Len(headers) \in Nat /\ from \in Nat
      /\ To \in Nat /\ from + Len(headers) = To
      /\ endHash \in Blocks /\ endParent \in Hashes /\ Number(endHash) = To
  BY ToType DEF IInv, TypeOK, BatchInv, Fetching
<1>2. e \in Headers /\ e.hash = endHash /\ e.parent = endParent
  BY <1>1, Zenon DEF Headers
<1> HIDE DEF e
<1>3. /\ BatchHeaders \in Seq(Headers) /\ Len(BatchHeaders) = Len(headers) + 1
      /\ \A i \in 1..Len(headers) : BatchHeaders[i] = headers[i]
      /\ BatchHeaders[Len(headers) + 1] = e
  BY <1>1, <1>2 DEF BatchHeaders, e
<1>4. \A i \in 1..Len(headers) :
        /\ Number(headers[i].hash) = from + i - 1
        /\ headers[i].parent = ParentHash(headers[i].hash)
  BY Zenon DEF IInv, BatchInv
<1>5. ~disturbed => e.parent = ParentHash(e.hash)
  BY <1>2, Zenon DEF IInv, CalmInv
<1>6. ASSUME NEW i \in 1..Len(BatchHeaders)
      PROVE  /\ BatchHeaders[i] \in Headers
             /\ Number(BatchHeaders[i].hash) = from + i - 1
             /\ i <= Len(headers) \/ ~disturbed =>
                  BatchHeaders[i].parent = ParentHash(BatchHeaders[i].hash)
  <2>1. CASE i \in 1..Len(headers)
    BY <1>1, <1>3, <1>4, <2>1
  <2>2. CASE i = Len(headers) + 1
    BY <1>1, <1>2, <1>3, <1>5, <2>2
  <2> QED BY <1>1, <1>3, <2>1, <2>2
<1> QED BY <1>1, <1>2, <1>3, <1>6, Zenon

\* The rows a verified batch adds form a chain by their stored parents, lie
\* above the stored history and hang on the checkpoint.
LEMMA BatchRowsFacts ==
    ASSUME IInv, pc = "commit", Verified
    PROVE  /\ \A r \in BatchRows :
                /\ r \in Rows /\ r.number \in from..To
                /\ Number(r.hash) = r.number
                /\ r.hash = BatchHeaders[r.number - from + 1].hash
                /\ r.number < To =>
                     \E s \in BatchRows : s.number = r.number + 1 /\ s.parent = r.hash
           /\ \A r, s \in BatchRows : r.number = s.number => r = s
           /\ \E r \in BatchRows : r.number = To /\ r.hash = endHash
           /\ \A l \in logs : \A r \in BatchRows :
                r.number = Number(l.block) => r.hash = l.block
           /\ checkpoint # NoHash =>
                \E r \in BatchRows : r.number = from /\ r.parent = checkpoint
<1> DEFINE H == BatchHeaders
           k == Len(headers)
           row(i) == [number |-> from + i - 1, hash |-> H[i].hash,
                      parent |-> H[i].parent]
<1>1. /\ k \in Nat /\ from + k = To /\ To \in Nat /\ from \in Nat
      /\ Len(H) = k + 1
      /\ \A i \in 1..(k+1) : /\ H[i] \in Headers
                             /\ Number(H[i].hash) = from + i - 1
      /\ H[k + 1].hash = endHash
  BY BatchHeadersFacts, Zenon
<1>2. BatchRows = {row(i) : i \in 1..(k+1)}
  BY <1>1, Zenon DEF BatchRows
<1>3. \A i \in 1..(k+1) : /\ row(i) \in Rows /\ row(i).number = from + i - 1
                          /\ row(i).hash = H[i].hash /\ row(i).parent = H[i].parent
  BY <1>1 DEF Rows, Headers
<1>4. \A i \in 2..(k+1) : H[i].parent = H[i-1].hash
  BY <1>1, Zenon DEF Verified, LinksVerified
<1> HIDE DEF H, k, row
<1>5. ASSUME NEW r \in BatchRows
      PROVE  /\ r \in Rows /\ r.number \in from..To
             /\ Number(r.hash) = r.number
             /\ r.hash = H[r.number - from + 1].hash
             /\ r.number < To =>
                  \E s \in BatchRows : s.number = r.number + 1 /\ s.parent = r.hash
  <2>1. PICK i \in 1..(k+1) : r = row(i)
    BY <1>2, Zenon
  <2>2. /\ r \in Rows /\ r.number = from + i - 1 /\ r.hash = H[i].hash
        /\ r.number - from + 1 = i
    BY <1>1, <1>3, <2>1
  <2>3. ASSUME r.number < To
        PROVE  \E s \in BatchRows : s.number = r.number + 1 /\ s.parent = r.hash
    <3>1. i + 1 \in 2..(k+1) /\ i + 1 \in 1..(k+1) /\ (i + 1) - 1 = i
      BY <1>1, <2>2, <2>3
    <3>2. row(i + 1) \in BatchRows
      BY <1>2, <3>1, Zenon
    <3>3. /\ row(i + 1).number = from + (i + 1) - 1
          /\ row(i + 1).parent = H[i + 1].parent
      BY <1>3, <3>1, Zenon
    <3>4. from + (i + 1) - 1 = r.number + 1
      BY <1>1, <2>2
    <3>5. H[i + 1].parent = H[i].hash
      BY <1>4, <3>1, Zenon
    <3> QED BY <2>2, <3>2, <3>3, <3>4, <3>5, Zenon
  <2> QED BY <1>1, <2>2, <2>3
<1>6. ASSUME NEW r \in BatchRows, NEW s \in BatchRows, r.number = s.number
      PROVE  r = s
  <2>1. PICK i \in 1..(k+1) : r = row(i)
    BY <1>2, Zenon
  <2>2. PICK j \in 1..(k+1) : s = row(j)
    BY <1>2, Zenon
  <2> QED BY <1>1, <1>3, <1>6, <2>1, <2>2
<1>7. \E r \in BatchRows : r.number = To /\ r.hash = endHash
  <2>1. k + 1 \in 1..(k+1) /\ from + (k + 1) - 1 = To
    BY <1>1
  <2> QED BY <1>1, <1>2, <1>3, <2>1
<1>8. ASSUME NEW l \in logs, NEW r \in BatchRows, r.number = Number(l.block)
      PROVE  r.hash = l.block
  BY <1>5, <1>8 DEF Verified, LogsVerified, H
<1>9. ASSUME checkpoint # NoHash
      PROVE  \E r \in BatchRows : r.number = from /\ r.parent = checkpoint
  <2>1. expected = checkpoint /\ from > 0
    BY <1>9, NumberNat DEF IInv, TypeOK, Hashes, CycleInv, Fetching
  <2>2. H[1].parent = checkpoint
    BY <1>9, <2>1, Zenon DEF Verified, ParentVerified, H
  <2>3. 1 \in 1..(k+1) /\ from + 1 - 1 = from
    BY <1>1
  <2> QED BY <1>2, <1>3, <2>2, <2>3
<1> QED BY <1>5, <1>6, <1>7, <1>8, <1>9, Zenon DEF H
\* If the endpoint kept its fork from the end header to the logs, the verified
\* blocks are the ancestors of the end block, down to the checkpoint: the parent
\* links are followed from the end block downwards.
LEMMA BatchAncestry ==
    ASSUME IInv, pc = "commit", Verified, ~disturbed
    PROVE  /\ \A i \in 1..Len(BatchHeaders) :
                BatchHeaders[i].hash = At(endHash, from + i - 1)
           /\ checkpoint # NoHash => checkpoint = At(endHash, from - 1)
<1> DEFINE H == BatchHeaders
           k == Len(headers)
           T == {j \in 0..k : H[k + 1 - j].hash # At(endHash, To - j)}
<1>1. /\ k \in Nat /\ from + k = To /\ To \in Nat /\ from \in Nat
      /\ Len(H) = k + 1
      /\ \A i \in 1..(k+1) : /\ H[i] \in Headers
                             /\ Number(H[i].hash) = from + i - 1
                             /\ H[i].parent = ParentHash(H[i].hash)
      /\ H[k + 1].hash = endHash
  BY BatchHeadersFacts, Zenon
<1>2. endHash \in Blocks /\ Number(endHash) = To
  BY Zenon DEF IInv, BatchInv
<1>3. \A i \in 2..(k+1) : H[i].parent = H[i-1].hash
  BY <1>1, Zenon DEF Verified, LinksVerified
<1>4. \A n \in 1..To : ParentHash(At(endHash, n)) = At(endHash, n - 1)
  <2> TAKE n \in 1..To
  <2>1. At(endHash, n) \in Blocks /\ Number(At(endHash, n)) = n
    BY <1>1, <1>2, AtBlock
  <2>2. ParentHash(At(endHash, n)) = At(At(endHash, n), n - 1)
    BY <1>1, <2>1, ParentAt
  <2> QED BY <1>1, <1>2, <2>2, AtAt
<1> HIDE DEF H, k
<1>5. T = {}
  <2> SUFFICES ASSUME T # {} PROVE FALSE
    BY Zenon
  <2>1. T \in SUBSET Nat
    BY <1>1
  <2>2. PICK j \in T : \A m \in T : j <= m
    BY <2>1, LeastNumber, Zenon
  <2>3. j \in 0..k /\ H[k + 1 - j].hash # At(endHash, To - j)
    BY <2>2, Zenon
  <2>4. j # 0
    <3>1. At(endHash, To) = endHash
      BY <1>2, AtSelf, Zenon
    <3> QED BY <1>1, <2>3, <3>1
  <2>5. j - 1 \in 0..k /\ ~(j <= j - 1)
    BY <1>1, <2>3, <2>4
  <2>6. H[k + 1 - (j - 1)].hash = At(endHash, To - (j - 1))
    BY <2>2, <2>5, Zenon
  <2>7. /\ k + 1 - (j - 1) \in 2..(k+1) /\ k + 1 - (j - 1) - 1 = k + 1 - j
        /\ To - (j - 1) \in 1..To /\ To - (j - 1) - 1 = To - j
    BY <1>1, <2>3, <2>4
  <2>8. H[k + 1 - (j - 1)].parent = At(endHash, To - j)
    <3>1. k + 1 - (j - 1) \in 1..(k+1)
      BY <1>1, <2>7
    <3>2. H[k + 1 - (j - 1)].parent = ParentHash(H[k + 1 - (j - 1)].hash)
      BY <1>1, <3>1, Zenon
    <3>3. ParentHash(At(endHash, To - (j - 1))) = At(endHash, To - j)
      BY <1>4, <2>7, Zenon
    <3> QED BY <2>6, <3>2, <3>3, Zenon
  <2>9. H[k + 1 - (j - 1)].parent = H[k + 1 - j].hash
    <3>1. PICK i \in 2..(k+1) : i = k + 1 - (j - 1) /\ i - 1 = k + 1 - j
      BY <1>1, <2>3, <2>4
    <3>2. H[i].parent = H[i - 1].hash
      BY <1>3, Zenon
    <3> QED BY <3>1, <3>2, Zenon
  <2> QED BY <2>3, <2>8, <2>9, Zenon
<1>6. ASSUME NEW i \in 1..(k+1) PROVE H[i].hash = At(endHash, from + i - 1)
  <2>1. k + 1 - i \in 0..k /\ k + 1 - (k + 1 - i) = i
        /\ To - (k + 1 - i) = from + i - 1
    BY <1>1
  <2> QED BY <1>5, <2>1, Zenon
<1>7. ASSUME checkpoint # NoHash PROVE checkpoint = At(endHash, from - 1)
  <2>1. expected = checkpoint /\ from > 0
    BY <1>7, NumberNat DEF IInv, TypeOK, Hashes, CycleInv, Fetching
  <2>2. H[1].parent = checkpoint
    BY <1>7, <2>1, Zenon DEF Verified, ParentVerified, H
  <2>3. H[1].hash = At(endHash, from)
    BY <1>1, <1>6
  <2>4. from \in 1..To
    BY <1>1, <2>1
  <2> QED BY <1>1, <1>4, <2>2, <2>3, <2>4
<1> QED BY <1>1, <1>6, <1>7, Zenon DEF H

\* What the transaction of saveBatch leaves in the store.
LEMMA SaveBatchFacts ==
    ASSUME IInv, pc = "commit", Verified, SaveBatch
    PROVE  /\ checkpoint' = endHash /\ endHash \in Blocks /\ endHash # NoHash
           /\ Number(endHash) = To /\ To \in Nat /\ from \in Nat /\ from <= To
           /\ StartBlock <= from
           /\ \A r \in canonical : r.number \in Nat /\ r.number < from
           /\ checkpoint # NoHash => Number(checkpoint) = from - 1
           /\ canonical' = {r \in canonical \cup BatchRows :
                              r.number + ReorgDepth >= To}
           /\ StoreType'
<1>1. /\ endHash \in Blocks /\ Number(endHash) = To /\ endHash # NoHash
      /\ To \in Nat /\ from \in Nat /\ from <= To
  BY ToType, NoHashNotBlock, Zenon DEF IInv, TypeOK, BatchInv, Fetching
<1>2. /\ checkpoint = NoHash => from = StartBlock /\ canonical = {}
      /\ checkpoint # NoHash => /\ checkpoint \in Blocks
                                /\ from = Number(checkpoint) + 1
                                /\ Number(checkpoint) \in Nat
                                /\ StartBlock <= Number(checkpoint)
  BY NumberNat, Zenon
  DEF IInv, TypeOK, Hashes, CycleInv, Fetching, HistoryIsChain, RangeInv
<1>3. \A r \in canonical : r.number \in Nat /\ r.number < from
  BY <1>2 DEF IInv, TypeOK, Rows, HistoryIsChain
<1>4. checkpoint' = endHash
  BY <1>1, <1>2 DEF SaveBatch
<1>5. \A r \in BatchRows : r \in Rows /\ r.number \in from..To
                           /\ Number(r.hash) = r.number
  BY BatchRowsFacts, Zenon
<1>6. canonical' = {r \in canonical \cup BatchRows : r.number + ReorgDepth >= To}
  <2>1. \A r \in canonical : \A s \in BatchRows : s.number # r.number
    BY <1>1, <1>3, <1>5
  <2> QED BY <2>1, Zenon DEF SaveBatch, Upsert, Retained
<1>7. StoreType'
  <2>1. events' \subseteq Events
    BY Zenon DEF SaveBatch, IInv, TypeOK
  <2>2. tainted' \in BOOLEAN
    BY Zenon DEF SaveBatch, IInv, TypeOK
  <2> QED BY <1>1, <1>4, <1>5, <1>6, <2>1, <2>2, Zenon DEF StoreType, IInv, TypeOK, Hashes
<1> QED BY <1>1, <1>2, <1>3, <1>4, <1>6, <1>7, OptionsAssumption

\* A verified batch keeps the invariants of the store.
LEMMA SaveBatchStore ==
    ASSUME IInv, pc = "commit", Verified, SaveBatch
    PROVE  StoreInv'
<1>1. /\ checkpoint' = endHash /\ endHash \in Blocks /\ endHash # NoHash
      /\ Number(endHash) = To /\ To \in Nat /\ from \in Nat /\ from <= To
      /\ StartBlock <= from /\ StartBlock \in Nat /\ ReorgDepth \in Nat
      /\ \A r \in canonical : r.number \in Nat /\ r.number < from
      /\ checkpoint # NoHash => Number(checkpoint) = from - 1
      /\ canonical' = {r \in canonical \cup BatchRows :
                         r.number + ReorgDepth >= To}
  BY SaveBatchFacts, OptionsAssumption, Zenon
<1>2. /\ \A r \in BatchRows :
           /\ r \in Rows /\ r.number \in from..To
           /\ Number(r.hash) = r.number
           /\ r.hash = BatchHeaders[r.number - from + 1].hash
           /\ r.number < To =>
                \E s \in BatchRows : s.number = r.number + 1 /\ s.parent = r.hash
      /\ \A r, s \in BatchRows : r.number = s.number => r = s
      /\ \E r \in BatchRows : r.number = To /\ r.hash = endHash
      /\ \A l \in logs : \A r \in BatchRows :
           r.number = Number(l.block) => r.hash = l.block
      /\ checkpoint # NoHash =>
           \E r \in BatchRows : r.number = from /\ r.parent = checkpoint
  BY BatchRowsFacts, Zenon
<1>3. \A l \in logs : l.id \in Logs[l.block] /\ Number(l.block) \in from..To
  BY Zenon DEF IInv, BatchInv
<1>4. /\ events' = events \cup logs
      /\ tainted' = (tainted \/ disturbed)
  BY Zenon DEF SaveBatch
<1>5. ASSUME NEW r \in canonical
      PROVE  \E s \in canonical \cup BatchRows :
               s.number = r.number + 1 /\ s.parent = r.hash
  <2>1. checkpoint # NoHash
    BY Zenon DEF IInv, HistoryIsChain
  <2>2. CASE r.number < Number(checkpoint)
    BY <2>2, Zenon DEF IInv, HistoryIsChain
  <2>3. CASE r.number = Number(checkpoint)
    <3>1. PICK t \in canonical : t.hash = checkpoint
      BY <2>1, Zenon DEF IInv, HistoryIsChain
    <3>2. t.number = r.number
      BY <2>3, <3>1, Zenon DEF IInv, TypeOK
    <3>3. r.hash = checkpoint
      BY <3>1, <3>2, Zenon DEF IInv, HistoryIsChain
    <3> QED BY <1>1, <1>2, <2>1, <2>3, <3>3
  <2>4. r.number <= Number(checkpoint)
    BY Zenon DEF IInv, HistoryIsChain
  <2> QED BY <1>1, <2>1, <2>2, <2>3, <2>4
<1>6. HistoryIsChain'
  <2>1. \E r \in canonical' : r.hash = endHash
    BY <1>1, <1>2
  <2>2. ASSUME NEW r \in canonical', NEW s \in canonical', r.number = s.number
        PROVE  r = s
    BY <1>1, <1>2, <2>2 DEF IInv, HistoryIsChain
  <2>3. ASSUME NEW r \in canonical'
        PROVE  /\ r.number <= To
               /\ r.number < To => \E s \in canonical' :
                                     s.number = r.number + 1 /\ s.parent = r.hash
    <3>1. r \in canonical \cup BatchRows /\ r.number + ReorgDepth >= To
          /\ r.number \in Nat
      BY <1>1, <1>2
    <3>2. r.number <= To
      BY <1>1, <1>2, <3>1
    <3>3. ASSUME r.number < To
          PROVE  \E s \in canonical \cup BatchRows :
                   s.number = r.number + 1 /\ s.parent = r.hash
      BY <1>2, <1>5, <3>1, <3>3, Zenon
    <3> QED BY <1>1, <3>1, <3>2, <3>3
  <2> QED BY <1>1, <2>1, <2>2, <2>3, Zenon DEF HistoryIsChain
<1>7. EventsOnRecordedBlocks'
  <2> SUFFICES ASSUME NEW e \in events'
               PROVE  /\ e.id \in Logs[e.block]
                      /\ Number(e.block) \in StartBlock..To
                      /\ \A r \in canonical' :
                           r.number = Number(e.block) => r.hash = e.block
    BY <1>1, Zenon DEF EventsOnRecordedBlocks
  <2>1. CASE e \in logs
    BY <1>1, <1>2, <1>3, <2>1
  <2>2. CASE e \in events
    <3>1. /\ e.id \in Logs[e.block] /\ checkpoint # NoHash
          /\ Number(e.block) \in StartBlock..Number(checkpoint)
          /\ \A r \in canonical : r.number = Number(e.block) => r.hash = e.block
      BY <2>2, Zenon DEF IInv, EventsOnRecordedBlocks
    <3>2. Number(e.block) < from
      BY <1>1, <3>1
    <3> QED BY <1>1, <1>2, <3>1, <3>2
  <2> QED BY <1>4, <2>1, <2>2, Zenon
<1>8. RangeInv'
  <2>1. \A r \in canonical : StartBlock <= r.number
    BY Zenon DEF IInv, RangeInv
  <2> QED BY <1>1, <1>2, <2>1 DEF RangeInv
<1>9. CheckpointDescribesEvents'
  <2> SUFFICES ASSUME ~tainted, ~disturbed
               PROVE  events' = LogsBetween(endHash, StartBlock, To)
    BY <1>1, <1>4, Zenon DEF CheckpointDescribesEvents, IInv, TypeOK
  <2>1. logs = LogsBetween(endHash, from, To)
    BY Zenon DEF IInv, CalmInv
  <2>2. CASE checkpoint = NoHash
    BY <1>4, <2>1, <2>2, Zenon
    DEF IInv, CycleInv, Fetching, CheckpointDescribesEvents
  <2>3. CASE checkpoint # NoHash
    <3>1. from - 1 \in 0..To /\ StartBlock <= (from - 1) + 1
          /\ (from - 1) + 1 = from
      BY <1>1, <2>3, NumberNat DEF IInv, TypeOK, Hashes
    <3>2. At(endHash, from - 1) = checkpoint
      BY <2>3, BatchAncestry, Zenon
    <3>3. events = LogsBetween(checkpoint, StartBlock, from - 1)
      BY <1>1, <2>3, Zenon DEF IInv, CheckpointDescribesEvents
    <3>4. LogsBetween(endHash, StartBlock, To)
            = LogsBetween(At(endHash, from - 1), StartBlock, from - 1)
                \cup LogsBetween(endHash, (from - 1) + 1, To)
      BY <1>1, <3>1, LogsOfRanges
    <3> QED BY <1>4, <2>1, <3>1, <3>2, <3>3, <3>4, Zenon
  <2> QED BY <2>2, <2>3, Zenon
<1>10. AncestryInv'
  <2> SUFFICES ASSUME ~tainted, ~disturbed, NEW r \in canonical'
               PROVE  IsAncestor(r.hash, endHash)
    BY <1>1, <1>4, Zenon DEF AncestryInv, IInv, TypeOK
  <2>1. CASE r \in BatchRows
    <3>1. r.number - from + 1 \in 1..Len(BatchHeaders)
      BY <1>1, <1>2, <2>1, BatchHeadersFacts
    <3>2. r.hash = At(endHash, from + (r.number - from + 1) - 1)
      BY <1>2, <2>1, <3>1, BatchAncestry, Zenon
    <3>3. from + (r.number - from + 1) - 1 = r.number /\ r.number <= To
      BY <1>1, <1>2, <2>1
    <3> QED BY <1>1, <1>2, <2>1, <3>2, <3>3, Zenon DEF IsAncestor
  <2>2. CASE r \in canonical
    <3>1. /\ checkpoint # NoHash /\ Number(r.hash) = r.number
          /\ r.number <= Number(checkpoint) /\ r.hash \in Blocks
      BY <2>2, Zenon DEF IInv, HistoryIsChain, TypeOK, Rows
    <3>2. r.hash = At(checkpoint, r.number)
      BY <2>2, <3>1, Zenon DEF IInv, AncestryInv, IsAncestor
    <3>3. checkpoint = At(endHash, from - 1)
      BY <3>1, BatchAncestry, Zenon
    <3>4. r.number \in 0..(from - 1) /\ from - 1 \in 0..To
      BY <1>1, <2>2, <3>1
    <3>5. r.hash = At(endHash, r.number)
      BY <1>1, <3>2, <3>3, <3>4, AtAt, Zenon
    <3> QED BY <1>1, <3>1, <3>4, <3>5 DEF IsAncestor
  <2> QED BY <1>1, <2>1, <2>2, Zenon
<1> QED BY <1>6, <1>7, <1>8, <1>9, <1>10, Zenon DEF StoreInv

\* A batch is committed when it is verified; otherwise nothing changes.
LEMMA CommitIInv == ASSUME IInv, Commit PROVE IInv'
<1>1. pc = "commit" /\ head' = head /\ head' \in Blocks
  BY Zenon DEF Commit, IInv, TypeOK
<1>2. CASE ~(Verified /\ ~Conflict)
  BY <1>1, <1>2, ReturnIInv, Zenon DEF Commit
<1>3. CASE Verified /\ ~Conflict
  <2>1. SaveBatch
    BY <1>3, Zenon DEF Commit
  <2>2. StoreInv'
    BY <1>1, <1>3, <2>1, SaveBatchStore, Zenon
  <2>3. StoreType' /\ checkpoint' = endHash /\ endHash \in Hashes
        /\ endHash # NoHash /\ Number(endHash) = To /\ To \in Nat
    BY <1>1, <1>3, <2>1, SaveBatchFacts, Zenon DEF Hashes
  <2>4. CASE To = ConfirmedHead
    <3>1. Return
      BY <1>3, <2>4, Zenon DEF Commit
    <3> QED BY <1>1, <2>2, <2>3, <3>1, ReturnLocal, Join, Zenon
  <2>5. CASE To # ConfirmedHead
    <3>1. StartBatch(To + 1, endHash)
      BY <1>3, <2>5, Zenon DEF Commit
    <3>2. Confirmations <= latest /\ To + 1 <= ConfirmedHead /\ To + 1 \in Nat
      BY <1>1, <2>5, ToType, OptionsAssumption
      DEF IInv, TypeOK, Fetching, ConfirmedHead
    <3>3. LocalInv'
      BY <1>1, <2>3, <3>1, <3>2, StartBatchLocal, Zenon DEF IInv
    <3> QED BY <2>2, <3>3, Join, Zenon
  <2> QED BY <2>4, <2>5, Zenon
<1> QED BY <1>2, <1>3, Zenon

\* Every step preserves the inductive invariant.
LEMMA NextIInv == ASSUME IInv, [Next]_vars PROVE IInv'
<1>1. CASE UNCHANGED vars
  <2>1. TypeOK'
    BY <1>1, Zenon DEF IInv, TypeOK, vars, store, local, batch, history, ConfirmedHead
  <2>2. To' = To
    BY <1>1, Zenon DEF To, ConfirmedHead, vars, local, batch
  <2>3. CycleInv' /\ BatchInv' /\ CalmInv'
    BY <1>1, <2>2
    DEF IInv, CycleInv, BatchInv, CalmInv, vars, store, local, batch, history
  <2>4. StoreInv'
    BY <1>1, Split, StoreStable, Zenon DEF vars, history
  <2> QED BY <2>1, <2>3, <2>4, Join, Zenon DEF LocalInv
<1>2. CASE Fail
  BY <1>2, ReturnIInv, Zenon DEF Fail
<1>3. CASE Switch
  BY <1>3, ReorgIInv, Zenon DEF Switch
<1>4. CASE Grow
  BY <1>4, ExtendIInv, Zenon DEF Grow
<1>5. CASE Scan
  BY Zenon, <1>5, ReadLatestIInv, LoadCheckpointIInv, VerifyCheckpointHeaderIInv,
     VerifyCheckpointHashIInv, CompareAncestorIInv, RewindIInv, ResetFromIInv,
     ReadEndHeaderIInv, ReadEndHashIInv, FilterLogsIInv, ReadHeaderIInv,
     CommitIInv DEF Scan
<1> QED BY <1>1, <1>2, <1>3, <1>4, <1>5, Zenon DEF Next

----------------------------------------------------------------------------
(* The results. *)

\* The inductive invariant holds in every reachable state.
THEOREM Invariance == Spec => []IInv
<1>1. Init => IInv
  BY InitIInv, Zenon
<1>2. IInv /\ [Next]_vars => IInv'
  BY NextIInv, Zenon
<1> QED BY <1>1, <1>2, PTL DEF Spec
\* Every reachable state is well typed, and the batch in progress lies in the
\* confirmed range.
THEOREM TypeCorrect == Spec => []TypeOK
  BY Invariance, PTL DEF IInv

\* The rewind history is one unbroken chain that ends in the checkpoint.
THEOREM HistoryChain == Spec => []HistoryIsChain
  BY Invariance, PTL DEF IInv

\* No stored event contradicts the recorded history.
THEOREM EventsRecorded == Spec => []EventsOnRecordedBlocks
  BY Invariance, PTL DEF IInv

\* The stored events are exactly the logs of the checkpoint and its ancestors,
\* unless a batch torn between its end header and its logs was committed.
THEOREM EventsExact == Spec => []CheckpointDescribesEvents
  BY Invariance, PTL DEF IInv

\* The operators of Chain mean the same in the instance of the abstract index.
LEMMA IndexOperators ==
    /\ \A a, b : Index!IsAncestor(a, b) = IsAncestor(a, b)
    /\ \A b : Index!LogsUpTo(b) = LogsBetween(b, StartBlock, Number(b))
  BY Zenon DEF Index!IsAncestor, IsAncestor, Index!LogsUpTo, Index!LogsBetween,
         LogsBetween, Index!LogsOf, LogsOf, Index!At, At, Index!Number, Number

\* A move of the store along the chain is a step of the abstract index, and so
\* is any move while the index is torn.
LEMMA MoveImplements ==
    ASSUME IInv, IInv', NEW b \in Blocks, checkpoint' = b,
           tainted => tainted',
           ~tainted' => \/ checkpoint = NoHash
                        \/ IsAncestor(checkpoint, b) \/ IsAncestor(b, checkpoint)
    PROVE  Index!Next
<1>1. tainted \in BOOLEAN /\ tainted' \in BOOLEAN /\ events' \subseteq Events
      /\ b # NoHash /\ (checkpoint # NoHash => checkpoint \in Blocks)
  BY NoHashNotBlock, Zenon DEF IInv, TypeOK, Hashes
<1>2. CASE tainted'
  <2>1. (~tainted') = FALSE
    BY <1>2, Zenon
  <2> QED BY <1>1, <2>1, Zenon DEF Index!Next, Index!Tear, Events
<1>3. CASE ~tainted'
  <2>1. ~tainted /\ (~tainted') = TRUE
    BY <1>3, Zenon
  <2>2. events' = Index!LogsUpTo(b)
    BY <1>1, <1>3, IndexOperators, Zenon DEF IInv, CheckpointDescribesEvents
  <2>3. CASE checkpoint = NoHash \/ IsAncestor(checkpoint, b)
    BY <1>1, <2>1, <2>2, <2>3, IndexOperators, Zenon DEF Index!Next, Index!Advance
  <2>4. CASE checkpoint # NoHash /\ IsAncestor(b, checkpoint)
    BY <1>1, <2>1, <2>2, <2>4, IndexOperators, Zenon DEF Index!Next, Index!Retreat
  <2> QED BY <1>3, <2>3, <2>4, Zenon
<1> QED BY <1>1, <1>2, <1>3, Zenon

\* Every step of the scanner is a step of the abstract index or leaves it alone.
LEMMA StepImplements ==
    ASSUME IInv, IInv', [Next]_vars
    PROVE  [Index!Next]_<<checkpoint, events, ~tainted>>
<1>1. CASE UNCHANGED <<store, tainted>>
  BY <1>1, Zenon DEF store
<1>2. CASE Rewind
  <2>1. PICK r \in walk : checkpoint' = r.hash
    BY <1>2, Zenon DEF Rewind
  <2>2. r \in canonical /\ r.hash \in Blocks /\ tainted' = tainted
    BY <1>2, <2>1, Zenon DEF IInv, TypeOK, Rows, Rewind
  <2>3. ~tainted => IsAncestor(r.hash, checkpoint)
    BY <2>2, Zenon DEF IInv, AncestryInv
  <2> QED BY <2>1, <2>2, <2>3, MoveImplements, Zenon
<1>3. CASE ResetFrom
  <2>1. checkpoint' = NoHash /\ tainted' = FALSE
    BY <1>3, Zenon DEF ResetFrom
  <2>2. events' = {} /\ (~tainted') = TRUE
    BY <2>1, Zenon DEF IInv, CheckpointDescribesEvents
  <2> QED BY <2>1, <2>2, Zenon DEF Index!Next, Index!Rebuild
<1>4. CASE Commit /\ Verified /\ ~Conflict
  <2>1. pc = "commit" /\ SaveBatch
    BY <1>4, Zenon DEF Commit
  <2>2. /\ checkpoint' = endHash /\ endHash \in Blocks
        /\ tainted' = (tainted \/ disturbed)
    BY <1>4, <2>1, SaveBatchFacts, Zenon DEF SaveBatch
  <2>3. ASSUME ~tainted', checkpoint # NoHash
        PROVE  IsAncestor(checkpoint, endHash)
    <3>1. checkpoint = At(endHash, from - 1) /\ Number(checkpoint) = from - 1
          /\ from <= Number(endHash) /\ from \in Nat
      BY <1>4, <2>1, <2>2, <2>3, BatchAncestry, SaveBatchFacts, Zenon
    <3> QED BY <3>1, <2>2, <2>3, NumberNat DEF IsAncestor, IInv, TypeOK, Hashes
  <2>4. tainted => tainted'
    BY <2>2, Zenon
  <2> QED BY <2>2, <2>3, <2>4, MoveImplements, Zenon
<1>5. Next => UNCHANGED <<store, tainted>> \/ Rewind \/ ResetFrom
                \/ (Commit /\ Verified /\ ~Conflict)
  BY Zenon DEF Next, Scan, Switch, Grow, Fail, Extend, Reorg, ReadLatest, LoadCheckpoint,
         VerifyCheckpointHeader, VerifyCheckpointHash, CompareAncestor,
         ReadEndHeader, ReadEndHash, FilterLogs, ReadHeader, Commit, history
<1>6. UNCHANGED vars => UNCHANGED <<store, tainted>>
  BY Zenon DEF vars, history
<1> QED BY <1>1, <1>2, <1>3, <1>4, <1>5, <1>6, Zenon

\* The scanner implements the abstract index of confirmed logs.
THEOREM Refinement == Spec => ImplementsIndex
<1>1. Init => Index!Init
  BY Zenon DEF Init, Index!Init
<1>2. IInv /\ IInv' /\ [Next]_vars => [Index!Next]_<<checkpoint, events, ~tainted>>
  BY StepImplements, Zenon
<1> QED BY <1>1, <1>2, Invariance, PTL DEF Spec, ImplementsIndex, Index!Spec

----------------------------------------------------------------------------
(* The scanner beside a backfill: the inductive invariant. *)

\* The range a row has left begins at or above StartBlock, and ends with the row.
InBounds(r) == StartBlock <= r.next /\ StartBlock <= r.to /\ r.next <= r.to + 1

\* The rows, the requests and the worker of the backfill, whatever is claimed,
\* changed or saved.
JobInv ==
    /\ jobs \in [Ids -> Jobs!Jobs \cup {None}]
    /\ \A j \in Ids : jobs[j] # None => InBounds(jobs[j])
    /\ stored \in [Ids -> SUBSET Nat]
    /\ request \in [Handlers -> Jobs!Requests \cup {None}]
    /\ \A h \in Handlers : request[h] # None => jobs[request[h].job] # None
    /\ wpc # "idle" =>
         /\ job \in Ids /\ jobs[job] # None
         /\ next \in Nat /\ StartBlock <= next /\ next <= jobs[job].to + 1

\* What the scanner has stored of a chain that has kept its fork.
OnChain ==
    /\ checkpoint # NoHash =>
         /\ checkpoint \in Blocks /\ IsAncestor(checkpoint, head)
         /\ StartBlock <= Number(checkpoint)
    /\ \A r \in canonical :
         /\ r.number \in Nat /\ r.number <= Number(head)
         /\ r.hash = At(head, r.number)

\* What it has read of it: the checkpoint is on the chain, so no ancestor is
\* ever searched, and a batch lies on the chain at or above StartBlock.
FollowInv ==
    /\ pc \notin {"walk", "rewind"}
    /\ pc \in {"verifyHeader", "verifyHash"} => checkpoint # NoHash
    /\ latest \in Nat /\ latest <= Number(head)
    /\ pc \in Fetching =>
         /\ from \in Nat /\ StartBlock <= from /\ from <= ConfirmedHead
         /\ headers \in Seq(Headers)
         /\ \A i \in 1..Len(headers) : headers[i].hash = At(head, from + i - 1)
    /\ pc \in {"endHeader", "endHash", "filterLogs"} => headers = << >>
    /\ pc = "headers" => from + Len(headers) < To
    /\ pc = "commit" => from + Len(headers) = To
    /\ pc \in {"filterLogs", "headers", "commit"} => endHash = At(head, To)
    /\ pc \in {"headers", "commit"} => logs = LogsBetween(head, from, To)

\* What a backfill has read and stored of it.
ReadInv ==
    /\ wpc = "save" =>
         /\ Jobs!To <= Number(head)
         /\ fetched = LogsBetween(head, next, Jobs!To)
    /\ \A j \in Ids : \A n \in stored[j] :
         /\ StartBlock <= n /\ n <= Number(head)
         /\ LogsOf(At(head, n)) \subseteq events
    /\ events \subseteq LogsBetween(head, StartBlock, Number(head))

RecoveryInv ==
    /\ head \in Blocks
    /\ JobInv
    /\ ~reorged => OnChain /\ FollowInv /\ ReadInv

\* On such a chain no batch of the scanner meets an event it contradicts, and no
\* batch of a backfill an event or a canonical_blocks row it contradicts: neither
\* transaction is ever rolled back because of what the other one stored.
NoConflict ==
    ~reorged =>
        /\ pc = "commit" => ~Conflict
        /\ wpc = "save" => \A e \in fetched : ~InConflict(e)

----------------------------------------------------------------------------
(* The chain that keeps its fork. *)

\* A new block keeps the ancestors of the head.
LEMMA GrowFacts ==
    ASSUME head \in Blocks, NEW b \in Blocks, Extend(b)
    PROVE  /\ head' = b /\ Number(head) \in Nat /\ Number(b) = Number(head) + 1
           /\ \A n \in 0..Number(head) : At(b, n) = At(head, n)
<1>1. head = At(b, Number(b) - 1) /\ Number(b) > 0 /\ head' = b
  BY BlocksAssumption, ParentAt DEF Extend, Number, ParentHash
<1>2. Number(head) = Number(b) - 1 /\ Number(head) \in Nat /\ Number(b) \in Nat
  BY <1>1, AtBlock, NumberNat
<1> QED BY <1>1, <1>2, AtAt

\* The logs of a range are those of the ancestors in it.
LEMMA LogsSame ==
    ASSUME NEW a, NEW b, NEW m \in Nat, NEW n \in Int,
           n <= Number(a), n <= Number(b), Number(a) \in Nat, Number(b) \in Nat,
           \A k \in 0..n : At(a, k) = At(b, k)
    PROVE  LogsBetween(a, m, n) = LogsBetween(b, m, n)
<1>1. /\ {j \in m..n : j <= Number(a)} = m..n
      /\ {j \in m..n : j <= Number(b)} = m..n
      /\ \A k \in m..n : At(a, k) = At(b, k)
  OBVIOUS
<1> QED BY <1>1, Zenon DEF LogsBetween

\* A range on the chain is part of the chain from StartBlock on.
LEMMA LogsWithin ==
    ASSUME NEW b, Number(b) \in Nat, NEW s \in Nat, NEW m \in Nat, NEW n \in Int, s <= m
    PROVE  LogsBetween(b, m, n) \subseteq LogsBetween(b, s, Number(b))
<1>1. {j \in m..n : j <= Number(b)} \subseteq {j \in s..Number(b) : j <= Number(b)}
  OBVIOUS
<1> QED BY <1>1, Zenon DEF LogsBetween

\* It holds the logs of each of its blocks.
LEMMA LogsAt ==
    ASSUME NEW b, Number(b) \in Nat, NEW m \in Nat, NEW n \in Int, NEW k \in m..n,
           k <= Number(b)
    PROVE  LogsOf(At(b, k)) \subseteq LogsBetween(b, m, n)
  BY Zenon DEF LogsBetween

\* A chain has each log once.
LEMMA LogsOnce ==
    ASSUME NEW b \in Blocks, NEW s \in Nat,
           NEW d \in LogsBetween(b, s, Number(b)), NEW e \in LogsBetween(b, s, Number(b)),
           d.id = e.id
    PROVE  d.block = e.block
<1>1. Number(b) \in Nat
  BY NumberNat, Zenon
<1>2. /\ d.id \in Logs[d.block] /\ d.block = At(b, Number(d.block))
      /\ Number(d.block) \in s..Number(b)
  BY <1>1, LogsBetweenType, Zenon
<1>3. /\ e.id \in Logs[e.block] /\ e.block = At(b, Number(e.block))
      /\ Number(e.block) \in s..Number(b)
  BY <1>1, LogsBetweenType, Zenon
<1>4. /\ Number(d.block) \in 0..Number(b) /\ Number(e.block) \in 0..Number(b)
      /\ e.id \in Logs[At(b, Number(d.block))] \cap Logs[At(b, Number(e.block))]
  BY <1>1, <1>2, <1>3
<1> QED BY <1>2, <1>3, <1>4, LogsAssumption, Zenon

----------------------------------------------------------------------------
(* The jobs. *)

\* A row is written.
LEMMA RowWritten ==
    ASSUME JobInv, NEW j \in Ids, NEW r \in Jobs!Jobs,
           InBounds(r), jobs' = [jobs EXCEPT ![j] = r]
    PROVE  /\ jobs' \in [Ids -> Jobs!Jobs \cup {None}]
           /\ \A k \in Ids : jobs'[k] # None => InBounds(jobs'[k])
           /\ \A k \in Ids : jobs[k] # None => jobs'[k] # None
           /\ jobs'[j] = r /\ \A k \in Ids \ {j} : jobs'[k] = jobs[k]
<1>1. r # None
  BY IndexAssumption, Zenon
<1>2. jobs \in [Ids -> Jobs!Jobs \cup {None}]
  BY Zenon DEF JobInv
<1>3. jobs' \in [Ids -> Jobs!Jobs \cup {None}]
      /\ jobs'[j] = r /\ \A k \in Ids \ {j} : jobs'[k] = jobs[k]
  BY <1>2, Zenon
<1> QED BY <1>1, <1>3, Zenon DEF JobInv

\* Only the state of a row changes.
LEMMA StateWritten ==
    ASSUME JobInv, NEW j \in Ids, jobs[j] # None, NEW s \in Jobs!States,
           jobs' = [jobs EXCEPT ![j] = [@ EXCEPT !.state = s]]
    PROVE  /\ jobs' \in [Ids -> Jobs!Jobs \cup {None}]
           /\ \A k \in Ids : jobs'[k] # None => InBounds(jobs'[k])
           /\ \A k \in Ids : jobs[k] # None => jobs'[k] # None /\ jobs'[k].to = jobs[k].to
<1> DEFINE r == [jobs[j] EXCEPT !.state = s]
<1>1. jobs[j] \in Jobs!Jobs /\ InBounds(jobs[j])
  BY Zenon DEF JobInv
<1>2. r \in Jobs!Jobs /\ r.to = jobs[j].to /\ InBounds(r)
  BY <1>1, Zenon DEF Jobs!Jobs, InBounds
<1>3. jobs' = [jobs EXCEPT ![j] = r]
  BY Zenon
<1> HIDE DEF r
<1> QED BY <1>1, <1>2, <1>3, RowWritten, Zenon

\* The requests and the worker keep to jobs that exist.
LEMMA RequestsStay ==
    ASSUME JobInv, request' = request, \A k \in Ids : jobs[k] # None => jobs'[k] # None
    PROVE  /\ request' \in [Handlers -> Jobs!Requests \cup {None}]
           /\ \A h \in Handlers : request'[h] # None => jobs'[request'[h].job] # None
<1> SUFFICES ASSUME NEW h \in Handlers, request[h] # None
             PROVE  jobs'[request[h].job] # None
  BY Zenon DEF JobInv
<1>1. request[h] \in Jobs!Requests /\ jobs[request[h].job] # None
  BY Zenon DEF JobInv
<1>2. request[h].job \in Ids
  BY <1>1, Zenon DEF Jobs!Requests
<1> QED BY <1>1, <1>2, Zenon

\* A request has read the state of its job, or ends.
LEMMA RequestWritten ==
    ASSUME JobInv, NEW h \in Handlers, NEW r \in Jobs!Requests \cup {None},
           r # None => jobs'[r.job] # None,
           request' = [request EXCEPT ![h] = r],
           \A k \in Ids : jobs[k] # None => jobs'[k] # None
    PROVE  /\ request' \in [Handlers -> Jobs!Requests \cup {None}]
           /\ \A g \in Handlers : request'[g] # None => jobs'[request'[g].job] # None
<1>1. request' \in [Handlers -> Jobs!Requests \cup {None}] /\ request'[h] = r
      /\ \A g \in Handlers \ {h} : request'[g] = request[g]
  BY Zenon DEF JobInv
<1>2. ASSUME NEW g \in Handlers \ {h}, request[g] # None
      PROVE  jobs'[request[g].job] # None
  <2>1. request[g] \in Jobs!Requests /\ jobs[request[g].job] # None
    BY <1>2, Zenon DEF JobInv
  <2>2. request[g].job \in Ids
    BY <2>1, Zenon DEF Jobs!Requests
  <2> QED BY <2>1, <2>2, Zenon
<1> QED BY <1>1, <1>2, Zenon

\* The steps of the administrators.
LEMMA AdministerJobs ==
    ASSUME JobInv, Jobs!Administer
    PROVE  /\ JobInv' /\ UNCHANGED <<stored, wpc, job, next>>
           /\ \A k \in Ids : jobs[k] # None => jobs'[k].to = jobs[k].to
<1>1. ASSUME NEW j \in Ids, NEW a \in Heights, NEW b \in Heights,
             Jobs!CreateBackfill(j, 1, a, b)
      PROVE  /\ JobInv' /\ UNCHANGED <<stored, wpc, job, next>>
             /\ \A k \in Ids : jobs[k] # None => jobs'[k].to = jobs[k].to
  <2> DEFINE r == [listener |-> 1, from |-> a, to |-> b, next |-> a, processed |-> 0,
                   state |-> "queued"]
  <2>0. /\ a \in Nat /\ b \in Nat /\ jobs[j] = None /\ Jobs!InRange(a, b)
        /\ UNCHANGED <<stored, request, wpc, job, next>>
        /\ jobs' = [jobs EXCEPT ![j] = r]
    BY <1>1, IndexAssumption, Zenon DEF Jobs!CreateBackfill, Jobs!Exists, Jobs!worker
  <2>1. /\ a \in Nat /\ b \in Nat /\ StartBlock <= a /\ StartBlock <= b
        /\ a <= b + 1 /\ jobs[j] = None /\ UNCHANGED <<stored, request, wpc, job, next>>
        /\ jobs' = [jobs EXCEPT ![j] = r]
    BY <2>0, OptionsAssumption DEF Jobs!InRange
  <2>2. r \in Jobs!Jobs /\ InBounds(r)
    BY <2>1, Zenon DEF Jobs!Jobs, Jobs!States, Jobs!Active, InBounds
  <2> HIDE DEF r
  <2>3. /\ jobs' \in [Ids -> Jobs!Jobs \cup {None}]
        /\ \A k \in Ids : jobs'[k] # None => InBounds(jobs'[k])
        /\ \A k \in Ids : jobs[k] # None => jobs'[k] # None
        /\ \A k \in Ids \ {j} : jobs'[k] = jobs[k]
    BY <2>1, <2>2, RowWritten, Zenon
  <2> QED BY <2>1, <2>3, RequestsStay, Zenon DEF JobInv
<1>2. ASSUME NEW h \in Handlers, Jobs!Transition(h)
      PROVE  /\ JobInv' /\ UNCHANGED <<stored, wpc, job, next>>
             /\ \A k \in Ids : jobs[k] # None => jobs'[k].to = jobs[k].to
  <2> DEFINE r == request[h]
  <2>1. /\ r # None /\ jobs' = [jobs EXCEPT ![r.job] = [@ EXCEPT !.state = r.to]]
        /\ request' = [request EXCEPT ![h] = None] /\ UNCHANGED <<stored, wpc, job, next>>
    BY <1>2, Zenon DEF Jobs!Transition, Jobs!worker
  <2>2. r \in Jobs!Requests /\ jobs[r.job] # None
    BY <2>1, Zenon DEF JobInv
  <2>3. r.job \in Ids /\ r.to \in Jobs!States
    BY <2>2, Zenon DEF Jobs!Requests, Jobs!Targets, Jobs!States, Jobs!Active, Jobs!Final
  <2> HIDE DEF r
  <2>4. /\ jobs' \in [Ids -> Jobs!Jobs \cup {None}]
        /\ \A k \in Ids : jobs'[k] # None => InBounds(jobs'[k])
        /\ \A k \in Ids : jobs[k] # None => jobs'[k] # None /\ jobs'[k].to = jobs[k].to
    BY <2>1, <2>2, <2>3, StateWritten, Zenon
  <2>5. /\ request' \in [Handlers -> Jobs!Requests \cup {None}]
        /\ \A g \in Handlers : request'[g] # None => jobs'[request'[g].job] # None
    BY <2>1, <2>4, RequestWritten, Zenon
  <2> QED BY <2>1, <2>4, <2>5 DEF JobInv
<1>3. ASSUME NEW h \in Handlers, Jobs!Abandon(h)
      PROVE  /\ JobInv' /\ UNCHANGED <<jobs, stored, wpc, job, next>>
  <2>1. request' = [request EXCEPT ![h] = None]
        /\ UNCHANGED <<jobs, stored, wpc, job, next>>
    BY <1>3, Zenon DEF Jobs!Abandon, Jobs!worker
  <2>2. /\ request' \in [Handlers -> Jobs!Requests \cup {None}]
        /\ \A g \in Handlers : request'[g] # None => jobs'[request'[g].job] # None
    BY <2>1, RequestWritten, Zenon
  <2> QED BY <2>1, <2>2, Zenon DEF JobInv
<1>4. ASSUME NEW h \in Handlers, NEW j \in Ids, NEW to \in Jobs!Targets,
             Jobs!ReadState(h, j, to)
      PROVE  /\ JobInv' /\ UNCHANGED <<jobs, stored, wpc, job, next>>
  <2> DEFINE r == [job |-> j, seen |-> jobs[j].state, to |-> to]
  <2>1. /\ jobs[j] # None /\ request' = [request EXCEPT ![h] = r]
        /\ UNCHANGED <<jobs, stored, wpc, job, next>>
    BY <1>4, Zenon DEF Jobs!ReadState, Jobs!worker, Jobs!Exists
  <2>2. r \in Jobs!Requests /\ r.job = j
    BY <2>1, Zenon DEF JobInv, Jobs!Jobs, Jobs!Requests
  <2> HIDE DEF r
  <2>3. /\ request' \in [Handlers -> Jobs!Requests \cup {None}]
        /\ \A g \in Handlers : request'[g] # None => jobs'[request'[g].job] # None
    BY <2>1, <2>2, RequestWritten, Zenon
  <2> QED BY <2>1, <2>3, Zenon DEF JobInv
<1> QED BY <1>1, <1>2, <1>3, <1>4, Zenon DEF Jobs!Administer

\* The steps of the worker, the transaction that saves a batch aside.
LEMMA WorkerJobs ==
    ASSUME JobInv,
           \/ \E j \in Ids : Jobs!ClaimBackfill(j)
           \/ Jobs!FetchRange \/ Jobs!SaveRefused \/ Jobs!FailBackfill \/ Jobs!Leave
    PROVE  JobInv' /\ stored' = stored
<1>1. ASSUME NEW j \in Ids, Jobs!ClaimBackfill(j)
      PROVE  JobInv' /\ stored' = stored
  <2>1. /\ jobs[j] # None /\ jobs' = [jobs EXCEPT ![j] = [@ EXCEPT !.state = "running"]]
        /\ job' = j /\ next' = jobs[j].next /\ UNCHANGED <<stored, request>>
    BY <1>1, Zenon DEF Jobs!ClaimBackfill, Jobs!Claimable, Jobs!In, Jobs!Exists
  <2>2. "running" \in Jobs!States
    BY Zenon DEF Jobs!States, Jobs!Active
  <2>3. /\ jobs' \in [Ids -> Jobs!Jobs \cup {None}]
        /\ \A k \in Ids : jobs'[k] # None => InBounds(jobs'[k])
        /\ \A k \in Ids : jobs[k] # None => jobs'[k] # None /\ jobs'[k].to = jobs[k].to
    BY <2>1, <2>2, StateWritten, Zenon
  <2>4. next' \in Nat /\ StartBlock <= next' /\ next' <= jobs'[j].to + 1
    BY <2>1, <2>3, Zenon DEF JobInv, InBounds, Jobs!Jobs
  <2> QED BY <2>1, <2>3, <2>4, RequestsStay, Zenon DEF JobInv
<1>2. ASSUME Jobs!FetchRange \/ Jobs!SaveRefused
      PROVE  JobInv' /\ stored' = stored
  BY <1>2, Zenon DEF JobInv, Jobs!FetchRange, Jobs!SaveRefused
<1>3. ASSUME Jobs!Return, UNCHANGED <<jobs, stored, request>>
      PROVE  JobInv' /\ stored' = stored
  BY <1>3, Zenon DEF JobInv, Jobs!Return
<1>4. ASSUME Jobs!FailBackfill
      PROVE  JobInv' /\ stored' = stored
  <2>1. CASE jobs[job].state = "running"
    <3>1. /\ job \in Ids /\ jobs[job] # None /\ "failed" \in Jobs!States
          /\ jobs' = [jobs EXCEPT ![job] = [@ EXCEPT !.state = "failed"]]
          /\ wpc' = "idle" /\ UNCHANGED <<stored, request>>
      BY <1>4, <2>1, Zenon DEF JobInv, Jobs!FailBackfill, Jobs!Return, Jobs!States
    <3>2. /\ jobs' \in [Ids -> Jobs!Jobs \cup {None}]
          /\ \A k \in Ids : jobs'[k] # None => InBounds(jobs'[k])
          /\ \A k \in Ids : jobs[k] # None => jobs'[k] # None
      BY <3>1, StateWritten, Zenon
    <3> QED BY <3>1, <3>2, RequestsStay, Zenon DEF JobInv
  <2>2. CASE jobs[job].state # "running"
    BY <1>3, <1>4, <2>2, Zenon DEF Jobs!FailBackfill
  <2> QED BY <2>1, <2>2, Zenon
<1> QED BY <1>1, <1>2, <1>3, <1>4, Zenon DEF Jobs!Leave

\* The batch of a job ends where the job does, or BatchSize blocks on.
LEMMA BatchEnd ==
    ASSUME JobInv, wpc # "idle"
    PROVE  /\ Jobs!To \in Nat /\ StartBlock <= Jobs!To + 1
           /\ next <= Jobs!To + 1 /\ Jobs!To <= jobs[job].to
<1>1. /\ jobs[job] \in Jobs!Jobs /\ next \in Nat /\ StartBlock <= next
      /\ StartBlock <= jobs[job].to /\ next <= jobs[job].to + 1
  BY Zenon DEF JobInv, InBounds
<1>2. jobs[job].to \in Nat
  BY <1>1, Zenon DEF Jobs!Jobs
<1> QED BY <1>1, <1>2, OptionsAssumption DEF Jobs!To

\* The transaction that saves a batch.
LEMMA SaveJobs ==
    ASSUME JobInv, Jobs!SaveBackfillBatch
    PROVE  /\ JobInv' /\ job \in Ids /\ wpc = "save" /\ wpc' = "idle"
           /\ stored' = [stored EXCEPT ![job] = stored[job] \cup next..Jobs!To]
           /\ next \in Nat /\ StartBlock <= next /\ Jobs!To \in Nat
<1> DEFINE o == jobs[job]
           t == Jobs!To
           s == IF t = o.to THEN "completed" ELSE "running"
           r == [o EXCEPT !.next = t + 1, !.processed = o.processed + (t - next + 1),
                          !.state = s]
<1>1. /\ wpc = "save" /\ wpc' = "idle" /\ request' = request
      /\ job \in Ids /\ o \in Jobs!Jobs /\ next \in Nat /\ StartBlock <= next
      /\ InBounds(o) /\ o # None
      /\ jobs' = [jobs EXCEPT ![job] = r]
      /\ stored' = [stored EXCEPT ![job] = stored[job] \cup next..t]
  BY Zenon DEF JobInv, Jobs!SaveBackfillBatch, Jobs!Advance, Jobs!Return
<1>2. t \in Nat /\ StartBlock <= t + 1 /\ next <= t + 1 /\ t <= o.to
  BY <1>1, BatchEnd, Zenon
<1>3. s \in Jobs!States
  BY Zenon DEF Jobs!States, Jobs!Active, Jobs!Final
<1> HIDE DEF t, s
<1>4. t + 1 \in Nat /\ o.processed + (t - next + 1) \in Nat /\ t + 1 <= o.to + 1
  BY <1>1, <1>2 DEF Jobs!Jobs
<1>5. r \in Jobs!Jobs /\ r.next = t + 1 /\ r.to = o.to
  BY <1>1, <1>3, <1>4, Zenon DEF Jobs!Jobs
<1> HIDE DEF r
<1>6. InBounds(r)
  BY <1>1, <1>2, <1>4, <1>5, Zenon DEF InBounds
<1>7. /\ jobs' \in [Ids -> Jobs!Jobs \cup {None}]
      /\ \A k \in Ids : jobs'[k] # None => InBounds(jobs'[k])
      /\ \A k \in Ids : jobs[k] # None => jobs'[k] # None
  BY <1>1, <1>5, <1>6, RowWritten, Zenon
<1>8. stored' \in [Ids -> SUBSET Nat]
  <2>1. next..t \subseteq Nat
    BY <1>1, <1>2
  <2> QED BY <1>1, <2>1, Zenon DEF JobInv
<1>9. JobInv'
  BY <1>1, <1>7, <1>8, RequestsStay, Zenon DEF JobInv
<1> QED BY <1>1, <1>2, <1>9, Zenon DEF t

----------------------------------------------------------------------------
(* The scanner on a chain that keeps its fork. *)

\* A step that leaves the jobs alone keeps what is known of them.
LEMMA JobsStable == ASSUME JobInv, UNCHANGED jobVars PROVE JobInv' /\ Jobs!To' = Jobs!To
  BY Zenon DEF JobInv, jobVars, Jobs!To

\* A step that leaves the head and the store alone keeps what is known of them.
LEMMA ChainStable ==
    ASSUME OnChain, ReadInv, UNCHANGED <<head, store, jobVars, fetched>>
    PROVE  OnChain' /\ ReadInv'
<1>1. OnChain'
  BY Zenon DEF OnChain, store
<1>2. Jobs!To' = Jobs!To
  BY Zenon DEF jobVars, Jobs!To
<1>3. ReadInv'
  BY <1>2, Zenon DEF ReadInv, store, jobVars
<1> QED BY <1>1, <1>3, Zenon

\* A return of ScanOnce leaves nothing behind.
LEMMA ReturnFollow == ASSUME head' \in Blocks, Return PROVE FollowInv'
<1>1. Number(head') \in Nat
  BY NumberNat, Zenon
<1> QED BY <1>1 DEF FollowInv, Return, ClearBatch, Fetching

\* A batch starts above what is stored.
LEMMA StartFollow ==
    ASSUME FollowInv, head' = head, NEW n \in Nat, StartBlock <= n, n <= ConfirmedHead,
           NEW parent, StartBatch(n, parent)
    PROVE  FollowInv'
<1>1. latest' = latest /\ ConfirmedHead' = ConfirmedHead
  BY Zenon DEF StartBatch, ConfirmedHead
<1>2. headers' \in Seq(Headers) /\ Len(headers') = 0
  BY DEF StartBatch
<1> QED BY <1>1, <1>2 DEF FollowInv, StartBatch, Fetching

\* resumeBlock hands over to the first batch or ends the cycle.
LEMMA ResumeFollow ==
    ASSUME FollowInv, head \in Blocks, head' = head, NEW n \in Nat, NEW cp,
           StartBlock <= n, Resume(n, cp)
    PROVE  FollowInv'
<1>1. CASE n > ConfirmedHead
  BY <1>1, ReturnFollow, Zenon DEF Resume
<1>2. CASE ~(n > ConfirmedHead)
  <2>1. ConfirmedHead \in Int
    BY OptionsAssumption DEF FollowInv, ConfirmedHead
  <2> QED BY <1>2, <2>1, StartFollow DEF Resume
<1> QED BY <1>1, <1>2, Zenon

\* The end of the batch lies between its first block and the head.
LEMMA ToFollow ==
    ASSUME FollowInv, head \in Blocks, pc \in Fetching
    PROVE  /\ from \in Nat /\ To \in Nat /\ from <= To /\ To <= Number(head)
           /\ To <= ConfirmedHead /\ Number(head) \in Nat /\ ConfirmedHead \in Int
<1>1. /\ from \in Nat /\ from <= ConfirmedHead /\ latest \in Nat /\ latest <= Number(head)
      /\ Number(head) \in Nat
  BY NumberNat, Zenon DEF FollowInv
<1> QED BY <1>1, OptionsAssumption DEF To, ConfirmedHead

\* The steps of ScanOnce that leave the store alone.
LEMMA ReadsFollow ==
    ASSUME head \in Blocks, OnChain, FollowInv,
           \/ ReadLatest \/ LoadCheckpoint \/ VerifyCheckpointHeader
           \/ VerifyCheckpointHash \/ CompareAncestor
           \/ ReadEndHeader \/ ReadEndHash \/ FilterLogs \/ ReadHeader
    PROVE  FollowInv' /\ UNCHANGED <<head, store>>
<1>1. UNCHANGED <<head, store>>
  BY Zenon DEF ReadLatest, LoadCheckpoint, VerifyCheckpointHeader, VerifyCheckpointHash,
         CompareAncestor, ReadEndHeader, ReadEndHash, FilterLogs, ReadHeader
<1>2. /\ head' = head /\ head' \in Blocks /\ Number(head) \in Nat
      /\ checkpoint' = checkpoint
  BY <1>1, NumberNat, Zenon DEF store
<1> SUFFICES FollowInv'
  BY <1>1, Zenon
<1>3. CASE Return
  BY <1>2, <1>3, ReturnFollow, Zenon
<1>4. CASE ReadLatest
  BY <1>2, <1>4 DEF ReadLatest, FollowInv, Fetching
<1>5. CASE LoadCheckpoint
  <2>1. CASE checkpoint = NoHash /\ Resume(StartBlock, NoHash)
    BY <1>2, <2>1, ResumeFollow, OptionsAssumption
  <2>2. CASE /\ checkpoint # NoHash /\ Number(checkpoint) > latest
             /\ Resume(latest + 1, checkpoint)
    <3>1. latest + 1 > ConfirmedHead
      BY OptionsAssumption DEF FollowInv, ConfirmedHead
    <3> QED BY <1>3, <2>2, <3>1, Zenon DEF Resume
  <2>3. CASE /\ checkpoint # NoHash /\ pc' = "verifyHeader"
             /\ UNCHANGED <<latest, walk, batch, disturbed>>
    BY <1>2, <2>3, Zenon DEF FollowInv, Fetching
  <2> QED BY <1>5, <2>1, <2>2, <2>3, Zenon DEF LoadCheckpoint
<1>6. CASE VerifyCheckpointHeader
  <2>1. CASE /\ pc = "verifyHeader" /\ pc' = "verifyHash"
             /\ UNCHANGED <<latest, walk, batch, disturbed>>
    BY <1>2, <2>1, Zenon DEF FollowInv, Fetching
  <2> QED BY <1>3, <1>6, <2>1, Zenon DEF VerifyCheckpointHeader
<1>7. CASE VerifyCheckpointHash
  <2>1. checkpoint # NoHash
    BY <1>7, Zenon DEF FollowInv, VerifyCheckpointHash
  <2>2. /\ Number(checkpoint) \in Nat /\ StartBlock <= Number(checkpoint) + 1
        /\ Number(checkpoint) + 1 \in Nat /\ At(head, Number(checkpoint)) = checkpoint
    BY <2>1, NumberNat, OptionsAssumption DEF OnChain, IsAncestor
  <2>3. CASE Resume(Number(checkpoint) + 1, checkpoint)
    BY <1>2, <2>2, <2>3, ResumeFollow, Zenon
  <2> QED BY <1>3, <1>7, <2>2, <2>3, Zenon DEF VerifyCheckpointHash
<1>8. CASE CompareAncestor
  BY <1>8, Zenon DEF CompareAncestor, FollowInv
<1>9. ASSUME pc \in Fetching
      PROVE  /\ from \in Nat /\ To \in Nat /\ from <= To /\ To <= Number(head)
             /\ headers \in Seq(Headers) /\ Len(headers) \in Nat
  BY <1>9, ToFollow DEF FollowInv
<1>10. CASE ReadEndHeader
  <2>1. CASE /\ pc = "endHeader" /\ pc' = "endHash"
             /\ UNCHANGED <<latest, from, endHash, logs, headers>>
    BY <1>2, <2>1, Zenon DEF FollowInv, Fetching, ConfirmedHead
  <2> QED BY <1>3, <1>10, <2>1, Zenon DEF ReadEndHeader
<1>11. CASE ReadEndHash
  <2>1. CASE /\ pc = "endHash" /\ pc' = "filterLogs" /\ endHash' = At(head, To)
             /\ UNCHANGED <<latest, from, logs, headers>>
    <3>1. To' = To /\ ConfirmedHead' = ConfirmedHead
      BY <2>1, Zenon DEF To, ConfirmedHead
    <3> QED BY <1>2, <2>1, <3>1, Zenon DEF FollowInv, Fetching
  <2> QED BY <1>3, <1>11, <2>1, Zenon DEF ReadEndHash
<1>12. CASE FilterLogs
  <2>1. /\ pc = "filterLogs" /\ logs' = LogsBetween(head, from, To)
        /\ pc' = (IF from + Len(headers) = To THEN "commit" ELSE "headers")
        /\ UNCHANGED <<latest, from, endHash, headers>>
    BY <1>12, Zenon DEF FilterLogs, AfterHeaders
  <2>2. To' = To /\ ConfirmedHead' = ConfirmedHead
    BY <2>1, Zenon DEF To, ConfirmedHead
  <2>3. headers = << >> /\ Len(headers) = 0 /\ pc \in Fetching
    BY <2>1, Zenon DEF FollowInv, Fetching
  <2>4. from + Len(headers) # To => from + Len(headers) < To
    BY <1>9, <2>3
  <2> QED BY <1>2, <2>1, <2>2, <2>3, <2>4, Zenon DEF FollowInv, Fetching
<1>13. CASE ReadHeader
  <2> DEFINE n == from + Len(headers)
             b == At(head, n)
             h == [hash |-> b, parent |-> ParentHash(b)]
  <2>1. CASE /\ ~(n > Number(head)) /\ headers' = Append(headers, h)
             /\ pc' = (IF from + Len(headers') = To THEN "commit" ELSE "headers")
             /\ UNCHANGED <<latest, from, endHash, logs>>
    <3>1. /\ pc = "headers" /\ pc \in Fetching /\ n < To /\ n \in Nat
      BY <1>9, <1>13 DEF ReadHeader, FollowInv, Fetching
    <3>2. h \in Headers /\ h.hash = b
      BY <1>2, <2>1, <3>1, AtBlock, ParentAt DEF Headers
    <3> HIDE DEF h
    <3>3. /\ headers' \in Seq(Headers) /\ Len(headers') = Len(headers) + 1
          /\ \A i \in 1..Len(headers) : headers'[i] = headers[i]
          /\ headers'[Len(headers) + 1] = h
      BY <1>9, <2>1, <3>1, <3>2
    <3>4. To' = To /\ ConfirmedHead' = ConfirmedHead
      BY <2>1, Zenon DEF To, ConfirmedHead
    <3>5. ASSUME NEW i \in 1..Len(headers') PROVE headers'[i].hash = At(head, from + i - 1)
      <4>1. CASE i = Len(headers) + 1
        <5>1. from + i - 1 = n
          BY <1>9, <3>1, <4>1
        <5> QED BY <3>2, <3>3, <4>1, <5>1, Zenon
      <4>2. CASE i \in 1..Len(headers)
        BY <3>1, <3>3, <4>2, Zenon DEF FollowInv
      <4> QED BY <1>9, <3>1, <3>3, <4>1, <4>2
    <3>6. from + Len(headers') # To => from + Len(headers') < To
      BY <1>9, <3>1, <3>3
    <3> QED BY <1>2, <2>1, <3>1, <3>3, <3>4, <3>5, <3>6, Zenon DEF FollowInv, Fetching
  <2> QED BY <1>3, <1>13, <2>1, Zenon DEF ReadHeader, AfterHeaders
<1> QED BY <1>4, <1>5, <1>6, <1>7, <1>8, <1>10, <1>11, <1>12, <1>13, Zenon

\* The rows of a batch are rows of the chain.
LEMMA RowsFollow ==
    ASSUME FollowInv, head \in Blocks, pc = "commit", NEW r \in BatchRows
    PROVE  r.number \in Nat /\ r.number <= Number(head) /\ r.hash = At(head, r.number)
<1> DEFINE e == [hash |-> endHash, parent |-> endParent]
<1>1. /\ from \in Nat /\ To \in Nat /\ To <= Number(head) /\ Number(head) \in Nat
      /\ headers \in Seq(Headers) /\ Len(headers) \in Nat /\ from + Len(headers) = To
      /\ endHash = At(head, To)
  BY ToFollow DEF FollowInv, Fetching
<1>2. e.hash = endHash
  BY Zenon
<1> HIDE DEF e
<1>3. /\ Len(BatchHeaders) = Len(headers) + 1
      /\ \A i \in 1..Len(headers) : BatchHeaders[i] = headers[i]
      /\ BatchHeaders[Len(headers) + 1] = e
  BY <1>1 DEF BatchHeaders, e
<1>4. PICK i \in 1..Len(BatchHeaders) :
        r = [number |-> from + i - 1, hash |-> BatchHeaders[i].hash,
             parent |-> BatchHeaders[i].parent]
  BY Zenon DEF BatchRows
<1>5. r.number = from + i - 1 /\ r.hash = BatchHeaders[i].hash
  BY <1>4, Zenon
<1>6. CASE i = Len(headers) + 1
  <2>1. from + i - 1 = To
    BY <1>1, <1>6
  <2> QED BY <1>1, <1>2, <1>3, <1>5, <1>6, <2>1, Zenon
<1>7. CASE i \in 1..Len(headers)
  <2>1. headers[i].hash = At(head, from + i - 1)
    BY <1>7, Zenon DEF FollowInv, Fetching
  <2>2. from + i - 1 \in Nat /\ from + i - 1 <= Number(head)
    BY <1>1, <1>7
  <2> QED BY <1>3, <1>5, <1>7, <2>1, <2>2, Zenon
<1> QED BY <1>1, <1>3, <1>6, <1>7

\* A batch that is committed, or not.
LEMMA CommitFollow ==
    ASSUME head \in Blocks, OnChain, FollowInv, Commit,
           events \subseteq LogsBetween(head, StartBlock, Number(head))
    PROVE  /\ OnChain' /\ FollowInv' /\ head' = head
           /\ events \subseteq events'
           /\ events' \subseteq LogsBetween(head, StartBlock, Number(head))
<1>1. /\ pc = "commit" /\ head' = head /\ head' \in Blocks
      /\ from \in Nat /\ To \in Nat /\ from <= To /\ To <= Number(head)
      /\ To <= ConfirmedHead /\ Number(head) \in Nat /\ ConfirmedHead \in Int
      /\ StartBlock <= from /\ StartBlock \in Nat
      /\ endHash = At(head, To) /\ logs = LogsBetween(head, from, To)
  BY ToFollow, OptionsAssumption, Zenon DEF Commit, FollowInv, Fetching
<1>2. CASE ~(Verified /\ ~Conflict)
  <2>1. Return /\ UNCHANGED <<checkpoint, canonical, events>>
    BY <1>2, Zenon DEF Commit, store
  <2> QED BY <1>1, <2>1, ReturnFollow, Zenon DEF OnChain
<1>3. CASE Verified /\ ~Conflict
  <2>1. /\ events' = events \cup logs
        /\ \A r \in canonical' : r \in canonical \/ r \in BatchRows
        /\ checkpoint' = endHash \/ (checkpoint # NoHash /\ checkpoint' = checkpoint)
    BY <1>3, Zenon DEF Commit, SaveBatch, Retained, Upsert
  <2>2. FollowInv'
    <3>1. CASE To = ConfirmedHead
      BY <1>1, <1>3, <3>1, ReturnFollow, Zenon DEF Commit
    <3>2. CASE To # ConfirmedHead
      <4>1. To + 1 \in Nat /\ StartBlock <= To + 1 /\ To + 1 <= ConfirmedHead
        BY <1>1, <3>2
      <4>2. StartBatch(To + 1, endHash)
        BY <1>3, <3>2, Zenon DEF Commit
      <4> QED BY <1>1, <4>1, <4>2, StartFollow, Zenon
    <3> QED BY <3>1, <3>2, Zenon
  <2>3. endHash \in Blocks /\ Number(endHash) = To
    BY <1>1, AtBlock
  <2>4. IsAncestor(endHash, head) /\ StartBlock <= Number(endHash)
    BY <1>1, <2>3 DEF IsAncestor
  <2>5. \A r \in canonical' :
          r.number \in Nat /\ r.number <= Number(head) /\ r.hash = At(head, r.number)
    BY <1>1, <2>1, RowsFollow, Zenon DEF OnChain
  <2>6. OnChain'
    BY <1>1, <2>1, <2>3, <2>4, <2>5, Zenon DEF OnChain
  <2>7. logs \subseteq LogsBetween(head, StartBlock, Number(head))
    BY <1>1, LogsWithin
  <2> QED BY <1>1, <2>1, <2>2, <2>6, <2>7, Zenon
<1> QED BY <1>2, <1>3, Zenon

----------------------------------------------------------------------------
(* The inductive invariant of the composition. *)

\* A scanner that starts from nothing or from a first checkpoint, and no job.
LEMMA InitRecovery == InitIndex => RecoveryInv
<1> SUFFICES ASSUME InitIndex PROVE RecoveryInv
  BY Zenon
<1>1. head \in Blocks /\ Number(head) \in Nat
  BY NumberNat, Zenon DEF InitIndex
<1>2. JobInv
  BY Zenon DEF InitIndex, Jobs!Init, JobInv
<1>3. OnChain
  <2>1. CASE checkpoint = NoHash /\ canonical = {}
    BY <2>1, Zenon DEF OnChain
  <2>2. ASSUME NEW n \in StartBlock..Number(head), checkpoint = At(head, n),
               canonical = {[number |-> n, hash |-> At(head, n),
                             parent |-> ParentHash(At(head, n))]}
        PROVE  OnChain
    <3>1. n \in Nat /\ n <= Number(head) /\ StartBlock <= n
      BY <1>1, OptionsAssumption
    <3>2. At(head, n) \in Blocks /\ Number(At(head, n)) = n
      BY <1>1, <3>1, AtBlock
    <3>3. IsAncestor(checkpoint, head)
      BY <2>2, <3>1, <3>2, Zenon DEF IsAncestor
    <3>4. \A r \in canonical : r.number = n /\ r.hash = At(head, n)
      BY <2>2
    <3> QED BY <2>2, <3>1, <3>2, <3>3, <3>4, Zenon DEF OnChain
  <2> QED BY <2>1, <2>2, Zenon DEF InitIndex
<1>4. FollowInv
  BY <1>1 DEF InitIndex, FollowInv, Fetching
<1>5. ReadInv
  BY Zenon DEF InitIndex, Jobs!Init, ReadInv
<1> QED BY <1>1, <1>2, <1>3, <1>4, <1>5, Zenon DEF RecoveryInv

\* The scanner's own steps.
LEMMA ScanRecovery ==
    ASSUME RecoveryInv, Scan, UNCHANGED <<jobVars, fetched, reorged>>
    PROVE  RecoveryInv'
<1>1. head \in Blocks /\ JobInv /\ JobInv' /\ Jobs!To' = Jobs!To /\ head' = head
  <2>1. head' = head
    BY Zenon DEF Scan, ReadLatest, LoadCheckpoint, VerifyCheckpointHeader, VerifyCheckpointHash,
           CompareAncestor, Rewind, ResetFrom, ReadEndHeader, ReadEndHash, FilterLogs,
           ReadHeader, Commit
  <2> QED BY <2>1, JobsStable, Zenon DEF RecoveryInv
<1> SUFFICES ASSUME ~reorged PROVE OnChain' /\ FollowInv' /\ ReadInv'
  BY <1>1, Zenon DEF RecoveryInv
<1>2. OnChain /\ FollowInv /\ ReadInv
  BY Zenon DEF RecoveryInv
<1>3. CASE \/ ReadLatest \/ LoadCheckpoint \/ VerifyCheckpointHeader
           \/ VerifyCheckpointHash \/ CompareAncestor
           \/ ReadEndHeader \/ ReadEndHash \/ FilterLogs \/ ReadHeader
  BY <1>1, <1>2, <1>3, ReadsFollow, ChainStable, Zenon
<1>4. CASE Rewind \/ ResetFrom
  BY <1>2, <1>4, Zenon DEF Rewind, ResetFrom, FollowInv
<1>5. CASE Commit
  <2>1. /\ OnChain' /\ FollowInv' /\ events \subseteq events'
        /\ events' \subseteq LogsBetween(head, StartBlock, Number(head))
    BY <1>1, <1>2, <1>5, CommitFollow, Zenon DEF ReadInv
  <2>2. ReadInv'
    BY <1>1, <1>2, <2>1, Zenon DEF ReadInv, jobVars
  <2> QED BY <2>1, <2>2, Zenon
<1> QED BY <1>3, <1>4, <1>5, Zenon DEF Scan

\* A new block.
LEMMA GrowRecovery ==
    ASSUME RecoveryInv, NEW b \in Blocks, Extend(b), UNCHANGED <<jobVars, fetched, reorged>>
    PROVE  RecoveryInv'
<1>1. /\ head \in Blocks /\ JobInv /\ JobInv' /\ Jobs!To' = Jobs!To
      /\ UNCHANGED <<store, local>>
  BY JobsStable, Zenon DEF RecoveryInv, Extend
<1>2. /\ head' = b /\ Number(head) \in Nat /\ Number(b) = Number(head) + 1
      /\ \A n \in 0..Number(head) : At(b, n) = At(head, n)
  BY <1>1, GrowFacts, Zenon
<1> SUFFICES ASSUME ~reorged PROVE OnChain' /\ FollowInv' /\ ReadInv'
  BY <1>1, <1>2, Zenon DEF RecoveryInv
<1>3. OnChain /\ FollowInv /\ ReadInv
  BY Zenon DEF RecoveryInv
<1>4. ASSUME NEW m \in Nat, NEW n \in Int, n <= Number(head)
      PROVE  LogsBetween(head, m, n) = LogsBetween(b, m, n)
  BY <1>2, <1>4, LogsSame
<1>5. OnChain'
  <2>1. ASSUME checkpoint # NoHash PROVE IsAncestor(checkpoint, b)
    <3>1. Number(checkpoint) \in Nat /\ Number(checkpoint) <= Number(head)
          /\ At(head, Number(checkpoint)) = checkpoint
      BY <1>3, <2>1, NumberNat, Zenon DEF OnChain, IsAncestor
    <3> QED BY <1>2, <3>1 DEF IsAncestor
  <2>2. ASSUME NEW r \in canonical
        PROVE  r.number \in Nat /\ r.number <= Number(b) /\ r.hash = At(b, r.number)
    BY <1>2, <1>3 DEF OnChain
  <2> QED BY <1>1, <1>2, <1>3, <2>1, <2>2, Zenon DEF OnChain, store
<1>6. FollowInv'
  <2>1. To' = To /\ ConfirmedHead' = ConfirmedHead
    BY <1>1, Zenon DEF To, ConfirmedHead, local, batch
  <2>2. ASSUME pc \in Fetching
        PROVE  /\ from \in Nat /\ To \in Nat /\ To <= Number(head) /\ At(b, To) = At(head, To)
               /\ LogsBetween(head, from, To) = LogsBetween(b, from, To)
    <3>1. from \in Nat /\ To \in Nat /\ To <= Number(head)
      BY <1>1, <1>3, <2>2, ToFollow, Zenon
    <3> QED BY <1>2, <1>4, <3>1
  <2>3. ASSUME pc \in Fetching, NEW i \in 1..Len(headers)
        PROVE  headers[i].hash = At(b, from + i - 1)
    <3>1. headers[i].hash = At(head, from + i - 1) /\ Len(headers) \in Nat
          /\ from + Len(headers) <= To
      BY <1>3, <2>2, <2>3 DEF FollowInv, Fetching
    <3>2. from + i - 1 \in 0..Number(head)
      BY <1>2, <2>2, <2>3, <3>1
    <3> QED BY <1>2, <3>1, <3>2, Zenon
  <2>4. latest \in Nat /\ latest <= Number(b)
    BY <1>2, <1>3 DEF FollowInv
  <2>5. {"filterLogs", "headers", "commit"} \subseteq Fetching
    BY Zenon DEF Fetching
  <2> QED BY <1>1, <1>2, <1>3, <2>1, <2>2, <2>3, <2>4, <2>5, Zenon
    DEF FollowInv, store, local, batch
<1>7. ReadInv'
  <2>1. ASSUME wpc = "save"
        PROVE  Jobs!To <= Number(b) /\ fetched = LogsBetween(b, next, Jobs!To)
    <3>1. /\ next \in Nat /\ Jobs!To <= Number(head)
          /\ fetched = LogsBetween(head, next, Jobs!To)
      BY <1>1, <1>3, <2>1, Zenon DEF ReadInv, JobInv
    <3>2. Jobs!To \in Int
      BY <1>1, <2>1, BatchEnd
    <3>3. LogsBetween(head, next, Jobs!To) = LogsBetween(b, next, Jobs!To)
      BY <1>4, <3>1, <3>2, Zenon
    <3> QED BY <1>2, <3>1, <3>2, <3>3
  <2>2. ASSUME NEW j \in Ids, NEW n \in stored[j]
        PROVE  /\ StartBlock <= n /\ n <= Number(b)
               /\ LogsOf(At(b, n)) \subseteq events
    <3>1. n \in Nat /\ n <= Number(head) /\ StartBlock <= n
          /\ LogsOf(At(head, n)) \subseteq events
      BY <1>1, <1>3, Zenon DEF ReadInv, JobInv
    <3> QED BY <1>2, <3>1
  <2>3. events \subseteq LogsBetween(b, StartBlock, Number(b))
    <3>1. LogsBetween(head, StartBlock, Number(head)) = LogsBetween(b, StartBlock, Number(head))
      BY <1>2, <1>4, OptionsAssumption
    <3>2. LogsBetween(b, StartBlock, Number(head)) \subseteq LogsBetween(b, StartBlock, Number(b))
      BY <1>2, LogsWithin, OptionsAssumption
    <3> QED BY <1>3, <3>1, <3>2, Zenon DEF ReadInv
  <2> QED BY <1>1, <1>2, <2>1, <2>2, <2>3, Zenon DEF ReadInv, jobVars, store
<1> QED BY <1>5, <1>6, <1>7, Zenon

\* The steps of the backfill that store nothing.
LEMMA JobRecovery ==
    ASSUME RecoveryInv, JobStep \/ FetchRange PROVE RecoveryInv'
<1>1. head \in Blocks /\ JobInv /\ UNCHANGED <<vars, reorged>>
  BY Zenon DEF RecoveryInv, JobStep, FetchRange
<1>2. UNCHANGED <<head, store, local>>
  BY <1>1, Zenon DEF vars
<1>3. JobInv' /\ stored' = stored
  BY <1>1, AdministerJobs, WorkerJobs, Zenon DEF JobStep, FetchRange
<1> SUFFICES ASSUME ~reorged PROVE OnChain' /\ FollowInv' /\ ReadInv'
  BY <1>1, <1>2, <1>3, Zenon DEF RecoveryInv
<1>4. OnChain /\ FollowInv /\ ReadInv
  BY Zenon DEF RecoveryInv
<1>5. OnChain'
  BY <1>2, <1>4, Zenon DEF OnChain, store
<1>6. FollowInv'
  BY <1>2, <1>4, Zenon DEF FollowInv, store, local, batch, To, ConfirmedHead
<1>7. ASSUME wpc' = "save"
      PROVE  Jobs!To' <= Number(head) /\ fetched' = LogsBetween(head, next', Jobs!To')
  <2>1. CASE FetchRange
    <3>1. /\ UNCHANGED <<jobs, job, next>> /\ Jobs!To <= Number(head)
          /\ fetched' = LogsBetween(head, next, Jobs!To)
      BY <1>7, <2>1, Zenon DEF FetchRange, Jobs!FetchRange
    <3>2. Jobs!To' = Jobs!To
      BY <3>1, Zenon DEF Jobs!To
    <3> QED BY <3>1, <3>2, Zenon
  <2>2. CASE JobStep
    <3>1. Jobs!Administer /\ fetched' = fetched
      BY <1>7, <2>2, Zenon DEF JobStep, Jobs!ClaimBackfill, Jobs!SaveRefused, Jobs!FailBackfill,
                        Jobs!Leave, Jobs!Return
    <3>2. /\ UNCHANGED <<wpc, job, next>>
          /\ \A k \in Ids : jobs[k] # None => jobs'[k].to = jobs[k].to
      BY <1>1, <3>1, AdministerJobs, Zenon
    <3>3. job \in Ids /\ jobs[job] # None
      BY <1>1, <1>7, <3>2, Zenon DEF JobInv
    <3>4. Jobs!To' = Jobs!To
      BY <3>2, <3>3, Zenon DEF Jobs!To
    <3> QED BY <1>4, <1>7, <3>1, <3>2, <3>4, Zenon DEF ReadInv
  <2> QED BY <2>1, <2>2, Zenon
<1>8. ReadInv'
  BY <1>2, <1>3, <1>4, <1>7, Zenon DEF ReadInv, store
<1> QED BY <1>5, <1>6, <1>8, Zenon

\* The transaction that stores a batch of a backfill.
LEMMA SaveRecovery ==
    ASSUME RecoveryInv, SaveBackfillBatch PROVE RecoveryInv'
<1> DEFINE t == Jobs!To
<1>1. /\ head \in Blocks /\ Number(head) \in Nat
      /\ JobInv /\ JobInv' /\ job \in Ids /\ wpc = "save" /\ wpc' = "idle"
      /\ stored' = [stored EXCEPT ![job] = stored[job] \cup next..t]
      /\ next \in Nat /\ StartBlock <= next /\ t \in Nat
      /\ events' = events \cup fetched
      /\ UNCHANGED <<head, checkpoint, canonical, local, reorged>>
  BY SaveJobs, NumberNat, Zenon DEF RecoveryInv, SaveBackfillBatch, scanning
<1> HIDE DEF t
<1> SUFFICES ASSUME ~reorged PROVE OnChain' /\ FollowInv' /\ ReadInv'
  BY <1>1, Zenon DEF RecoveryInv
<1>2. OnChain /\ FollowInv /\ ReadInv
  BY Zenon DEF RecoveryInv
<1>3. OnChain'
  BY <1>1, <1>2, Zenon DEF OnChain
<1>4. FollowInv'
  BY <1>1, <1>2, Zenon DEF FollowInv, local, batch, To, ConfirmedHead
<1>5. t <= Number(head) /\ fetched = LogsBetween(head, next, t)
  BY <1>1, <1>2, Zenon DEF ReadInv, t
<1>6. events' \subseteq LogsBetween(head, StartBlock, Number(head))
  <2>1. fetched \subseteq LogsBetween(head, StartBlock, Number(head))
    BY <1>1, <1>5, LogsWithin, OptionsAssumption
  <2> QED BY <1>1, <1>2, <2>1, Zenon DEF ReadInv
<1>7. ASSUME NEW j \in Ids, NEW n \in stored'[j]
      PROVE  StartBlock <= n /\ n <= Number(head) /\ LogsOf(At(head, n)) \subseteq events'
  <2>1. CASE n \in stored[j]
    BY <1>1, <1>2, <2>1, Zenon DEF ReadInv
  <2>2. CASE n \in next..t
    <3>1. StartBlock <= n /\ n <= Number(head)
      BY <1>1, <1>5, <2>2, OptionsAssumption
    <3>2. LogsOf(At(head, n)) \subseteq fetched
      BY <1>1, <1>5, <2>2, <3>1, LogsAt
    <3> QED BY <1>1, <3>1, <3>2, Zenon
  <2>3. stored \in [Ids -> SUBSET Nat]
    BY <1>1, Zenon DEF JobInv
  <2> QED BY <1>1, <2>1, <2>2, <2>3, Zenon
<1>8. ReadInv'
  BY <1>1, <1>6, <1>7, Zenon DEF ReadInv
<1> QED BY <1>3, <1>4, <1>8, Zenon

\* Every step of the composition.
LEMMA NextRecovery == ASSUME RecoveryInv, [NextIndex]_indexVars PROVE RecoveryInv'
<1>1. CASE ScanStep
  BY <1>1, ScanRecovery, Zenon DEF ScanStep
<1>2. CASE FailStep
  <2>1. Return /\ UNCHANGED <<head, store, jobVars, fetched, reorged>>
    BY <1>2, Zenon DEF FailStep, Fail
  <2>2. FollowInv'
    BY <2>1, ReturnFollow, Zenon DEF RecoveryInv
  <2> QED BY <2>1, <2>2, JobsStable, ChainStable, Zenon DEF RecoveryInv
<1>3. CASE GrowStep
  BY <1>3, GrowRecovery, Zenon DEF GrowStep, Grow
<1>4. CASE SwitchStep
  <2>1. reorged' = TRUE /\ head' \in Blocks /\ UNCHANGED jobVars
    BY <1>4, Zenon DEF SwitchStep, Switch, Reorg
  <2> QED BY <2>1, JobsStable, Zenon DEF RecoveryInv
<1>5. CASE JobStep \/ FetchRange
  BY <1>5, JobRecovery, Zenon
<1>6. CASE SaveBackfillBatch
  BY <1>6, SaveRecovery, Zenon
<1>7. CASE UNCHANGED indexVars
  <2>1. UNCHANGED <<head, store, local, jobVars, fetched, reorged>>
    BY <1>7, Zenon DEF indexVars, vars
  <2>2. FollowInv => FollowInv'
    BY <2>1, Zenon DEF FollowInv, store, local, batch, To, ConfirmedHead
  <2> QED BY <2>1, <2>2, JobsStable, ChainStable, Zenon DEF RecoveryInv
<1> QED BY <1>1, <1>2, <1>3, <1>4, <1>5, <1>6, <1>7, Zenon DEF NextIndex

\* The inductive invariant of the composition holds in every reachable state.
THEOREM RecoveryInvariance == SpecIndex => []RecoveryInv
<1>1. InitIndex => RecoveryInv
  BY InitRecovery, Zenon
<1>2. RecoveryInv /\ [NextIndex]_indexVars => RecoveryInv'
  BY NextRecovery, Zenon
<1> QED BY <1>1, <1>2, PTL DEF SpecIndex

\* On a chain that keeps its fork, the logs of every block a backfill has counted
\* are stored, and nothing but logs of the chain is.
THEOREM BackfillRecovers == SpecIndex => []Recovered
<1>1. RecoveryInv => Recovered
  BY Zenon DEF RecoveryInv, ReadInv, Recovered
<1> QED BY <1>1, RecoveryInvariance, PTL

\* On such a chain neither the scanner nor a backfill is ever refused because of
\* what the other one has stored: insertEvent and SaveBackfillBatch find no conflict.
THEOREM BackfillInHarmony == SpecIndex => []NoConflict
<1>1. ASSUME RecoveryInv, ~reorged PROVE NoConflict
  <2>1. /\ head \in Blocks /\ Number(head) \in Nat /\ JobInv /\ OnChain /\ FollowInv
        /\ ReadInv /\ StartBlock \in Nat
    BY <1>1, NumberNat, OptionsAssumption, Zenon DEF RecoveryInv
  <2> DEFINE All == LogsBetween(head, StartBlock, Number(head))
  <2>2. events \subseteq All
    BY <2>1, Zenon DEF ReadInv
  <2>3. ASSUME pc = "commit" PROVE ~Conflict
    <3>1. from \in Nat /\ StartBlock <= from /\ To \in Nat /\ logs = LogsBetween(head, from, To)
      BY <2>1, <2>3, ToFollow, Zenon DEF FollowInv, Fetching
    <3>2. logs \subseteq All
      BY <2>1, <3>1, LogsWithin
    <3> HIDE DEF All
    <3>3. \A d, e \in All : d.id = e.id => d.block = e.block
      BY <2>1, LogsOnce, Zenon DEF All
    <3> QED BY <2>2, <3>2, <3>3, Zenon DEF Conflict
  <2>4. ASSUME wpc = "save", NEW e \in fetched PROVE ~InConflict(e)
    <3>1. /\ next \in Nat /\ StartBlock <= next /\ Jobs!To \in Nat
          /\ fetched = LogsBetween(head, next, Jobs!To)
      BY <2>1, <2>4, BatchEnd, Zenon DEF ReadInv, JobInv
    <3>2. e \in All
      BY <2>1, <2>4, <3>1, LogsWithin
    <3>3. e.block = At(head, Number(e.block))
      BY <2>1, <3>2, LogsBetweenType, Zenon
    <3>4. \A r \in canonical : r.number = Number(e.block) => r.hash = e.block
      BY <2>1, <3>3, Zenon DEF OnChain
    <3> HIDE DEF All
    <3>5. \A d \in All : d.id = e.id => d.block = e.block
      BY <2>1, <3>2, LogsOnce, Zenon DEF All
    <3> QED BY <2>2, <3>4, <3>5, Zenon DEF InConflict
  <2> QED BY <2>3, <2>4, Zenon DEF NoConflict
<1>2. RecoveryInv => NoConflict
  BY <1>1, Zenon DEF NoConflict
<1> QED BY <1>2, RecoveryInvariance, PTL

----------------------------------------------------------------------------
(* What is lost, and when. *)

\* Only a torn batch can lose a log: while none has been committed since the last
\* reset, NoLogMissed holds, so the reorganisation between the end header and the
\* logs of a batch is the one cause of what TLC finds against it
\* (fetchVerifiedBatch).
THEOREM MissedOnlyIfTorn == Spec => [](~tainted => NoLogMissed)
<1>1. ASSUME IInv, ~tainted, checkpoint # NoHash, NEW r \in canonical
      PROVE  LogsOf(r.hash) \subseteq events
  <2>1. /\ r.hash \in Blocks /\ checkpoint \in Blocks /\ IsAncestor(r.hash, checkpoint)
        /\ r.number = Number(r.hash) /\ StartBlock <= r.number
    BY <1>1, Zenon DEF IInv, TypeOK, Hashes, Rows, AncestryInv, RangeInv
  <2>2. /\ Number(checkpoint) \in Nat /\ Number(r.hash) \in Nat
        /\ Number(r.hash) <= Number(checkpoint) /\ At(checkpoint, Number(r.hash)) = r.hash
    BY <2>1, NumberNat, Zenon DEF IsAncestor
  <2>3. Number(r.hash) \in StartBlock..Number(checkpoint)
    BY <2>1, <2>2, OptionsAssumption
  <2>4. LogsOf(r.hash) \subseteq LogsBetween(checkpoint, StartBlock, Number(checkpoint))
    BY <2>2, <2>3, Zenon DEF LogsBetween
  <2> QED BY <1>1, <2>4, Zenon DEF IInv, CheckpointDescribesEvents
<1>2. IInv => (~tainted => NoLogMissed)
  BY <1>1, Zenon DEF NoLogMissed
<1> QED BY <1>2, Invariance, PTL

\* The events table has one row for an identity, as its primary key demands.
OneRowPerEvent == \A d, e \in events : d.id = e.id => d = e

\* The logs of a batch have it too: they are one answer of the endpoint.
OneLogPerEvent == \A d, e \in logs : d.id = e.id => d = e

\* The events and the logs of a batch stay unique together.
LEMMA UniqueStep ==
    ASSUME IInv, OneRowPerEvent, OneLogPerEvent, [Next]_vars
    PROVE  OneRowPerEvent' /\ OneLogPerEvent'
<1>1. ASSUME events' \subseteq events, logs' \subseteq logs
      PROVE  OneRowPerEvent' /\ OneLogPerEvent'
  BY <1>1, Zenon DEF OneRowPerEvent, OneLogPerEvent
<1>2. ASSUME Return PROVE logs' \subseteq logs
  BY <1>2, Zenon DEF Return, ClearBatch
<1>3. ASSUME NEW n, NEW c, Resume(n, c) PROVE logs' \subseteq logs
  BY <1>2, <1>3, Zenon DEF Resume, StartBatch
<1>4. CASE FilterLogs
  <2>1. /\ from \in Nat /\ To \in Nat /\ head \in Blocks /\ Number(head) \in Nat
        /\ logs' = LogsBetween(head, from, To) /\ events' = events
    BY <1>4, ToType, NumberNat DEF FilterLogs, IInv, TypeOK, store, Fetching
  <2>2. ASSUME NEW d \in logs', NEW e \in logs', d.id = e.id PROVE d = e
    <3>1. /\ d \in LogsBetween(head, from, Number(head))
          /\ e \in LogsBetween(head, from, Number(head))
      BY <2>1, <2>2, LogsWithin
    <3>2. d.block = e.block
      BY <2>1, <2>2, <3>1, LogsOnce, Zenon
    <3>3. d \in Events /\ e \in Events
      BY <2>1, <2>2, LogsBetweenType, Zenon
    <3> QED BY <2>2, <3>2, <3>3 DEF Events
  <2> QED BY <2>1, <2>2, Zenon DEF OneRowPerEvent, OneLogPerEvent
<1>5. CASE Commit /\ Verified /\ ~Conflict
  <2>1. events' = events \cup logs /\ logs' = {}
    BY <1>5, Zenon DEF Commit, SaveBatch, Return, ClearBatch, StartBatch
  <2>2. events \subseteq Events /\ logs \subseteq Events
    BY Zenon DEF IInv, TypeOK
  <2>3. ASSUME NEW d \in events, NEW e \in logs, d.id = e.id PROVE d = e
    <3>1. d \in Events /\ e \in Events /\ d.block = e.block
      BY <1>5, <2>2, <2>3, Zenon DEF Conflict
    <3> QED BY <2>3, <3>1 DEF Events
  <2> QED BY <2>1, <2>3, Zenon DEF OneRowPerEvent, OneLogPerEvent
<1>6. CASE Commit /\ ~(Verified /\ ~Conflict)
  BY <1>1, <1>2, <1>6, Zenon DEF Commit, store
<1>7. CASE Rewind \/ ResetFrom
  BY <1>1, <1>3, <1>7, Zenon DEF Rewind, ResetFrom
<1>8. CASE LoadCheckpoint \/ VerifyCheckpointHeader \/ VerifyCheckpointHash
  BY <1>1, <1>2, <1>3, <1>8, Zenon
  DEF LoadCheckpoint, VerifyCheckpointHeader, VerifyCheckpointHash, store, batch
<1>9. CASE CompareAncestor \/ ReadEndHeader \/ ReadEndHash \/ ReadHeader
  BY <1>1, <1>2, <1>9, Zenon
  DEF CompareAncestor, ReadEndHeader, ReadEndHash, ReadHeader, store, batch
<1>10. CASE ReadLatest \/ Fail \/ Switch \/ Grow \/ UNCHANGED vars
  BY <1>1, <1>2, <1>10, Zenon
  DEF ReadLatest, Fail, Switch, Reorg, Grow, Extend, vars, store, local, batch
<1> QED BY <1>4, <1>5, <1>6, <1>7, <1>8, <1>9, <1>10, Zenon DEF Next, Scan

\* No identity is stored twice, even when a batch was torn: the logs of a batch
\* come from one answer, and insertEvent refuses an identity with other contents.
THEOREM EventsOnce == Spec => []OneRowPerEvent
<1>1. Init => OneRowPerEvent /\ OneLogPerEvent
  BY Zenon DEF Init, OneRowPerEvent, OneLogPerEvent
<1>2. IInv /\ (OneRowPerEvent /\ OneLogPerEvent) /\ [Next]_vars
        => (OneRowPerEvent /\ OneLogPerEvent)'
  BY UniqueStep, Zenon
<1> QED BY <1>1, <1>2, Invariance, PTL DEF Spec

----------------------------------------------------------------------------
(* The scanner and the backfill together. *)

\* On a chain that keeps its fork neither of the two takes back what was stored:
\* the checkpoint moves only to descendants, and no event is deleted, although the
\* backfill stores events above and below the checkpoint (resumeBlock).
ForwardOnly ==
    [][~reorged => /\ events \subseteq events'
                   /\ checkpoint # NoHash =>
                        checkpoint' # NoHash /\ IsAncestor(checkpoint, checkpoint')]_indexVars

\* The commit of a batch.
LEMMA CommitForward ==
    ASSUME RecoveryInv, ~reorged, Commit, checkpoint # NoHash
    PROVE  checkpoint' # NoHash /\ IsAncestor(checkpoint, checkpoint')
<1>1. /\ head \in Blocks /\ OnChain /\ FollowInv /\ pc = "commit"
      /\ checkpoint \in Blocks /\ IsAncestor(checkpoint, head)
  BY Zenon DEF RecoveryInv, OnChain, Commit
<1>2. /\ To \in Nat /\ To <= Number(head) /\ Number(head) \in Nat
      /\ endHash = At(head, To)
  BY <1>1, ToFollow, Zenon DEF FollowInv, Fetching
<1>3. endHash \in Blocks /\ Number(endHash) = To
  BY <1>1, <1>2, AtBlock
<1>4. /\ Number(checkpoint) \in Nat /\ Number(checkpoint) <= Number(head)
      /\ checkpoint = At(head, Number(checkpoint))
  BY <1>1, NumberNat, Zenon DEF IsAncestor
<1>5. \/ checkpoint' = checkpoint
      \/ checkpoint' = endHash /\ To >= Number(checkpoint)
  BY Zenon DEF Commit, SaveBatch, store
<1>6. CASE checkpoint' = checkpoint
  BY <1>1, <1>4, <1>6, AtSelf DEF IsAncestor
<1>7. CASE checkpoint' = endHash /\ To >= Number(checkpoint)
  <2>1. At(endHash, Number(checkpoint)) = At(head, Number(checkpoint))
    BY <1>1, <1>2, <1>4, <1>7, AtAt
  <2>2. Number(checkpoint) <= Number(endHash)
    BY <1>2, <1>3, <1>4, <1>7
  <2> QED BY <1>3, <1>4, <1>7, <2>1, <2>2, NoHashNotBlock, Zenon DEF IsAncestor
<1> QED BY <1>5, <1>6, <1>7, Zenon

\* A chain that keeps its fork is followed without a single rewind, for every
\* start, every interleaving with backfills, and every failure of a cycle.
THEOREM NeverRewinds == SpecIndex => ForwardOnly
<1> DEFINE Forward ==
             ~reorged => /\ events \subseteq events'
                         /\ checkpoint # NoHash =>
                              checkpoint' # NoHash /\ IsAncestor(checkpoint, checkpoint')
<1>1. ASSUME RecoveryInv, [NextIndex]_indexVars PROVE [Forward]_indexVars
  <2> SUFFICES ASSUME NextIndex, ~reorged
               PROVE  /\ events \subseteq events'
                      /\ checkpoint # NoHash =>
                           checkpoint' # NoHash /\ IsAncestor(checkpoint, checkpoint')
    BY <1>1, Zenon
  <2>1. /\ head \in Blocks /\ OnChain /\ FollowInv /\ ReadInv
        /\ checkpoint # NoHash => IsAncestor(checkpoint, checkpoint)
    <3>1. head \in Blocks /\ OnChain /\ FollowInv /\ ReadInv
      BY <1>1, Zenon DEF RecoveryInv
    <3>2. ASSUME checkpoint # NoHash PROVE IsAncestor(checkpoint, checkpoint)
      <4>1. checkpoint \in Blocks
        BY <3>1, <3>2, Zenon DEF OnChain
      <4> QED BY <4>1, AtSelf, NumberNat DEF IsAncestor
    <3> QED BY <3>1, <3>2, Zenon
  <2>2. CASE Commit
    BY <1>1, <2>1, <2>2, CommitFollow, CommitForward, Zenon DEF ReadInv
  <2>3. CASE Rewind \/ ResetFrom
    BY <2>1, <2>3, Zenon DEF Rewind, ResetFrom, FollowInv
  <2>4. CASE SaveBackfillBatch
    BY <2>1, <2>4, Zenon DEF SaveBackfillBatch, scanning
  <2>5. CASE UNCHANGED store
    BY <2>1, <2>5, Zenon DEF store
  <2>6. NextIndex => Commit \/ Rewind \/ ResetFrom \/ SaveBackfillBatch \/ UNCHANGED store
    BY Zenon DEF NextIndex, ScanStep, FailStep, GrowStep, SwitchStep, JobStep, FetchRange,
         vars, Scan, Fail, Grow, Extend, Switch, Reorg, ReadLatest, LoadCheckpoint,
         VerifyCheckpointHeader, VerifyCheckpointHash, CompareAncestor, ReadEndHeader,
         ReadEndHash, FilterLogs, ReadHeader
  <2> QED BY <2>2, <2>3, <2>4, <2>5, <2>6, Zenon
<1> QED BY <1>1, RecoveryInvariance, PTL DEF SpecIndex, ForwardOnly

\* The composition runs the protocol of Backfill: whatever the scanner and the
\* chain do, the jobs, the requests and the worker take the steps of that module.
THEOREM JobsImplemented == SpecIndex => Jobs!Spec
<1>1. InitIndex => Jobs!Init
  BY Zenon DEF InitIndex
<1>2. ASSUME [NextIndex]_indexVars PROVE [Jobs!Next]_(Jobs!vars)
  <2>1. CASE UNCHANGED jobVars
    BY <2>1, Zenon DEF jobVars, Jobs!vars, Jobs!worker
  <2>2. CASE JobStep
    BY <2>2, Zenon DEF JobStep, Jobs!Next, Jobs!Work
  <2>3. CASE FetchRange \/ SaveBackfillBatch
    BY <2>3, Zenon DEF FetchRange, SaveBackfillBatch, Jobs!Next, Jobs!Work
  <2>4. CASE ScanStep \/ FailStep \/ GrowStep \/ SwitchStep
    BY <2>1, <2>4, Zenon DEF ScanStep, FailStep, GrowStep, SwitchStep
  <2>5. CASE UNCHANGED indexVars
    BY <2>1, <2>5, Zenon DEF indexVars
  <2> QED BY <1>2, <2>2, <2>3, <2>4, <2>5, Zenon DEF NextIndex
<1> QED BY <1>1, <1>2, PTL DEF SpecIndex, Jobs!Spec

\* So the theorems of Backfill hold of it.
JobProofs == INSTANCE Backfill_proofs WITH Listeners <- {1}, pc <- wpc

\* Their assumptions are true of the instance.
LEMMA JobAssumptions ==
    /\ Ids \subseteq Nat /\ Heights \subseteq Nat
    /\ StartBlock \in Nat /\ BatchSize \in Nat \ {0} /\ MaxRange \in Nat
    /\ None \notin Ids /\ None \notin JobProofs!Jobs /\ None \notin JobProofs!Requests
<1>1. JobProofs!Jobs = Jobs!Jobs /\ JobProofs!Requests = Jobs!Requests
  BY Zenon DEF JobProofs!Jobs, Jobs!Jobs, JobProofs!Requests, Jobs!Requests,
       JobProofs!States, Jobs!States, JobProofs!Active, Jobs!Active, JobProofs!Final,
       Jobs!Final, JobProofs!Targets, Jobs!Targets
<1> QED BY <1>1, IndexAssumption, OptionsAssumption, Zenon

\* The two instances of Backfill take the same steps.
LEMMA SameJobs ==
    /\ Jobs!Init => JobProofs!Init
    /\ [Jobs!Next]_(Jobs!vars) => [JobProofs!Next]_(JobProofs!vars)
<1>1. Jobs!Init => JobProofs!Init
  BY Zenon DEF Jobs!Init, JobProofs!Init
<1>2. Jobs!vars = JobProofs!vars /\ Jobs!vars' = JobProofs!vars'
  BY Zenon DEF Jobs!vars, JobProofs!vars, Jobs!worker, JobProofs!worker
<1>3. Jobs!Work => JobProofs!Work
  BY Zenon DEF Jobs!Work, JobProofs!Work, Jobs!ClaimBackfill, JobProofs!ClaimBackfill,
       Jobs!FetchRange, JobProofs!FetchRange, Jobs!SaveBackfillBatch,
       JobProofs!SaveBackfillBatch, Jobs!SaveRefused, JobProofs!SaveRefused,
       Jobs!FailBackfill, JobProofs!FailBackfill, Jobs!Claimable, JobProofs!Claimable,
       Jobs!Before, JobProofs!Before, Jobs!In, JobProofs!In, Jobs!Exists,
       JobProofs!Exists, Jobs!To, JobProofs!To, Jobs!Return, JobProofs!Return,
       Jobs!Advance, JobProofs!Advance
<1>4. Jobs!Administer => JobProofs!Administer
  BY Zenon DEF Jobs!Administer, JobProofs!Administer, Jobs!CreateBackfill,
       JobProofs!CreateBackfill, Jobs!Transition, JobProofs!Transition, Jobs!Abandon,
       JobProofs!Abandon, Jobs!ReadState, JobProofs!ReadState, Jobs!OneActive,
       JobProofs!OneActive, Jobs!InRange, JobProofs!InRange, Jobs!Allowed,
       JobProofs!Allowed, Jobs!In, JobProofs!In, Jobs!Exists, JobProofs!Exists,
       Jobs!Active, JobProofs!Active, Jobs!Targets, JobProofs!Targets, Jobs!worker,
       JobProofs!worker
<1>5. Jobs!Leave \/ Jobs!NothingToClaim => JobProofs!Leave \/ JobProofs!NothingToClaim
  BY <1>2, Zenon DEF Jobs!Leave, JobProofs!Leave, Jobs!NothingToClaim, JobProofs!NothingToClaim,
       Jobs!Return, JobProofs!Return, Jobs!Claimable, JobProofs!Claimable, Jobs!In,
       JobProofs!In, Jobs!Exists, JobProofs!Exists
<1> QED BY <1>1, <1>2, <1>3, <1>4, <1>5, Zenon DEF Jobs!Next, JobProofs!Next

\* A completed job has recovered its range: on a chain that keeps its fork every
\* matching log of every block from the first to the last of the range is stored,
\* however often the job was paused, resumed, failed or interrupted by a restart
\* ("Recover missing blockchain events", SaveBackfillBatch).
CompletedRecovered ==
    ~reorged => \A j \in Ids :
        jobs[j] # None /\ jobs[j].state = "completed" =>
            LogsBetween(head, jobs[j].from, jobs[j].to) \subseteq events

\* A completed job has recovered its whole range: the count of its blocks is the
\* one proved of module Backfill, the logs of counted blocks are in RecoveryInv.
THEOREM CompletedJobsRecover == SpecIndex => []CompletedRecovered
<1>1. SpecIndex => []JobProofs!NothingSkipped
  <2>1. JobProofs!Spec => []JobProofs!NothingSkipped
    BY JobProofs!JobsComplete, JobAssumptions, PTL
  <2>2. Jobs!Spec => JobProofs!Spec
    BY SameJobs, PTL DEF Jobs!Spec, JobProofs!Spec
  <2> QED BY <2>1, <2>2, JobsImplemented, PTL
<1>2. ASSUME RecoveryInv, JobProofs!NothingSkipped PROVE CompletedRecovered
  <2> SUFFICES ASSUME ~reorged, NEW j \in Ids, jobs[j] # None,
                      jobs[j].state = "completed",
                      NEW e \in LogsBetween(head, jobs[j].from, jobs[j].to)
               PROVE  e \in events
    BY Zenon DEF CompletedRecovered
  <2> DEFINE a == jobs[j].from
             b == jobs[j].to
  <2>1. PICK n \in a..b : n <= Number(head) /\ e \in LogsOf(At(head, n))
    BY Zenon DEF LogsBetween
  <2>2. /\ stored[j] = a..(jobs[j].next - 1)
        /\ jobs[j].next = b + 1
    BY <1>2, Zenon DEF JobProofs!NothingSkipped, JobProofs!Exists
  <2>3. a \in Nat /\ b \in Nat
    BY <1>2, Zenon DEF RecoveryInv, JobInv, Jobs!Jobs
  <2> HIDE DEF a, b
  <2>4. n \in stored[j]
    BY <2>1, <2>2, <2>3
  <2> QED BY <1>2, <2>1, <2>4, Zenon DEF RecoveryInv, ReadInv
<1> QED BY <1>1, <1>2, RecoveryInvariance, PTL
=============================================================================
