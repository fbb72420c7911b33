----------------------------- MODULE Skip_proofs -----------------------------
(***************************************************************************)
(* Proofs about Skip for every chain, all settings, any number of requests *)
(* and of configuration changes.                                           *)
(***************************************************************************)
EXTENDS Skip, TLAPS

-----------------------------------------------------------------------------
(* The inductive invariant. *)

\* What the manager knows is never newer than the configuration, its status never
\* newer than its snapshot, and a snapshot of the current revision tells whether the
\* listener is paused.  A status that says so for the current revision is true.
RuntimeInv ==
    /\ manager.revision <= revision /\ status.revision <= revision
    /\ manager.at # "load" /\ manager.revision = revision => manager.paused = paused
    /\ manager.at # "load" /\ status.complete => status.revision <= manager.revision
    /\ manager.at = "publish" /\ manager.paused => ~scanning
    /\ status.complete /\ status.revision = revision => status.paused = paused
    /\ Stopped(revision) => ~scanning

\* A request that found the runtime stopped would still find it so unless the
\* revision has moved on.
StoppedInv ==
    \A h \in Handlers : requests[h] # None =>
        /\ requests[h].revision <= revision
        /\ requests[h].at # "stopped" /\ requests[h].revision = revision
               => Stopped(revision)

\* While the endpoint keeps its fork a confirmation has its target on the chain of
\* the endpoint, and then its old checkpoint on the chain of the target.
CalmInv ==
    \A h \in Handlers :
        LET q == requests[h] IN
        /\ q # None /\ q.at = "commit" => q.token # None
        /\ q # None /\ q.at = "checkpoint" => q.token = None
        /\ Relies(q) /\ q.calm /\ q.at = "previous" => IsAncestor(q.target, head)
        /\ Relies(q) /\ q.calm /\ q.at = "commit" /\ q.previous # NoHash
               /\ Number(q.previous) <= Number(q.target)
               => IsAncestor(q.previous, q.target)

\* Nothing is recorded below StartBlock.
RangeInv ==
    /\ \A b \in canonical : Number(b) >= StartBlock
    /\ checkpoint # NoHash => Number(checkpoint) >= StartBlock

IndexInv == RangeInv /\ GapsAreAudited /\ HistoryIsAncestry
RequestInv == StoppedInv /\ CalmInv
IInv == TypeOK /\ RuntimeInv /\ RequestInv /\ IndexInv

-----------------------------------------------------------------------------
(* Blocks and their ancestors. *)

\* The height of a block is a natural number; the empty hash is not a block.
LEMMA BlockFacts ==
    /\ NoHash \notin Blocks
    /\ << >> \in Blocks
    /\ \A b \in Blocks : Number(b) \in Nat
  BY BlocksAssumption DEF Number

\* The ancestor at a height not above the block's own is a block of that height.
LEMMA AtBlock ==
    \A b \in Blocks : \A n \in 0..Number(b) :
      At(b, n) \in Blocks /\ Number(At(b, n)) = n
  BY BlocksAssumption DEF At, Number

\* A block is its own ancestor.
LEMMA AtOwnHeight == \A b \in Blocks : At(b, Number(b)) = b
  BY BlocksAssumption DEF At, Number

\* The ancestors of an ancestor are ancestors.
LEMMA AtAncestor ==
    ASSUME NEW a \in Blocks, NEW b \in Blocks, IsAncestor(a, b), NEW m \in 0..Number(a)
    PROVE  At(a, m) = At(b, m)
<1>1. /\ a \in Seq(Forks) /\ b \in Seq(Forks)
      /\ Number(a) \in Nat /\ Number(b) \in Nat /\ Number(a) <= Number(b)
      /\ a = At(b, Number(a))
  BY BlocksAssumption, BlockFacts, Zenon DEF IsAncestor
<1>2. \A i \in 1..Number(a) : a[i] = b[i]
  BY <1>1 DEF At, Number
<1> QED BY <1>1, <1>2 DEF At, Number

\* An ancestor at a given height.
LEMMA AtIsAncestor ==
    ASSUME NEW b \in Blocks, NEW n \in 0..Number(b)
    PROVE  IsAncestor(At(b, n), b)
<1>1. Number(At(b, n)) = n
  BY AtBlock, Zenon
<1>2. n <= Number(b)
  BY BlockFacts
<1> QED BY <1>1, <1>2, Zenon DEF IsAncestor

\* Ancestry is transitive,
LEMMA Transitive ==
    ASSUME NEW a \in Blocks, NEW b \in Blocks, NEW c \in Blocks,
           IsAncestor(a, b), IsAncestor(b, c)
    PROVE  IsAncestor(a, c)
<1>1. /\ Number(a) \in Nat /\ Number(b) \in Nat /\ Number(c) \in Nat
      /\ Number(a) <= Number(b) /\ Number(b) <= Number(c) /\ At(b, Number(a)) = a
  BY BlockFacts, Zenon DEF IsAncestor
<1>2. At(b, Number(a)) = At(c, Number(a))
  BY <1>1, AtAncestor
<1>3. Number(a) <= Number(c)
  BY <1>1
<1> QED BY <1>1, <1>2, <1>3, Zenon DEF IsAncestor

\* and orders the ancestors of a block by their height.
LEMMA Ordered ==
    ASSUME NEW a \in Blocks, NEW b \in Blocks, NEW c \in Blocks,
           IsAncestor(a, c), IsAncestor(b, c), Number(a) <= Number(b)
    PROVE  IsAncestor(a, b)
<1>1. /\ Number(a) \in Nat /\ Number(b) \in Nat /\ At(c, Number(a)) = a
  BY BlockFacts, Zenon DEF IsAncestor
<1>2. At(b, Number(a)) = At(c, Number(a))
  BY <1>1, AtAncestor
<1> QED BY <1>1, <1>2, Zenon DEF IsAncestor

\* The parent is an ancestor.
LEMMA ParentAncestor ==
    ASSUME NEW a \in Blocks, NEW b \in Blocks, b # << >>, ParentHash(b) = a
    PROVE  IsAncestor(a, b)
<1>1. b \in Seq(Forks) /\ Number(b) \in Nat /\ Number(b) # 0
  BY BlocksAssumption DEF Number
<1>2. a = At(b, Number(b) - 1)
  BY Zenon DEF ParentHash
<1> QED BY <1>1, <1>2, AtIsAncestor
-----------------------------------------------------------------------------
(* The index: what Scan, Rewind, Reset, the backfills and a skip leave behind. *)

\* A state of the other variables does not matter to the index.
LEMMA IndexStable == ASSUME IndexInv, UNCHANGED <<index, audit>> PROVE IndexInv'
  BY Zenon DEF IndexInv, RangeInv, GapsAreAudited, HistoryIsAncestry, Skipped, index

\* An upsert adds its blocks and nothing else.
LEMMA UpsertFacts ==
    \A blocks : Upsert(blocks) \subseteq canonical \cup blocks /\ blocks \subseteq Upsert(blocks)
  BY Zenon DEF Upsert

\* A batch reaches from the block after the checkpoint to its last block.
LEMMA ScanIndex ==
    ASSUME TypeOK, IndexInv, NEW b \in Blocks, Scan(b)
    PROVE  IndexInv'
<1> DEFINE from == IF checkpoint = NoHash THEN StartBlock ELSE Number(checkpoint) + 1
           batch == {At(b, n) : n \in from..Number(b)}
<1>1. /\ indexed' = indexed \cup batch
      /\ canonical' = Retained(Upsert(batch), b)
      /\ checkpoint' = b /\ tainted' = tainted /\ audit' = audit
  BY Zenon DEF Scan
<1>2. /\ checkpoint = NoHash => Number(b) >= StartBlock
      /\ checkpoint # NoHash => checkpoint \in Blocks /\ IsAncestor(checkpoint, b)
                                  /\ checkpoint # b
  BY Zenon DEF Scan, TypeOK, Hashes
<1>3. Number(b) \in Nat /\ StartBlock \in Nat /\ ReorgDepth \in Nat
  BY BlockFacts, SettingsAssumption, Zenon
<1>4. checkpoint # NoHash =>
         Number(checkpoint) \in Nat /\ StartBlock <= Number(checkpoint)
           /\ Number(checkpoint) <= Number(b)
  BY <1>2, BlockFacts, SettingsAssumption, Zenon DEF IndexInv, RangeInv, IsAncestor
<1>5. from \in Nat /\ StartBlock <= from /\ from <= Number(b) + 1
  BY <1>2, <1>3, <1>4
<1>6. \A c \in batch : c \in Blocks /\ IsAncestor(c, b) /\ StartBlock <= Number(c)
  BY <1>3, <1>5, AtBlock, AtIsAncestor
<1>7. RangeInv'
  <2>1. \A c \in canonical' : Number(c) >= StartBlock
    BY <1>1, <1>6, <1>3, UpsertFacts, Zenon DEF IndexInv, RangeInv, Retained
  <2> QED BY <2>1, <1>1, <1>2, <1>3, <1>4 DEF RangeInv
<1>8. ASSUME ~tainted' PROVE HistoryIsAncestry'
  <2>1. \A c \in canonical : IsAncestor(c, b)
    BY <1>8, <1>1, <1>2, Transitive, Zenon DEF IndexInv, HistoryIsAncestry, TypeOK
  <2>2. \A c \in canonical' : IsAncestor(c, b) /\ Number(c) + ReorgDepth >= Number(b)
    BY <2>1, <1>1, <1>6, UpsertFacts, Zenon DEF Retained
  <2>3. Number(b) \in from..Number(b)
    <3>1. checkpoint # NoHash => Number(checkpoint) # Number(b)
      BY <1>2, AtOwnHeight, Zenon DEF IsAncestor
    <3> QED BY <3>1, <1>2, <1>3, <1>4
  <2>4. b \in batch
    BY <2>3, AtOwnHeight, Zenon
  <2>5. b \in canonical'
    BY <2>4, <1>1, <1>3, UpsertFacts DEF Retained
  <2> QED BY <2>2, <2>5, <1>1, BlockFacts, Zenon DEF HistoryIsAncestry
<1>9. ASSUME ~tainted', NEW n \in StartBlock..Number(b)
      PROVE  At(b, n) \in indexed' \/ Skipped(At(b, n))'
  <2>1. CASE n \in from..Number(b)
    BY <2>1, <1>1, Zenon
  <2>2. CASE n \notin from..Number(b)
    <3>1. checkpoint # NoHash /\ n \in StartBlock..Number(checkpoint)
          /\ n \in 0..Number(checkpoint)
      BY <2>2, <1>3, <1>4
    <3>2. At(b, n) = At(checkpoint, n)
      BY <3>1, <1>2, AtAncestor, Zenon
    <3> QED BY <3>1, <3>2, <1>9, <1>1, Zenon DEF IndexInv, GapsAreAudited, Skipped
  <2> QED BY <2>1, <2>2, Zenon
<1>10. GapsAreAudited'
  BY <1>9, <1>1, Zenon DEF GapsAreAudited
<1> QED BY <1>7, <1>8, <1>10, Zenon DEF IndexInv, HistoryIsAncestry

\* A rewind goes back to an ancestor of the checkpoint.
LEMMA RewindIndex ==
    ASSUME TypeOK, IndexInv, NEW b \in Blocks, Rewind(b)
    PROVE  IndexInv'
<1>1. /\ indexed' = {c \in indexed : Number(c) <= Number(b)}
      /\ canonical' = {c \in canonical : Number(c) <= Number(b)}
      /\ checkpoint' = b /\ tainted' = tainted /\ audit' = audit
      /\ b \in canonical /\ checkpoint \in Blocks
  BY Zenon DEF Rewind, Common, Orphaned, TypeOK, Hashes
<1>2. Number(b) \in Nat /\ StartBlock \in Nat /\ ReorgDepth \in Nat
      /\ Number(checkpoint) \in Nat
  BY <1>1, BlockFacts, SettingsAssumption, Zenon
<1>3. RangeInv'
  BY <1>1, Zenon DEF IndexInv, RangeInv
<1>4. ASSUME ~tainted PROVE HistoryIsAncestry' /\ GapsAreAudited'
  <2>1. \A c \in canonical : /\ c \in Blocks /\ IsAncestor(c, checkpoint)
                             /\ Number(c) + ReorgDepth >= Number(checkpoint)
    BY <1>4, <1>1, BlockFacts, Zenon DEF IndexInv, HistoryIsAncestry, TypeOK
  <2>2. Number(b) <= Number(checkpoint)
    BY <2>1, <1>1, Zenon DEF IsAncestor
  <2>3. \A c \in canonical' : IsAncestor(c, b)
    BY <2>1, <1>1, Ordered, Zenon
  <2>4. \A c \in canonical' : Number(c) + ReorgDepth >= Number(b)
    <3> SUFFICES ASSUME NEW c \in canonical' PROVE Number(c) + ReorgDepth >= Number(b)
      BY Zenon
    <3>1. c \in Blocks /\ Number(c) \in Nat /\ Number(c) + ReorgDepth >= Number(checkpoint)
      BY <2>1, <1>1, BlockFacts, Zenon
    <3> QED BY <3>1, <2>2, <1>2
  <2>5. HistoryIsAncestry'
    BY <2>3, <2>4, <1>1, <1>2, BlockFacts DEF HistoryIsAncestry
  <2>6. ASSUME NEW n \in StartBlock..Number(b)
        PROVE  At(b, n) \in indexed' \/ Skipped(At(b, n))'
    <3>1. n \in 0..Number(b) /\ n \in StartBlock..Number(checkpoint)
      BY <1>2, <2>2
    <3>2. At(b, n) = At(checkpoint, n) /\ Number(At(b, n)) = n
      BY <3>1, <2>1, <1>1, AtAncestor, AtBlock, Zenon
    <3>3. At(checkpoint, n) \in indexed \/ Skipped(At(checkpoint, n))
      BY <3>1, <1>4, <1>1, BlockFacts, Zenon DEF IndexInv, GapsAreAudited
    <3> QED BY <3>1, <3>2, <3>3, <1>1 DEF Skipped
  <2> QED BY <2>5, <2>6, <1>1, Zenon DEF GapsAreAudited
<1> QED BY <1>1, <1>3, <1>4, Zenon DEF IndexInv, HistoryIsAncestry, GapsAreAudited

\* A reset empties the history.
LEMMA ResetIndex == ASSUME TypeOK, IndexInv, Reset PROVE IndexInv'
<1>1. \A c \in canonical : Number(c) \in Nat /\ Number(c) >= StartBlock
  BY BlockFacts, Zenon DEF TypeOK, IndexInv, RangeInv
<1>2. canonical' = {}
  BY <1>1, SettingsAssumption DEF Reset
<1> QED BY <1>2, Zenon DEF Reset, IndexInv, RangeInv, GapsAreAudited, HistoryIsAncestry

\* A backfill only adds to what is indexed.
LEMMA BackfillIndex ==
    ASSUME IndexInv, NEW b \in Blocks, SaveBackfill(b)
    PROVE  IndexInv'
  BY Zenon DEF SaveBackfill, IndexInv, RangeInv, GapsAreAudited, HistoryIsAncestry, Skipped

\* A skip leaves out, and audits, the blocks between the checkpoint and its target.
LEMMA SkipIndex ==
    ASSUME TypeOK, CalmInv, IndexInv, NEW h \in Handlers, SkipScannerToHead(h)
    PROVE  IndexInv'
<1> DEFINE q == requests[h]
<1>b. PICK b \in Blocks : b = requests[h].target
  BY Zenon DEF SkipScannerToHead, TypeOK
<1>f. PICK f : f = FromBlock(checkpoint)
  BY Zenon
<1> DEFINE entry == [from |-> f, target |-> b]
<1>1. q \in Requests /\ q # None /\ q.at = "commit"
  BY Zenon DEF SkipScannerToHead, TypeOK
<1>2. /\ checkpoint' = b /\ canonical' = Retained(Upsert({b}), b)
      /\ indexed' = indexed /\ audit' = audit \cup {entry}
      /\ tainted' = (tainted \/ ~q.calm)
      /\ checkpoint = q.previous
      /\ Number(b) >= StartBlock /\ Number(b) >= FromBlock(checkpoint)
  BY <1>b, <1>f, Zenon DEF SkipScannerToHead, Anchored
<1>3. Number(b) \in Nat /\ StartBlock \in Nat /\ ReorgDepth \in Nat
  BY <1>1, BlockFacts, SettingsAssumption, Zenon
<1>4. RangeInv'
  BY <1>2, UpsertFacts DEF IndexInv, RangeInv, Retained
<1>5. ASSUME checkpoint # NoHash
      PROVE  checkpoint \in Blocks /\ Number(checkpoint) \in Nat
             /\ Number(checkpoint) < Number(b)
  BY <1>5, <1>2, <1>3, BlockFacts DEF TypeOK, Hashes, FromBlock
<1>6. ASSUME ~tainted', checkpoint # NoHash PROVE IsAncestor(checkpoint, b)
  <2>1. ~tainted /\ q.calm
    BY <1>6, <1>2, Zenon
  <2>2. Relies(q)
    BY <1>1, Zenon DEF Relies, CalmInv
  <2> QED BY <2>1, <2>2, <1>b, <1>f, <1>1, <1>2, <1>3, <1>5, <1>6 DEF CalmInv
<1>7. ASSUME ~tainted' PROVE HistoryIsAncestry'
  <2>1. \A c \in canonical : IsAncestor(c, b)
    BY <1>7, <1>1, <1>2, <1>5, <1>6, Transitive, Zenon DEF IndexInv, HistoryIsAncestry, TypeOK
  <2>2. IsAncestor(b, b)
    BY <1>1, <1>3, AtOwnHeight DEF IsAncestor
  <2>3. b \in canonical'
    BY <1>2, <1>3, UpsertFacts DEF Retained
  <2> QED BY <2>1, <2>2, <2>3, <1>1, <1>2, BlockFacts, UpsertFacts DEF HistoryIsAncestry, Retained
<1>8. ASSUME ~tainted', NEW n \in StartBlock..Number(b)
      PROVE  At(b, n) \in indexed' \/ Skipped(At(b, n))'
  <2>1. n \in 0..Number(b)
    BY <1>3
  <2>2. CASE n >= f
    <3>1. Number(At(b, n)) >= entry.from /\ IsAncestor(At(b, n), entry.target)
      BY <2>1, <2>2, <1>1, AtBlock, AtIsAncestor, Zenon
    <3> QED BY <3>1, <1>2, Zenon DEF Skipped
  <2>3. CASE ~(n >= f)
    <3>1. checkpoint # NoHash /\ n \in StartBlock..Number(checkpoint)
          /\ n \in 0..Number(checkpoint)
      BY <2>3, <1>b, <1>f, <1>3, <1>5 DEF FromBlock
    <3>2. At(checkpoint, n) = At(b, n)
      BY <3>1, <1>1, <1>5, <1>6, <1>8, AtAncestor, Zenon
    <3> QED BY <3>1, <3>2, <1>2, <1>8, Zenon DEF IndexInv, GapsAreAudited, Skipped
  <2> QED BY <2>2, <2>3, Zenon
<1>9. GapsAreAudited'
  BY <1>8, <1>2, Zenon DEF GapsAreAudited
<1> QED BY <1>4, <1>7, <1>9, Zenon DEF IndexInv, HistoryIsAncestry
-----------------------------------------------------------------------------
(* The requests. *)

\* What TypeOK and RequestInv say of one request.
Sound(q) ==
    /\ q \in Requests
    /\ q.at \in {"checkpoint", "previous", "commit"} => q.target \in Blocks
    /\ q.revision <= revision
    /\ q.at # "stopped" /\ q.revision = revision => Stopped(revision)
    /\ q.at = "commit" => q.token # None
    /\ q.at = "checkpoint" => q.token = None
    /\ Relies(q) /\ q.calm /\ q.at = "previous" => IsAncestor(q.target, head)
    /\ Relies(q) /\ q.calm /\ q.at = "commit" /\ q.previous # NoHash
           /\ Number(q.previous) <= Number(q.target)
           => IsAncestor(q.previous, q.target)

\* One request moves on while the manager, the configuration and the chain rest.
LEMMA MoveRequest ==
    ASSUME RequestInv, NEW h \in Handlers, NEW q,
           requests \in [Handlers -> Requests \cup {None}],
           requests' = [requests EXCEPT ![h] = q],
           UNCHANGED <<head, revision, status>>,
           q # None => Sound(q)
    PROVE  RequestInv'
<1>1. \A k \in Handlers : requests'[k] = IF k = h THEN q ELSE requests[k]
  BY Zenon
<1>2. StoppedInv'
  BY <1>1, Zenon DEF RequestInv, StoppedInv, Stopped, Sound
<1>3. CalmInv'
  BY <1>1, Zenon DEF RequestInv, CalmInv, Relies, Sound
<1> QED BY <1>2, <1>3, Zenon DEF RequestInv

\* A new block on top of the head takes no target off the chain.
LEMMA ExtendRequests ==
    ASSUME TypeOK, RequestInv, NEW b \in Blocks, Extend(b)
    PROVE  RequestInv'
<1>1. IsAncestor(head, b) /\ head \in Blocks /\ head' = b
      /\ UNCHANGED <<requests, revision, status>>
  BY ParentAncestor, Zenon DEF Extend, TypeOK, config, runtime
<1>2. StoppedInv'
  BY <1>1, Zenon DEF RequestInv, StoppedInv, Stopped
<1>3. ASSUME NEW h \in Handlers, Relies(requests[h]), requests[h].calm,
             requests[h].at = "previous"
      PROVE  IsAncestor(requests[h].target, b)
  <2>1. requests[h].target \in Blocks /\ IsAncestor(requests[h].target, head)
    BY <1>3, Zenon DEF RequestInv, CalmInv, Relies, TypeOK
  <2> QED BY <2>1, <1>1, Transitive, Zenon
<1>4. CalmInv'
  BY <1>1, <1>3, Zenon DEF RequestInv, CalmInv, Relies
<1> QED BY <1>2, <1>4, Zenon DEF RequestInv

\* After a switch to another fork no confirmation counts as calm.
LEMMA ReorgRequests ==
    ASSUME TypeOK, RequestInv, NEW b \in Blocks, Reorg(b)
    PROVE  RequestInv' /\ TypeOK'
<1>1. UNCHANGED <<revision, status>>
  BY Zenon DEF Reorg, config, runtime
<1>2. ASSUME NEW h \in Handlers
      PROVE  /\ requests'[h] = requests[h] \/ requests'[h] = [requests[h] EXCEPT !.calm = FALSE]
             /\ Relies(requests[h]) => requests'[h] = [requests[h] EXCEPT !.calm = FALSE]
             /\ ~Relies(requests[h]) => requests'[h] = requests[h]
  BY Zenon DEF Reorg
<1>3. ASSUME NEW h \in Handlers, requests[h] # None
      PROVE  /\ requests[h] \in Requests /\ requests'[h] \in Requests
             /\ requests'[h].at = requests[h].at
             /\ requests'[h].revision = requests[h].revision
             /\ requests'[h].token = requests[h].token
             /\ requests'[h].target = requests[h].target
             /\ Relies(requests[h]) => ~requests'[h].calm
  <2>1. requests[h] \in Requests
    BY <1>3, Zenon DEF TypeOK
  <2> DEFINE q == [requests[h] EXCEPT !.calm = FALSE]
  <2>2. /\ q \in Requests /\ q.at = requests[h].at /\ q.revision = requests[h].revision
        /\ q.token = requests[h].token /\ q.target = requests[h].target /\ ~q.calm
    BY <2>1, Zenon DEF Requests
  <2> QED BY <2>1, <2>2, <1>2, Zenon
<1>4. \A h \in Handlers : requests[h] = None => requests'[h] = None
  BY <1>2, Zenon DEF Relies
<1>5. TypeOK'
  <2>1. requests' \in [Handlers -> Requests \cup {None}]
    BY <1>3, <1>4, Zenon DEF Reorg
  <2>2. \A h \in Handlers :
          requests'[h] # None /\ requests'[h].at \in {"checkpoint", "previous", "commit"}
              => requests'[h].target \in Blocks
    BY <1>3, <1>4, Zenon DEF TypeOK
  <2> QED BY <2>1, <2>2 DEF TypeOK, Reorg, config, runtime, index
<1>6. StoppedInv'
  BY <1>1, <1>3, <1>4, Zenon DEF RequestInv, StoppedInv, Stopped
<1>7. ASSUME NEW h \in Handlers
      PROVE  /\ Relies(requests[h])' => ~requests'[h].calm
             /\ requests'[h] # None /\ requests'[h].at = "commit"
                  => requests'[h].token # None
             /\ requests'[h] # None /\ requests'[h].at = "checkpoint"
                  => requests'[h].token = None
  BY <1>3, <1>4, Zenon DEF Relies, RequestInv, CalmInv
<1>8. CalmInv'
  BY <1>7, Zenon DEF CalmInv
<1> QED BY <1>5, <1>6, <1>8, Zenon DEF RequestInv

\* A new revision makes the requests in progress stale.
LEMMA StaleRequests ==
    ASSUME TypeOK, RequestInv, revision' = revision + 1, UNCHANGED <<head, requests>>
    PROVE  RequestInv'
<1>1. \A h \in Handlers : requests[h] # None =>
         requests[h].revision \in Nat /\ requests[h].revision <= revision
  BY DEF TypeOK, Requests, Revisions, RequestInv, StoppedInv
<1>2. StoppedInv'
  BY <1>1 DEF StoppedInv, TypeOK, Revisions
<1>3. CalmInv'
  BY Zenon DEF RequestInv, CalmInv, Relies
<1> QED BY <1>2, <1>3, Zenon DEF RequestInv
-----------------------------------------------------------------------------
(* The steps. *)

\* The manager and the configuration rest.
LEMMA RuntimeStable ==
    ASSUME RuntimeInv, UNCHANGED <<config, runtime>>
    PROVE  RuntimeInv'
  BY Zenon DEF RuntimeInv, Stopped, config, runtime

\* The configuration changes: whatever the manager knows is older.
LEMMA RuntimeStale ==
    ASSUME TypeOK, RuntimeInv, revision' = revision + 1, UNCHANGED runtime
    PROVE  RuntimeInv'
<1>1. manager.revision \in Nat /\ status.revision \in Nat /\ revision \in Nat
  BY DEF TypeOK, Revisions
<1>2. manager' = manager /\ status' = status /\ scanning' = scanning
  BY Zenon DEF runtime
<1> QED BY <1>1, <1>2 DEF RuntimeInv, Stopped

\* While the status says that the listener has stopped, the snapshot the manager
\* works on is of the same revision and says that the listener is paused.
LEMMA StoppedSnapshot ==
    ASSUME TypeOK, RuntimeInv, Stopped(revision), manager.at # "load"
    PROVE  manager.paused /\ manager.revision = revision
<1>1. status.complete /\ status.paused /\ status.revision = revision
  BY Zenon DEF Stopped
<1>2. manager.revision \in Nat /\ revision \in Nat
  BY DEF TypeOK, Revisions
<1>3. manager.revision <= revision /\ status.revision <= manager.revision
  BY <1>1, Zenon DEF RuntimeInv
<1>4. manager.revision = revision
  BY <1>1, <1>2, <1>3
<1>5. manager.paused = paused /\ status.paused = paused
  BY <1>1, <1>4, Zenon DEF RuntimeInv
<1> QED BY <1>1, <1>4, <1>5, Zenon

\* A step of the manager.
LEMMA ManageIInv == ASSUME IInv, Manage PROVE IInv'
<1>0. /\ TypeOK /\ RuntimeInv /\ RequestInv /\ IndexInv
      /\ UNCHANGED <<head, paused, revision, requests>> /\ UNCHANGED <<index, audit>>
  BY Zenon DEF IInv, Manage, Load, Apply, Publish, config
<1>1. manager.revision \in Nat /\ status.revision \in Nat /\ revision \in Nat
  BY <1>0 DEF TypeOK, Revisions
<1>2. IndexInv'
  BY <1>0, IndexStable, Zenon
<1>3. CalmInv'
  BY <1>0, Zenon DEF RequestInv, CalmInv, Relies
<1>4. CASE Load
  <2>1. TypeOK'
    BY <1>0, <1>4, Zenon DEF Load, TypeOK, config, index
  <2>2. RuntimeInv'
    BY <1>0, <1>1, <1>4 DEF Load, RuntimeInv, Stopped, TypeOK
  <2>3. StoppedInv'
    BY <1>0, <1>4, Zenon DEF Load, RequestInv, StoppedInv, Stopped
  <2> QED BY <2>1, <2>2, <2>3, <1>2, <1>3, Zenon DEF IInv, RequestInv
<1>5. CASE Apply
  <2>1. TypeOK'
    BY <1>0, <1>5, Zenon DEF Apply, TypeOK, config, index
  <2>2. Stopped(revision) => manager.paused
    BY <1>0, <1>5, StoppedSnapshot, Zenon DEF Apply
  <2>3. /\ manager'.at = "publish" /\ manager'.revision = manager.revision
        /\ manager'.paused = manager.paused /\ status' = status
        /\ manager.paused => ~scanning'
    BY <1>0, <1>5, Zenon DEF Apply, TypeOK
  <2>4. RuntimeInv'
    BY <1>0, <1>5, <2>2, <2>3, Zenon DEF Apply, RuntimeInv, Stopped
  <2>5. StoppedInv'
    BY <1>0, <2>3, Zenon DEF RequestInv, StoppedInv, Stopped
  <2> QED BY <2>1, <2>4, <2>5, <1>2, <1>3, Zenon DEF IInv, RequestInv
<1>6. CASE Publish
  <2>1. TypeOK'
    BY <1>0, <1>6, SettingsAssumption DEF Publish, TypeOK, Waiting, config, index, Revisions
  <2>2. RuntimeInv'
    BY <1>0, <1>1, <1>6 DEF Publish, Waiting, RuntimeInv, Stopped, TypeOK
  <2>3. Stopped(revision) => Stopped(revision)'
    <3>1. Stopped(revision) => manager.paused /\ manager.revision = revision
      BY <1>0, <1>6, StoppedSnapshot, Zenon DEF Publish
    <3>2. /\ status'.complete /\ status'.revision = manager.revision
          /\ status'.paused = manager.paused /\ revision' = revision
      BY <1>0, <1>6, Zenon DEF Publish
    <3> QED BY <3>1, <3>2, Zenon DEF Stopped
  <2>4. StoppedInv'
    BY <1>0, <2>3, Zenon DEF RequestInv, StoppedInv
  <2> QED BY <2>1, <2>2, <2>4, <1>2, <1>3, Zenon DEF IInv, RequestInv
<1> QED BY <1>4, <1>5, <1>6, Zenon DEF Manage

\* The part of TypeOK that the scanner and the backfills can disturb.
IndexType ==
    /\ checkpoint \in Hashes /\ canonical \subseteq Blocks /\ indexed \subseteq Blocks
    /\ backfilling \in BOOLEAN /\ tainted \in BOOLEAN

\* A step of the scanner or of a backfill.
LEMMA StoreIInv == ASSUME IInv, Index \/ Recover PROVE IInv'
<1>0. TypeOK /\ RuntimeInv /\ RequestInv /\ IndexInv
  BY Zenon DEF IInv
<1>1. UNCHANGED <<head, audit, tokens, requests>> /\ UNCHANGED <<config, runtime>>
  BY Zenon DEF Index, Recover, Reset, Scan, Rewind, StartBackfill, EndBackfill, SaveBackfill
<1>2. RuntimeInv'
  BY <1>0, <1>1, RuntimeStable, Zenon
<1>3. RequestInv'
  BY <1>0, <1>1, Zenon DEF RequestInv, StoppedInv, CalmInv, Stopped, Relies, config, runtime
<1>4. IndexType' /\ IndexInv'
  <2>1. CASE Reset
    BY <2>1, <1>0, ResetIndex, Zenon DEF Reset, TypeOK, IndexType, Hashes
  <2>2. ASSUME NEW b \in Blocks, Scan(b)
        PROVE  IndexType' /\ IndexInv'
    <3>1. \A n \in Nat : n <= Number(b) => At(b, n) \in Blocks
      BY AtBlock, BlockFacts
    <3>2. checkpoint # NoHash => Number(checkpoint) \in Nat
      BY <1>0, BlockFacts, Zenon DEF TypeOK, Hashes
    <3>3. {At(b, n) : n \in (IF checkpoint = NoHash THEN StartBlock
                             ELSE Number(checkpoint) + 1)..Number(b)} \subseteq Blocks
      BY <3>1, <3>2, BlockFacts, SettingsAssumption
    <3> QED BY <2>2, <3>3, <1>0, ScanIndex, Zenon
            DEF Scan, TypeOK, IndexType, Hashes, Retained, Upsert
  <2>3. ASSUME NEW b \in Blocks, Rewind(b)
        PROVE  IndexType' /\ IndexInv'
    BY <2>3, <1>0, RewindIndex, Zenon DEF Rewind, TypeOK, IndexType, Hashes
  <2>4. CASE StartBackfill \/ EndBackfill
    BY <2>4, <1>0, <1>1, IndexStable, Zenon DEF StartBackfill, EndBackfill, TypeOK, IndexType, index
  <2>5. ASSUME NEW b \in Blocks, SaveBackfill(b)
        PROVE  IndexType' /\ IndexInv'
    BY <2>5, <1>0, BackfillIndex, Zenon DEF SaveBackfill, TypeOK, IndexType
  <2> QED BY <2>1, <2>2, <2>3, <2>4, <2>5, Zenon DEF Index, Recover
<1>5. TypeOK'
  BY <1>0, <1>1, <1>4, Zenon DEF TypeOK, IndexType, config, runtime
<1> QED BY <1>2, <1>3, <1>4, <1>5, Zenon DEF IInv
\* A step of a request other than its transaction.
LEMMA HandleIInv ==
    ASSUME IInv, NEW h \in Handlers, Handle(h), ~SkipScannerToHead(h)
    PROVE  IInv'
<1>0. TypeOK /\ RuntimeInv /\ RequestInv /\ IndexInv
  BY Zenon DEF IInv
<1>1. /\ UNCHANGED <<head, audit, backfilling>> /\ UNCHANGED <<config, runtime>>
      /\ UNCHANGED index
  BY Zenon DEF Handle, Begin, CheckStopped, ReadLatest, ReadCheckpoint, VerifyPrevious,
         ReadTarget, Refuse
<1>2. RuntimeInv' /\ IndexInv'
  BY <1>0, <1>1, RuntimeStable, IndexStable, Zenon
<1>3. requests \in [Handlers -> Requests \cup {None}] /\ revision \in Revisions
      /\ (requests[h] # None => requests[h] \in Requests)
      /\ UNCHANGED <<head, revision, status>>
  BY <1>0, <1>1, Zenon DEF TypeOK, config, runtime
<1>4. SUFFICES \E q : /\ requests' = [requests EXCEPT ![h] = q]
                      /\ tokens' \subseteq Claims
                      /\ q # None => Sound(q)
  <2>1. PICK q : /\ requests' = [requests EXCEPT ![h] = q]
                 /\ tokens' \subseteq Claims
                 /\ q # None => Sound(q)
    BY <1>4, Zenon
  <2>2. RequestInv'
    BY <2>1, <1>0, <1>3, MoveRequest, Zenon
  <2>3. TypeOK'
    BY <2>1, <1>0, <1>1, <1>3 DEF TypeOK, Sound, config, runtime, index
  <2> QED BY <2>2, <2>3, <1>2, Zenon DEF IInv
<1>5. requests[h] # None => Sound(requests[h])
  BY <1>0, <1>3, Zenon DEF TypeOK, RequestInv, StoppedInv, CalmInv, Sound
<1>6. tokens \subseteq Claims /\ StartBlock \in Nat /\ Confirmations \in Nat
      /\ head \in Blocks /\ Number(head) \in Nat /\ checkpoint \in Hashes
  BY <1>0, BlockFacts, SettingsAssumption, Zenon DEF TypeOK
<1>7. ASSUME NEW t \in tokens \cup {None}, Begin(h, t)
      PROVE  \E q : /\ requests' = [requests EXCEPT ![h] = q]
                    /\ tokens' \subseteq Claims
                    /\ q # None => Sound(q)
  <2> DEFINE q == [at |-> "stopped", revision |-> revision, token |-> t, confirmed |-> 0,
                   target |-> NoHash, previous |-> NoHash, calm |-> TRUE]
  <2>1. q \in Requests
    BY <1>3, <1>6, Zenon DEF Requests, Hashes
  <2>2. revision <= revision
    BY <1>3 DEF Revisions
  <2>3. Sound(q)
    BY <2>1, <2>2, Zenon DEF Sound, Relies
  <2> QED BY <2>3, <1>7, <1>6, Zenon DEF Begin
<1>8. CASE CheckStopped(h)
  <2> DEFINE q == [requests[h] EXCEPT !.at = "latest"]
  <2>1. q \in Requests /\ q.at = "latest" /\ q.revision = requests[h].revision
    BY <1>8, <1>3, Zenon DEF CheckStopped, Requests
  <2>2. Sound(q)
    BY <2>1, <1>5, <1>8, Zenon DEF Sound, Relies, CheckStopped
  <2>3. requests' = [requests EXCEPT ![h] = q] /\ tokens' = tokens
    BY <1>8, <1>3, Zenon DEF CheckStopped
  <2> QED BY <2>2, <2>3, <1>6, Zenon
<1>9. CASE ReadLatest(h)
  <2> DEFINE q == [requests[h] EXCEPT !.at = "target",
                                      !.confirmed = Number(head) - Confirmations]
  <2>0. Number(head) - Confirmations \in Nat
    BY <1>9, <1>6 DEF ReadLatest
  <2>1. q \in Requests /\ q.at = "target" /\ q.revision = requests[h].revision
    BY <2>0, <1>9, <1>3, Zenon DEF ReadLatest, Requests
  <2>2. Sound(q)
    BY <2>1, <1>5, <1>9, Zenon DEF Sound, Relies, ReadLatest
  <2>3. requests' = [requests EXCEPT ![h] = q] /\ tokens' = tokens
    BY <1>9, <1>3, Zenon DEF ReadLatest
  <2> QED BY <2>2, <2>3, <1>6, Zenon
<1>10. ASSUME NEW b \in Hashes, ReadTarget(h, b)
       PROVE  \E q : /\ requests' = [requests EXCEPT ![h] = q]
                     /\ tokens' \subseteq Claims
                     /\ q # None => Sound(q)
  <2>1. requests[h] \in Requests /\ requests[h] # None /\ requests[h].at = "target"
        /\ tokens' = tokens
    BY <1>10, <1>3, Zenon DEF ReadTarget
  <2>2. CASE requests[h].token = None
    <3> DEFINE q == [requests[h] EXCEPT !.at = "checkpoint", !.target = b]
    <3>1. b = At(head, requests[h].confirmed) /\ requests[h].confirmed \in 0..Number(head)
      BY <1>10, <1>6, <2>1, <2>2 DEF ReadTarget, Fetches, Requests
    <3>2. b \in Blocks
      BY <3>1, <1>6, AtBlock, Zenon
    <3>3. /\ q \in Requests /\ q.at = "checkpoint" /\ q.target = b
          /\ q.revision = requests[h].revision /\ q.token = None
      BY <2>1, <2>2, Zenon DEF Requests
    <3>4. Sound(q)
      BY <3>2, <3>3, <2>1, <1>5, Zenon DEF Sound, Relies
    <3> QED BY <3>4, <1>6, <1>10, <2>1, <2>2, Zenon DEF ReadTarget
  <2>3. CASE requests[h].token # None
    <3> DEFINE t == requests[h].token
               q == [requests[h] EXCEPT !.at = "previous", !.target = b,
                                        !.previous = t.previous]
    <3>1. t \in Claims /\ t.target \in Blocks /\ t.previous \in Hashes
      BY <2>1, <2>3, Zenon DEF Requests, Claims
    <3>2. /\ b = t.target /\ b = At(head, Number(t.target))
          /\ Number(t.target) \in 0..Number(head)
      BY <1>10, <1>6, <2>3, <3>1, BlockFacts DEF ReadTarget, Fetches
    <3>3. b \in Blocks /\ IsAncestor(b, head)
      BY <3>1, <3>2, <1>6, AtIsAncestor, Zenon
    <3>4. /\ q \in Requests /\ q.at = "previous" /\ q.target = b
          /\ q.revision = requests[h].revision
      BY <2>1, <3>1, Zenon DEF Requests
    <3>5. Sound(q)
      BY <3>3, <3>4, <2>1, <1>5, Zenon DEF Sound, Relies
    <3> QED BY <3>5, <1>6, <1>10, <2>1, <2>3, Zenon DEF ReadTarget
  <2> QED BY <2>2, <2>3, Zenon
<1>11. CASE ReadCheckpoint(h)
  <2> DEFINE q == [requests[h] EXCEPT !.at = "previous", !.previous = checkpoint]
  <2>1. requests[h] \in Requests /\ requests[h] # None /\ requests[h].at = "checkpoint"
        /\ requests' = [requests EXCEPT ![h] = q] /\ tokens' = tokens
    BY <1>11, <1>3, Zenon DEF ReadCheckpoint
  <2>2. /\ q \in Requests /\ q.at = "previous" /\ q.target = requests[h].target
        /\ q.revision = requests[h].revision /\ q.token = requests[h].token
    BY <2>1, <1>6, Zenon DEF Requests
  <2> QED BY <2>1, <2>2, <1>5, <1>6, Zenon DEF Sound, Relies
<1>12. CASE VerifyPrevious(h)
  <2>1. requests[h] \in Requests /\ requests[h].at = "previous" /\ requests[h].target \in Blocks
    BY <1>12, <1>3, <1>5, Zenon DEF VerifyPrevious, Sound
  <2>2. CASE requests[h].token = None
    <3>1. [revision |-> requests[h].revision, previous |-> requests[h].previous,
           target |-> requests[h].target] \in Claims
      BY <2>1, Zenon DEF Requests, Claims
    <3>2. tokens' \subseteq Claims /\ requests' = [requests EXCEPT ![h] = None]
      BY <3>1, <2>2, <1>12, <1>6, Zenon DEF VerifyPrevious
    <3> QED BY <3>2, Zenon
  <2>3. CASE requests[h].token # None
    <3> DEFINE q == [requests[h] EXCEPT !.at = "commit"]
               p == requests[h].previous
    <3>1. requests' = [requests EXCEPT ![h] = q] /\ tokens' = tokens
      BY <2>3, <1>12, Zenon DEF VerifyPrevious
    <3>2. /\ q \in Requests /\ q.at = "commit" /\ q.target = requests[h].target
          /\ q.revision = requests[h].revision /\ q.token = requests[h].token
          /\ q.previous = p /\ q.calm = requests[h].calm
      BY <2>1, Zenon DEF Requests
    <3>3. ASSUME p # NoHash, requests[h].calm, Number(p) <= Number(requests[h].target)
          PROVE  IsAncestor(p, requests[h].target)
      <4>1. p \in Blocks
        BY <3>3, <2>1, Zenon DEF Requests, Hashes
      <4>2. IsAncestor(p, head)
        BY <3>3, <1>12, Zenon DEF VerifyPrevious, Canonical, Fetches, IsAncestor
      <4>3. IsAncestor(requests[h].target, head)
        BY <3>3, <2>1, <2>3, <1>5, <1>12, Zenon DEF Sound, Relies, VerifyPrevious
      <4> QED BY <4>1, <4>2, <4>3, <3>3, <2>1, <1>6, Ordered, Zenon
    <3>4. Sound(q)
      BY <3>2, <3>3, <2>1, <2>3, <1>5, <1>12, Zenon DEF Sound, VerifyPrevious
    <3> QED BY <3>1, <3>4, <1>6, Zenon
  <2> QED BY <2>2, <2>3, Zenon
<1>13. CASE Refuse(h)
  BY <1>13, <1>6, Zenon DEF Refuse
<1> QED BY <1>7, <1>8, <1>9, <1>10, <1>11, <1>12, <1>13, Zenon DEF Handle
\* The transaction of a skip.
LEMMA SkipIInv ==
    ASSUME IInv, NEW h \in Handlers, SkipScannerToHead(h)
    PROVE  IInv'
<1>0. TypeOK /\ RuntimeInv /\ RequestInv /\ CalmInv /\ IndexInv
  BY Zenon DEF IInv, RequestInv
<1>1. /\ revision' = revision + 1 /\ paused' = FALSE /\ head' = head
      /\ requests' = [requests EXCEPT ![h] = None] /\ UNCHANGED runtime
      /\ requests \in [Handlers -> Requests \cup {None}]
  BY <1>0, Zenon DEF SkipScannerToHead, TypeOK
<1>2. RuntimeInv'
  BY <1>0, <1>1, RuntimeStale, Zenon
<1>3. IndexInv'
  BY <1>0, SkipIndex, Zenon
<1>4. RequestInv'
  <2>1. \A k \in Handlers : requests'[k] = IF k = h THEN None ELSE requests[k]
    BY <1>1, Zenon
  <2>2. \A k \in Handlers : requests[k] # None =>
           requests[k].revision \in Nat /\ requests[k].revision <= revision
    <3>1. \A k \in Handlers : requests[k] # None => requests[k].revision \in Nat
      BY <1>1 DEF Requests, Revisions
    <3> QED BY <3>1, <1>0, Zenon DEF RequestInv, StoppedInv
  <2>3. StoppedInv'
    <3>1. revision \in Nat
      BY <1>0 DEF TypeOK, Revisions
    <3> QED BY <2>1, <2>2, <3>1, <1>1 DEF StoppedInv
  <2>4. CalmInv'
    BY <2>1, <1>0, <1>1, Zenon DEF CalmInv, Relies
  <2> QED BY <2>3, <2>4, Zenon DEF RequestInv
<1>5. TypeOK'
  <2> DEFINE q == requests[h]
             entry == [from |-> FromBlock(checkpoint), target |-> q.target]
  <2>1. q.target \in Blocks /\ Number(q.target) >= FromBlock(checkpoint)
        /\ revision < MaxRevision
    <3>1. /\ requests[h] # None /\ requests[h].at = "commit" /\ revision < MaxRevision
          /\ Number(q.target) >= FromBlock(checkpoint)
      BY Zenon DEF SkipScannerToHead
    <3> QED BY <3>1, <1>0, Zenon DEF TypeOK
  <2>2. FromBlock(checkpoint) \in Nat
    BY <1>0, BlockFacts, SettingsAssumption DEF FromBlock, TypeOK, Hashes
  <2>3. entry \in Audits /\ entry.from <= Number(entry.target)
    BY <2>1, <2>2, BlockFacts, Zenon DEF Audits
  <2>4. audit' \subseteq Audits /\ \A a \in audit' : a.from <= Number(a.target)
    BY <2>3, <1>0, Zenon DEF SkipScannerToHead, TypeOK
  <2>5. /\ checkpoint' \in Hashes /\ canonical' \subseteq Blocks /\ indexed' \subseteq Blocks
        /\ revision' \in Revisions /\ tainted' \in BOOLEAN
    BY <2>1, <1>0, <1>1, SettingsAssumption
       DEF SkipScannerToHead, TypeOK, Hashes, Anchored, Retained, Upsert,
           Revisions
  <2>6. /\ requests' \in [Handlers -> Requests \cup {None}]
        /\ \A k \in Handlers :
             requests'[k] # None /\ requests'[k].at \in {"checkpoint", "previous", "commit"}
                 => requests'[k].target \in Blocks
    BY <1>0, <1>1, Zenon DEF TypeOK
  <2> QED BY <2>4, <2>5, <2>6, <1>0, <1>1, Zenon DEF SkipScannerToHead, TypeOK, runtime
<1> QED BY <1>2, <1>3, <1>4, <1>5, Zenon DEF IInv

\* A status before the first reconcile, and the state of a process that starts.
Unpublished == [complete |-> FALSE, revision |-> 0, paused |-> FALSE]

\* Both have their types.
LEMMA FreshType ==
    /\ Waiting \in [at : {"load", "apply", "publish"}, revision : Revisions,
                    paused : BOOLEAN]
    /\ Unpublished \in [complete : BOOLEAN, revision : Revisions, paused : BOOLEAN]
<1>1. 0 \in Revisions
  BY SettingsAssumption DEF Revisions
<1> QED BY <1>1, Zenon DEF Waiting, Unpublished

\* The steps of the environment: the chain, other requests, a restart, an expiry.
LEMMA EnvironmentIInv ==
    ASSUME IInv,
           Chains \/ Restart \/ (\E p \in BOOLEAN : Mutate(p)) \/ (\E t \in tokens : Expire(t))
    PROVE  IInv'
<1>0. TypeOK /\ RuntimeInv /\ RequestInv /\ IndexInv
  BY Zenon DEF IInv
<1>1. UNCHANGED index /\ audit' = audit
  BY Zenon DEF Chains, Extend, Reorg, Restart, Mutate, Expire
<1>2. IndexInv'
  BY <1>0, <1>1, IndexStable, Zenon
<1>3. ASSUME NEW b \in Blocks, Extend(b) PROVE IInv'
  <2>1. RuntimeInv' /\ RequestInv'
    BY <1>3, <1>0, RuntimeStable, ExtendRequests, Zenon DEF Extend
  <2>2. TypeOK'
    BY <1>3, <1>0 DEF Extend, TypeOK, config, runtime, index
  <2> QED BY <2>1, <2>2, <1>2, Zenon DEF IInv
<1>4. ASSUME NEW b \in Blocks, Reorg(b) PROVE IInv'
  BY <1>4, <1>0, <1>2, RuntimeStable, ReorgRequests, Zenon DEF Reorg, IInv
<1>5. CASE Restart
  <2>1. \A h \in Handlers : requests'[h] = None
    BY <1>5, Zenon DEF Restart
  <2>2. RequestInv'
    BY <2>1, Zenon DEF RequestInv, StoppedInv, CalmInv, Relies
  <2>3. RuntimeInv'
    <3>1. /\ manager'.at = "load" /\ manager'.revision = 0 /\ status'.revision = 0
          /\ ~status'.complete /\ revision' = revision
      BY <1>5, Zenon DEF Restart, Waiting, config
    <3>2. 0 <= revision
      BY <1>0 DEF TypeOK, Revisions
    <3> QED BY <3>1, <3>2, Zenon DEF RuntimeInv, Stopped
  <2>4. TypeOK'
    <3>1. UNCHANGED <<head, paused, revision, checkpoint, canonical, indexed, tainted,
                      backfilling, audit>>
      BY <1>5, Zenon DEF Restart, config, index
    <3>2. manager' = Waiting /\ status' = Unpublished /\ scanning' = FALSE
          /\ tokens' = {} /\ requests' = [h \in Handlers |-> None]
      BY <1>5, Zenon DEF Restart, Unpublished
    <3> QED BY <3>1, <3>2, <1>0, FreshType, Zenon DEF TypeOK
  <2> QED BY <2>2, <2>3, <2>4, <1>2, Zenon DEF IInv
<1>6. ASSUME NEW p \in BOOLEAN, Mutate(p) PROVE IInv'
  <2>1. RuntimeInv' /\ RequestInv'
    BY <1>6, <1>0, RuntimeStale, StaleRequests, Zenon DEF Mutate
  <2>2. TypeOK'
    BY <1>6, <1>0, SettingsAssumption DEF Mutate, TypeOK, Revisions, runtime, index
  <2> QED BY <2>1, <2>2, <1>2, Zenon DEF IInv
<1>7. ASSUME NEW t \in tokens, Expire(t) PROVE IInv'
  <2>1. RuntimeInv'
    BY <1>7, <1>0, RuntimeStable, Zenon DEF Expire
  <2>2. RequestInv'
    BY <1>7, <1>0, Zenon
    DEF Expire, RequestInv, StoppedInv, CalmInv, Relies, Stopped, config, runtime
  <2>3. TypeOK'
    BY <1>7, <1>0 DEF Expire, TypeOK, config, runtime, index
  <2> QED BY <2>1, <2>2, <2>3, <1>2, Zenon DEF IInv
<1> QED BY <1>3, <1>4, <1>5, <1>6, <1>7, Zenon DEF Chains

\* The index is empty and no request is in progress.
LEMMA InitIInv == Init => IInv
<1> SUFFICES ASSUME Init PROVE IInv
  BY Zenon
<1>1. TypeOK
  <2>1. manager = Waiting /\ status = Unpublished
        /\ requests = [h \in Handlers |-> None]
    BY Zenon DEF Init, Unpublished
  <2>2. /\ paused \in BOOLEAN /\ tainted = FALSE /\ backfilling = FALSE /\ scanning = FALSE
        /\ canonical = {} /\ indexed = {} /\ audit = {} /\ tokens = {}
    BY Zenon DEF Init
  <2>3. head \in Blocks
    BY BlocksAssumption, Zenon DEF Init
  <2>4. checkpoint \in Hashes /\ revision \in Revisions
    BY SettingsAssumption DEF Init, Hashes, Revisions
  <2> QED BY <2>1, <2>2, <2>3, <2>4, FreshType, Zenon DEF TypeOK
<1>2. RuntimeInv
  <2>1. /\ manager.at = "load" /\ manager.revision = 0 /\ status.revision = 0
        /\ ~status.complete /\ revision = 0
    BY Zenon DEF Init, Waiting
  <2> QED BY <2>1 DEF RuntimeInv, Stopped
<1>3. RequestInv
  BY Zenon DEF Init, RequestInv, StoppedInv, CalmInv, Relies
<1>4. IndexInv
  BY Zenon DEF Init, IndexInv, RangeInv, GapsAreAudited, HistoryIsAncestry
<1> QED BY <1>1, <1>2, <1>3, <1>4, Zenon DEF IInv

\* The invariant is inductive.
LEMMA NextIInv == IInv /\ [Next]_vars => IInv'
<1> SUFFICES ASSUME IInv, [Next]_vars PROVE IInv'
  BY Zenon
<1>1. CASE UNCHANGED vars
  <2>1. RuntimeInv' /\ IndexInv'
    BY <1>1, RuntimeStable, IndexStable, Zenon DEF vars, IInv
  <2>2. RequestInv'
    BY <1>1, Zenon DEF vars, config, runtime, IInv, RequestInv, StoppedInv, CalmInv, Relies, Stopped
  <2>3. TypeOK'
    BY <1>1 DEF vars, config, index, runtime, IInv, TypeOK
  <2> QED BY <2>1, <2>2, <2>3, Zenon DEF IInv
<1>2. ASSUME NEW h \in Handlers, Handle(h) PROVE IInv'
  BY <1>2, SkipIInv, HandleIInv, Zenon
<1> QED BY <1>1, <1>2, ManageIInv, StoreIInv, EnvironmentIInv, Zenon DEF Next

\* The invariant holds in every state.
LEMMA Invariance == Spec => []IInv
  BY InitIInv, NextIInv, PTL DEF Spec

-----------------------------------------------------------------------------
(* The results. *)

\* The types hold: a skipped range is never empty.
THEOREM TypeCorrect == Spec => []TypeOK
<1>1. IInv => TypeOK
  BY Zenon DEF IInv
<1> QED BY <1>1, Invariance, PTL

\* However skips, rewinds, resets, backfills and restarts follow one another, no
\* block up to the checkpoint is missing without an audit entry, unless a
\* confirmation was torn by a reorganisation.
THEOREM Audited == Spec => []GapsAreAudited
<1>1. IInv => GapsAreAudited
  BY Zenon DEF IInv, IndexInv
<1> QED BY <1>1, Invariance, PTL

\* resumeBlock finds ancestors of the checkpoint in its history after a skip, too.
THEOREM HistoryAncestry == Spec => []HistoryIsAncestry
<1>1. IInv => HistoryIsAncestry
  BY Zenon DEF IInv, IndexInv
<1> QED BY <1>1, Invariance, PTL

\* No scanner of the listener is at work when a skip moves the checkpoint.
THEOREM SkipStopped == Spec => SkipsWhileStopped
<1>1. ASSUME IInv, [Next]_vars
      PROVE  [checkpoint' # checkpoint /\ revision' # revision => ~scanning]_vars
  <2> SUFFICES ASSUME Next, checkpoint' # checkpoint, revision' # revision
               PROVE  ~scanning
    BY <1>1, Zenon DEF vars, config, index
  <2>1. PICK h \in Handlers : SkipScannerToHead(h)
    <3>1. ~Chains /\ ~Manage /\ ~Restart /\ (\A p \in BOOLEAN : ~Mutate(p))
          /\ (\A t \in tokens : ~Expire(t))
      BY Zenon DEF Chains, Extend, Reorg, Manage, Load, Apply, Publish, Restart, Mutate,
             Expire, index
    <3>2. ~Index /\ ~Recover
      BY Zenon DEF Index, Recover, Reset, Scan, Rewind, StartBackfill, EndBackfill,
             SaveBackfill, config, index
    <3>3. PICK h \in Handlers : Handle(h)
      BY <3>1, <3>2, Zenon DEF Next
    <3> QED BY <3>3, Zenon DEF Handle, Begin, CheckStopped, ReadLatest, ReadCheckpoint,
                VerifyPrevious, ReadTarget, Refuse, index
  <2>2. Stopped(revision)
    BY <2>1, <1>1, Zenon DEF SkipScannerToHead, IInv, RequestInv, StoppedInv
  <2> QED BY <2>2, <1>1, Zenon DEF IInv, RuntimeInv
<1> QED BY <1>1, Invariance, PTL DEF Spec, SkipsWhileStopped

-----------------------------------------------------------------------------
(* A skip and its preview. *)

\* A skip does what its administrator has previewed: the token of the confirmation
\* names the revision, the checkpoint and the target of the transaction, although
\* all three were read by another request, perhaps long before.  The checkpoint
\* moves forward, and the revision moves on and never back, so no token serves for
\* a second skip.
SkipsAsPreviewed ==
    [][/\ revision <= revision'
       /\ checkpoint' # checkpoint /\ revision' # revision =>
            /\ \E h \in Handlers :
                 /\ requests[h] # None
                 /\ requests[h].token = [revision |-> revision, previous |-> checkpoint,
                                         target |-> checkpoint']
            /\ revision' = revision + 1 /\ paused /\ ~backfilling
            /\ Number(checkpoint') >= FromBlock(checkpoint)]_vars

\* A confirmation works with the claims of its token from the moment it has
\* verified it.
Bound(q) ==
    q # None /\ q.token # None =>
        /\ q.at # "stopped" => q.token.revision = q.revision
        /\ q.at \in {"previous", "commit"} =>
             q.target = q.token.target /\ q.previous = q.token.previous

BoundInv == \A h \in Handlers : Bound(requests[h])

\* A step that changes one request and leaves a bound one.
LEMMA BoundMove ==
    ASSUME TypeOK, BoundInv, NEW h \in Handlers, NEW q, Bound(q),
           requests' = [requests EXCEPT ![h] = q]
    PROVE  BoundInv'
<1>1. \A g \in Handlers : requests'[g] = q \/ requests'[g] = requests[g]
  BY Zenon DEF TypeOK
<1> QED BY <1>1, Zenon DEF BoundInv, Bound

\* The fields of a request in progress.
LEMMA RequestType ==
    ASSUME TypeOK, NEW h \in Handlers, requests[h] # None
    PROVE  requests[h] \in Requests
  BY Zenon DEF TypeOK

\* The steps of a request.
LEMMA HandleBound ==
    ASSUME IInv, BoundInv, NEW h \in Handlers, Handle(h)
    PROVE  BoundInv'
<1> DEFINE q == requests[h]
<1>1. TypeOK /\ Bound(q)
  BY Zenon DEF IInv, BoundInv
<1>2. ASSUME NEW t \in tokens \cup {None}, Begin(h, t) PROVE BoundInv'
  <2> DEFINE r == [at |-> "stopped", revision |-> revision, token |-> t, confirmed |-> 0,
                   target |-> NoHash, previous |-> NoHash, calm |-> TRUE]
  <2>1. Bound(r)
    BY Zenon DEF Bound
  <2>2. requests' = [requests EXCEPT ![h] = r]
    BY <1>2, Zenon DEF Begin
  <2> HIDE DEF r
  <2> QED BY <1>1, <2>1, <2>2, BoundMove, Zenon
<1>3. CASE CheckStopped(h)
  <2> DEFINE r == [q EXCEPT !.at = "latest"]
  <2>1. q # None /\ q \in Requests /\ (q.token # None => q.token.revision = q.revision)
    BY <1>1, <1>3, RequestType, Zenon DEF CheckStopped
  <2>2. Bound(r)
    BY <2>1, Zenon DEF Bound, Requests
  <2>3. requests' = [requests EXCEPT ![h] = r]
    BY <1>1, <1>3, Zenon DEF CheckStopped, TypeOK
  <2> HIDE DEF r
  <2> QED BY <1>1, <2>2, <2>3, BoundMove, Zenon
<1>4. CASE ReadLatest(h)
  <2> DEFINE n == Number(head) - Confirmations
             r == [q EXCEPT !.at = "target", !.confirmed = n]
  <2>1. q # None /\ q \in Requests /\ q.at = "latest"
    BY <1>1, <1>4, RequestType, Zenon DEF ReadLatest
  <2>2. requests' = [requests EXCEPT ![h] = r]
    BY <1>1, <1>4, Zenon DEF ReadLatest, TypeOK
  <2> HIDE DEF n
  <2>3. Bound(r)
    BY <1>1, <2>1, Zenon DEF Bound, Requests
  <2> HIDE DEF r
  <2> QED BY <1>1, <2>2, <2>3, BoundMove, Zenon
<1>5. ASSUME NEW b \in Hashes, ReadTarget(h, b) PROVE BoundInv'
  <2>1. q # None /\ q \in Requests /\ q.at = "target"
    BY <1>1, <1>5, RequestType, Zenon DEF ReadTarget
  <2>2. CASE q.token = None
    <3> DEFINE r == [q EXCEPT !.at = "checkpoint", !.target = b]
    <3>1. requests' = [requests EXCEPT ![h] = r]
      BY <1>5, <2>2, Zenon DEF ReadTarget
    <3>2. Bound(r)
      BY <2>1, <2>2, Zenon DEF Bound, Requests
    <3> HIDE DEF r
    <3> QED BY <1>1, <3>1, <3>2, BoundMove, Zenon
  <2>3. CASE q.token # None
    <3> DEFINE r == [q EXCEPT !.at = "previous", !.target = b,
                              !.previous = q.token.previous]
    <3>1. requests' = [requests EXCEPT ![h] = r] /\ b = q.token.target
      BY <1>5, <2>3, Zenon DEF ReadTarget
    <3>2. Bound(r)
      BY <1>1, <2>1, <2>3, <3>1, Zenon DEF Bound, Requests
    <3> HIDE DEF r
    <3> QED BY <1>1, <3>1, <3>2, BoundMove, Zenon
  <2> QED BY <2>2, <2>3, Zenon
<1>6. CASE ReadCheckpoint(h)
  <2> DEFINE r == [q EXCEPT !.at = "previous", !.previous = checkpoint]
  <2>1. q # None /\ q \in Requests /\ q.at = "checkpoint" /\ q.token = None
    BY <1>1, <1>6, RequestType, Zenon DEF ReadCheckpoint, IInv, RequestInv, CalmInv
  <2>2. requests' = [requests EXCEPT ![h] = r]
    BY <1>1, <1>6, Zenon DEF ReadCheckpoint, TypeOK
  <2>3. Bound(r)
    BY <2>1, Zenon DEF Bound, Requests
  <2> HIDE DEF r
  <2> QED BY <1>1, <2>2, <2>3, BoundMove, Zenon
<1>7. CASE VerifyPrevious(h)
  <2> DEFINE r == [q EXCEPT !.at = "commit"]
  <2>1. q # None /\ q \in Requests /\ q.at = "previous"
    BY <1>1, <1>7, RequestType, Zenon DEF VerifyPrevious
  <2>2. requests' = [requests EXCEPT ![h] = r] \/ requests' = [requests EXCEPT ![h] = None]
    BY <1>7, Zenon DEF VerifyPrevious
  <2>3. Bound(r) /\ Bound(None)
    BY <1>1, <2>1, Zenon DEF Bound, Requests
  <2> HIDE DEF r
  <2> QED BY <1>1, <2>2, <2>3, BoundMove, Zenon
<1>8. CASE SkipScannerToHead(h) \/ Refuse(h)
  <2>1. requests' = [requests EXCEPT ![h] = None] /\ Bound(None)
    BY <1>8, Zenon DEF SkipScannerToHead, Refuse, Bound
  <2> QED BY <1>1, <2>1, BoundMove, Zenon
<1> QED BY <1>2, <1>3, <1>4, <1>5, <1>6, <1>7, <1>8, Zenon DEF Handle

\* Every step leaves the requests bound to their tokens.
LEMMA NextBound == IInv /\ BoundInv /\ [Next]_vars => BoundInv'
<1> SUFFICES ASSUME IInv, BoundInv, [Next]_vars PROVE BoundInv'
  OBVIOUS
<1>1. CASE requests' = requests
  BY <1>1, Zenon DEF BoundInv, Bound
<1>2. ASSUME NEW b \in Blocks, Reorg(b) PROVE BoundInv'
  <2> SUFFICES ASSUME NEW h \in Handlers PROVE Bound(requests'[h])
    BY Zenon DEF BoundInv, Bound
  <2>1. requests'[h] = IF Relies(requests[h]) THEN [requests[h] EXCEPT !.calm = FALSE]
                       ELSE requests[h]
    BY <1>2, Zenon DEF Reorg
  <2>2. Bound(requests[h])
    BY Zenon DEF BoundInv
  <2>3. CASE Relies(requests[h])
    <3>1. requests[h] \in Requests /\ requests[h] # None
      BY <2>3, RequestType, Zenon DEF IInv, Relies
    <3> QED BY <2>1, <2>2, <2>3, <3>1, Zenon DEF Bound, Requests
  <2> QED BY <2>1, <2>2, <2>3, Zenon
<1>3. CASE Restart
  BY <1>3, Zenon DEF Restart, BoundInv, Bound
<1>4. CASE \E h \in Handlers : Handle(h)
  BY <1>4, HandleBound, Zenon
<1>5. CASE UNCHANGED vars
  BY <1>1, <1>5, Zenon DEF vars
<1>6. CASE (\E b \in Blocks : Extend(b)) \/ Manage \/ Index \/ Recover
  BY <1>1, <1>6, Zenon DEF Extend, Manage, Load, Apply, Publish, Index, Reset, Scan,
       Rewind, Recover, StartBackfill, EndBackfill, SaveBackfill
<1>7. CASE (\E p \in BOOLEAN : Mutate(p)) \/ (\E t \in tokens : Expire(t))
  BY <1>1, <1>7, Zenon DEF Mutate, Expire
<1> QED BY <1>2, <1>3, <1>4, <1>5, <1>6, <1>7, Zenon DEF Next, Chains

\* A transaction uses the claims of a token.
LEMMA SkipBound ==
    ASSUME IInv, BoundInv, NEW h \in Handlers, SkipScannerToHead(h)
    PROVE  /\ requests[h] # None
           /\ requests[h].token = [revision |-> revision, previous |-> checkpoint,
                                   target |-> checkpoint']
           /\ revision' = revision + 1 /\ paused /\ ~backfilling
           /\ Number(checkpoint') >= FromBlock(checkpoint)
<1> DEFINE q == requests[h]
<1>1. /\ q # None /\ q.at = "commit" /\ revision = q.revision /\ checkpoint = q.previous
      /\ checkpoint' = q.target /\ revision' = revision + 1 /\ paused /\ ~backfilling
      /\ Number(checkpoint') >= FromBlock(checkpoint)
  BY Zenon DEF SkipScannerToHead
<1>2. q.token \in Claims
  <2>1. q \in Requests /\ q.token # None
    BY <1>1, RequestType, Zenon DEF IInv, RequestInv, CalmInv
  <2> QED BY <2>1, Zenon DEF Requests
<1>3. q.token # None
  BY <1>1, Zenon DEF IInv, RequestInv, CalmInv
<1>4. q.token.revision = revision /\ q.token.previous = checkpoint
      /\ q.token.target = checkpoint'
  BY <1>1, <1>3, Zenon DEF BoundInv, Bound
<1>5. q.token = [revision |-> q.token.revision, previous |-> q.token.previous,
                 target |-> q.token.target]
  BY <1>2, Zenon DEF Claims
<1> QED BY <1>1, <1>4, <1>5, Zenon

\* No interleaving of previews, confirmations and other changes makes a skip leave
\* out blocks its administrator was not shown.
THEOREM SkipPreviewed == Spec => SkipsAsPreviewed
<1> DEFINE Previewed ==
      /\ revision <= revision'
      /\ checkpoint' # checkpoint /\ revision' # revision =>
            /\ \E h \in Handlers :
                 /\ requests[h] # None
                 /\ requests[h].token = [revision |-> revision, previous |-> checkpoint,
                                         target |-> checkpoint']
            /\ revision' = revision + 1 /\ paused /\ ~backfilling
            /\ Number(checkpoint') >= FromBlock(checkpoint)
<1>1. Init => BoundInv
  BY Zenon DEF Init, BoundInv, Bound
<1>2. ASSUME IInv, BoundInv, [Next]_vars PROVE [Previewed]_vars
  <2> SUFFICES ASSUME Next PROVE Previewed
    BY <1>2, Zenon
  <2>1. revision \in Nat /\ revision <= revision /\ revision <= revision + 1
    BY <1>2 DEF IInv, TypeOK, Revisions
  <2>2. CASE \E h \in Handlers : SkipScannerToHead(h)
    <3>1. PICK h \in Handlers : SkipScannerToHead(h)
      BY <2>2, Zenon
    <3>2. /\ requests[h] # None
          /\ requests[h].token = [revision |-> revision, previous |-> checkpoint,
                                  target |-> checkpoint']
          /\ revision' = revision + 1 /\ paused /\ ~backfilling
          /\ Number(checkpoint') >= FromBlock(checkpoint)
      BY <1>2, <3>1, SkipBound, Zenon
    <3> QED BY <2>1, <3>2, Zenon
  <2>3. CASE \E p \in BOOLEAN : Mutate(p)
    BY <2>1, <2>3, Zenon DEF Mutate, index
  <2>4. CASE revision' = revision
    BY <2>1, <2>4, Zenon
  <2>5. \/ \E h \in Handlers : SkipScannerToHead(h)
        \/ \E p \in BOOLEAN : Mutate(p)
        \/ revision' = revision
    BY Zenon DEF Next, Chains, Extend, Reorg, Manage, Load, Apply, Publish, Index, Reset,
         Scan, Rewind, Recover, StartBackfill, EndBackfill, SaveBackfill, Restart, Expire,
         Handle, Begin, CheckStopped, ReadLatest, ReadTarget, ReadCheckpoint,
         VerifyPrevious, Refuse, config
  <2> QED BY <2>2, <2>3, <2>4, <2>5, Zenon
<1> QED BY <1>1, <1>2, Invariance, NextBound, PTL DEF Spec, SkipsAsPreviewed
=============================================================================
