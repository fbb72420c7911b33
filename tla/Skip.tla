-------------------------------- MODULE Skip --------------------------------
(***************************************************************************)
(* Skipping to the head: an administrator moves the checkpoint of a paused *)
(* listener forward over blocks that are never scanned.  A preview reads   *)
(* the chain and returns a signed token; a confirmation reads the chain    *)
(* again and hands the token's claims to a transaction.                    *)
(*                                                                         *)
(* Around it are the parts it relies on, each as far as the skip can tell: *)
(* the runtime manager with the status it publishes (Runtime), the scanner *)
(* of the listener with its recovery from reorganisations (Scanner; here   *)
(* it reads and stores a batch, or compares and rewinds, in one step), the *)
(* other requests that change the configuration (Listeners) and the        *)
(* backfills of the chain (Backfill).                                      *)
(***************************************************************************)
EXTENDS Chain, FiniteSets

CONSTANTS
    Handlers,       \* concurrent requests
    StartBlock, Confirmations, ReorgDepth,   \* the listener's settings
    MaxRevision,    \* bound on the configuration changes
    MaxTokens,      \* bound on the previews that are valid at a time
    None            \* no request, and the token of a preview

ASSUME SettingsAssumption ==
    /\ StartBlock \in Nat /\ Confirmations \in Nat /\ ReorgDepth \in Nat
    /\ MaxRevision \in Nat /\ MaxTokens \in Nat

VARIABLES
    head,           \* head of the chain the endpoint currently answers from
    paused,         \* rpc_listeners.paused
    revision,       \* rpc_listener_state.revision
    checkpoint,     \* checkpoints row of the chain: a block, or NoHash
    canonical,      \* the blocks of the canonical_blocks rows
    indexed,        \* the blocks whose logs have been stored
    backfilling,    \* a backfill job of the chain is queued, running or paused
    audit,          \* scanner_skip_audit rows
    manager,        \* the snapshot reconcile works on, and its place
    status,         \* the status the manager has published
    scanning,       \* the scanner goroutine of the listener exists
    tokens,         \* the signed previews that are valid
    requests,       \* the requests in progress
    tainted         \* history: a skip relied on two reads between which the
                    \*   endpoint left its fork, since the last reset

index == <<checkpoint, canonical, indexed, tainted>>
config == <<paused, revision>>
runtime == <<manager, status, scanning>>
vars == <<head, config, index, backfilling, audit, runtime, tokens, requests>>

Hashes == Blocks \cup {NoHash}
Revisions == 0..MaxRevision
\* scannerSkipClaims, without what is the same in all of them.
Claims == [revision : Revisions, previous : Hashes, target : Blocks]
\* `at' is the next step of handle; `calm': the endpoint has kept its fork since
\* the read of the target.
Requests ==
    [at : {"stopped", "latest", "target", "checkpoint", "previous", "commit"},
     revision : Revisions, token : Claims \cup {None}, confirmed : Nat,
     target : Hashes, previous : Hashes, calm : BOOLEAN]
Audits == [from : Nat, target : Blocks]

\* Every variable has the type of the Go field or column it stands for: a request
\* that goes on after its first read has a target, and a skipped range is not empty.
TypeOK ==
    /\ head \in Blocks
    /\ paused \in BOOLEAN /\ revision \in Revisions
    /\ checkpoint \in Hashes /\ canonical \subseteq Blocks /\ indexed \subseteq Blocks
    /\ backfilling \in BOOLEAN /\ tainted \in BOOLEAN
    /\ audit \subseteq Audits /\ \A a \in audit : a.from <= Number(a.target)
    /\ manager \in [at : {"load", "apply", "publish"}, revision : Revisions,
                    paused : BOOLEAN]
    /\ status \in [complete : BOOLEAN, revision : Revisions, paused : BOOLEAN]
    /\ scanning \in BOOLEAN
    /\ tokens \subseteq Claims
    /\ requests \in [Handlers -> Requests \cup {None}]
    /\ \A h \in Handlers :
         requests[h] # None /\ requests[h].at \in {"checkpoint", "previous", "commit"}
             => requests[h].target \in Blocks

\* The manager between two reconciles, which holds no snapshot.
Waiting == [at |-> "load", revision |-> 0, paused |-> FALSE]

Init ==
    /\ head = << >>
    /\ paused \in BOOLEAN /\ revision = 0
    /\ checkpoint = NoHash /\ canonical = {} /\ indexed = {} /\ tainted = FALSE
    /\ backfilling = FALSE /\ audit = {}
    /\ manager = Waiting
    /\ status = [complete |-> FALSE, revision |-> 0, paused |-> FALSE]
    /\ scanning = FALSE
    /\ tokens = {} /\ requests = [h \in Handlers |-> None]

-----------------------------------------------------------------------------
\* The endpoint

\* A confirmation that has read its target.
Relies(q) == q # None /\ q.token # None /\ q.at \in {"previous", "commit"}

Extend(b) ==
    /\ b # << >> /\ ParentHash(b) = head
    /\ head' = b
    /\ UNCHANGED <<config, index, backfilling, audit, runtime, tokens, requests>>

\* The endpoint answers from another fork, or from a node that lags behind.
Reorg(b) ==
    /\ ~IsAncestor(head, b)
    /\ head' = b
    /\ requests' = [h \in Handlers |->
           IF Relies(requests[h]) THEN [requests[h] EXCEPT !.calm = FALSE]
           ELSE requests[h]]
    /\ UNCHANGED <<config, index, backfilling, audit, runtime, tokens>>

-----------------------------------------------------------------------------
\* The other requests, the manager and the process

\* Any other change of the configuration; it may pause or resume the listener.  A
\* PATCH may also change StartBlock, Confirmations and ReorgDepth; these stay constant
\* in the model.
Mutate(p) ==
    /\ revision < MaxRevision
    /\ paused' = p /\ revision' = revision + 1
    /\ UNCHANGED <<head, index, backfilling, audit, runtime, tokens, requests>>

\* reconcile: the configuration is loaded,
Load ==
    /\ manager.at = "load"
    /\ manager' = [at |-> "apply", revision |-> revision, paused |-> paused]
    /\ UNCHANGED <<head, config, index, backfilling, audit, status, scanning, tokens,
                   requests>>

\* the scanner of a paused listener is stopped, that is, it has returned; that of
\* another one is started, kept, or could not be built,
Apply ==
    /\ manager.at = "apply"
    /\ \/ manager.paused /\ scanning' = FALSE
       \/ ~manager.paused /\ scanning' \in {scanning, TRUE}
    /\ manager' = [manager EXCEPT !.at = "publish"]
    /\ UNCHANGED <<head, config, index, backfilling, audit, status, tokens, requests>>

\* and the status is published.
Publish ==
    /\ manager.at = "publish"
    /\ status' = [complete |-> TRUE, revision |-> manager.revision,
                  paused |-> manager.paused]
    /\ manager' = Waiting
    /\ UNCHANGED <<head, config, index, backfilling, audit, scanning, tokens, requests>>

\* The process is restarted: the database stays, the signing key is a new one.
Restart ==
    /\ manager' = Waiting
    /\ status' = [complete |-> FALSE, revision |-> 0, paused |-> FALSE]
    /\ scanning' = FALSE
    /\ tokens' = {} /\ requests' = [h \in Handlers |-> None]
    /\ UNCHANGED <<head, config, index, backfilling, audit>>

-----------------------------------------------------------------------------
\* The scanner and the backfills

\* The checkpoint is not on the chain of the endpoint.
Orphaned ==
    /\ checkpoint # NoHash
    /\ Number(checkpoint) <= Number(head) /\ ~IsAncestor(checkpoint, head)

\* The rows of canonical_blocks, whose key is the height, after an upsert.
Upsert(blocks) == {c \in canonical : \A b \in blocks : Number(b) # Number(c)} \cup blocks

\* Pruned to the newest ReorgDepth + 1 heights.
Retained(blocks, b) == {c \in blocks : Number(c) + ReorgDepth >= Number(b)}

\* A batch from the block after the checkpoint to block b, at most the confirmed head.
Scan(b) ==
    /\ scanning
    /\ IsAncestor(b, head) /\ Number(b) + Confirmations <= Number(head)
    /\ IF checkpoint = NoHash THEN Number(b) >= StartBlock
       ELSE IsAncestor(checkpoint, b) /\ checkpoint # b
    /\ LET from == IF checkpoint = NoHash THEN StartBlock ELSE Number(checkpoint) + 1
           batch == {At(b, n) : n \in from..Number(b)}
       IN /\ indexed' = indexed \cup batch
          /\ canonical' = Retained(Upsert(batch), b)
    /\ checkpoint' = b
    /\ UNCHANGED <<head, config, backfilling, audit, runtime, tokens, requests, tainted>>

\* The recorded blocks the endpoint still has.
Common == {b \in canonical : IsAncestor(b, head)}

\* resumeBlock finds the newest common block: RewindCanonical.
Rewind(b) ==
    /\ scanning /\ Orphaned
    /\ b \in Common /\ \A c \in Common : Number(c) <= Number(b)
    /\ indexed' = {c \in indexed : Number(c) <= Number(b)}
    /\ canonical' = {c \in canonical : Number(c) <= Number(b)}
    /\ checkpoint' = b
    /\ UNCHANGED <<head, config, backfilling, audit, runtime, tokens, requests, tainted>>

\* resumeBlock finds none: ResetFrom(StartBlock).
Reset ==
    /\ scanning /\ Orphaned /\ Common = {}
    /\ indexed' = {c \in indexed : Number(c) < StartBlock}
    /\ canonical' = {c \in canonical : Number(c) < StartBlock}
    /\ checkpoint' = NoHash /\ tainted' = FALSE
    /\ UNCHANGED <<head, config, backfilling, audit, runtime, tokens, requests>>

\* A backfill is requested.
StartBackfill ==
    /\ ~backfilling
    /\ backfilling' = TRUE
    /\ UNCHANGED <<head, config, index, audit, runtime, tokens, requests>>

\* A job stores the logs it has found in block b, unless another block is recorded
\* for that height.
SaveBackfill(b) ==
    /\ backfilling
    /\ IsAncestor(b, head) /\ Number(b) >= StartBlock /\ Logs[b] # {}
    /\ \A c \in canonical : Number(c) = Number(b) => c = b
    /\ indexed' = indexed \cup {b}
    /\ UNCHANGED <<head, config, checkpoint, canonical, tainted, backfilling, audit,
                   runtime, tokens, requests>>

\* The last job ends: completed, failed or cancelled.
EndBackfill ==
    /\ backfilling
    /\ backfilling' = FALSE
    /\ UNCHANGED <<head, config, index, audit, runtime, tokens, requests>>

-----------------------------------------------------------------------------
\* The requests

\* loadListenerMutation: a preview (t = None) or a confirmation of the token t
\* names the current revision, and the listener is paused.
Begin(h, t) ==
    /\ requests[h] = None /\ paused
    /\ requests' = [requests EXCEPT ![h] =
           [at |-> "stopped", revision |-> revision, token |-> t, confirmed |-> 0,
            target |-> NoHash, previous |-> NoHash, calm |-> TRUE]]
    /\ UNCHANGED <<head, config, index, backfilling, audit, runtime, tokens>>

\* Mutant of Stopped: the revision of the status is not compared.
StoppedAnyRevision(r) == status.complete /\ status.paused

\* newScannerSkipService: the status, for the revision r, says "paused".
Stopped(r) == status.complete /\ status.revision = r /\ status.paused

\* handle: the runtime has stopped; a confirmation verifies its token, whose
\* revision must be the current one.
CheckStopped(h) ==
    /\ requests[h] # None /\ requests[h].at = "stopped"
    /\ Stopped(requests[h].revision)
    /\ LET t == requests[h].token IN
       t # None => t \in tokens /\ t.revision = requests[h].revision
    /\ requests' = [requests EXCEPT ![h] = [@ EXCEPT !.at = "latest"]]
    /\ UNCHANGED <<head, config, index, backfilling, audit, runtime, tokens>>

\* openSkipReader: the first fetch computes the confirmed head.
ReadLatest(h) ==
    /\ requests[h] # None /\ requests[h].at = "latest"
    /\ Number(head) >= Confirmations
    /\ requests' = [requests EXCEPT ![h] =
           [@ EXCEPT !.at = "target", !.confirmed = Number(head) - Confirmations]]
    /\ UNCHANGED <<head, config, index, backfilling, audit, runtime, tokens>>

\* fetch(n): the block the endpoint has at height n, which must be confirmed.
Fetches(h, n, b) ==
    /\ n <= requests[h].confirmed
    /\ n <= Number(head) /\ b = At(head, n)

\* The target: the confirmed head, or exactly the block that was previewed.
ReadTarget(h, b) ==
    /\ requests[h] # None /\ requests[h].at = "target"
    /\ LET q == requests[h] IN
       IF q.token = None
       THEN /\ Fetches(h, q.confirmed, b)
            /\ requests' = [requests EXCEPT ![h] =
                   [q EXCEPT !.at = "checkpoint", !.target = b]]
       ELSE /\ Fetches(h, Number(q.token.target), b) /\ b = q.token.target
            /\ requests' = [requests EXCEPT ![h] =
                   [q EXCEPT !.at = "previous", !.target = b,
                             !.previous = q.token.previous]]
    /\ UNCHANGED <<head, config, index, backfilling, audit, runtime, tokens>>

\* The first block a skip from checkpoint p leaves out.
FromBlock(p) == IF p = NoHash THEN StartBlock ELSE Number(p) + 1

\* A preview: the checkpoint, and whether there is something to skip.
ReadCheckpoint(h) ==
    /\ requests[h] # None /\ requests[h].at = "checkpoint"
    /\ Number(requests[h].target) >= FromBlock(checkpoint)
    /\ Number(requests[h].target) >= StartBlock
    /\ requests' = [requests EXCEPT ![h] =
           [@ EXCEPT !.at = "previous", !.previous = checkpoint]]
    /\ UNCHANGED <<head, config, index, backfilling, audit, runtime, tokens>>

\* Mutant of Canonical: the old checkpoint is not read again.
CanonicalUnread(h, p) == TRUE

\* verifyPrevious: the endpoint still has the checkpoint p.
Canonical(h, p) == p # NoHash => Fetches(h, Number(p), p)

\* A preview ends with a token, a confirmation goes on to the transaction.
VerifyPrevious(h) ==
    /\ requests[h] # None /\ requests[h].at = "previous"
    /\ LET q == requests[h] IN
       /\ Canonical(h, q.previous)
       /\ IF q.token = None
          THEN /\ Cardinality(tokens) < MaxTokens
               /\ tokens' = tokens \cup {[revision |-> q.revision,
                                previous |-> q.previous, target |-> q.target]}
               /\ requests' = [requests EXCEPT ![h] = None]
          ELSE /\ requests' = [requests EXCEPT ![h] = [q EXCEPT !.at = "commit"]]
               /\ UNCHANGED tokens
    /\ UNCHANGED <<head, config, index, backfilling, audit, runtime>>

\* Mutant of Anchored: the rows of the replaced history are all kept.
AnchoredUnpruned(b) == Upsert({b})

\* The history after a skip to b: the anchor, and what the reorg depth retains.
Anchored(b) == Retained(Upsert({b}), b)

\* SkipScannerToHead: the transaction.
SkipScannerToHead(h) ==
    /\ requests[h] # None /\ requests[h].at = "commit"
    /\ LET q == requests[h] IN
       /\ revision = q.revision /\ revision < MaxRevision
       /\ paused /\ Number(q.target) >= StartBlock
       /\ ~backfilling
       /\ checkpoint = q.previous
       /\ Number(q.target) >= FromBlock(checkpoint)
       /\ \A b \in indexed : Number(b) = Number(q.target) /\ b # q.target => Logs[b] = {}
       /\ checkpoint' = q.target /\ canonical' = Anchored(q.target)
       /\ paused' = FALSE /\ revision' = revision + 1
       /\ audit' = audit \cup {[from |-> FromBlock(checkpoint), target |-> q.target]}
       /\ tainted' = (tainted \/ ~q.calm)
    /\ requests' = [requests EXCEPT ![h] = None]
    /\ UNCHANGED <<head, indexed, backfilling, runtime, tokens>>

\* Every early return: a failed check, an RPC or store error, the deadline of 60 s,
\* a token of another administrator, a wrong confirmation phrase.
Refuse(h) ==
    /\ requests[h] # None
    /\ requests' = [requests EXCEPT ![h] = None]
    /\ UNCHANGED <<head, config, index, backfilling, audit, runtime, tokens>>

\* verify: five minutes after the preview its token has expired.
Expire(t) ==
    /\ tokens' = tokens \ {t}
    /\ UNCHANGED <<head, config, index, backfilling, audit, runtime, requests>>

-----------------------------------------------------------------------------
Chains == \E b \in Blocks : Extend(b) \/ Reorg(b)
Manage == Load \/ Apply \/ Publish
Index == Reset \/ \E b \in Blocks : Scan(b) \/ Rewind(b)
Recover == StartBackfill \/ EndBackfill \/ \E b \in Blocks : SaveBackfill(b)
Handle(h) ==
    \/ \E t \in tokens \cup {None} : Begin(h, t)
    \/ CheckStopped(h) \/ ReadLatest(h) \/ ReadCheckpoint(h) \/ VerifyPrevious(h)
    \/ \E b \in Hashes : ReadTarget(h, b)
    \/ SkipScannerToHead(h) \/ Refuse(h)

Next ==
    \/ Chains \/ Manage \/ Index \/ Recover \/ Restart
    \/ \E p \in BOOLEAN : Mutate(p)
    \/ \E h \in Handlers : Handle(h)
    \/ \E t \in tokens : Expire(t)

Spec == Init /\ [][Next]_vars

-----------------------------------------------------------------------------
\* Properties

\* SkipScannerToHead "requires the caller to have observed the runtime stopped":
\* no scanner of the listener is at work, in the middle of a batch it read before,
\* when the checkpoint is moved from under it, although the status was read long
\* before the transaction and may be stale whenever it is read.
SkipsWhileStopped ==
    [][checkpoint' # checkpoint /\ revision' # revision => ~scanning]_vars

\* A block an administrator has skipped: in the audited range, on the chain of the
\* audited target.
Skipped(b) == \E a \in audit : Number(b) >= a.from /\ IsAncestor(b, a.target)

\* Up to the checkpoint nothing is missing without a record: each block of the
\* checkpoint's chain from StartBlock on has been indexed or lies in an audited
\* skip of that chain.  Skips, rewinds and resets may follow one another in any
\* order; only a reorganisation between the two reads of a confirmation can conceal
\* an orphaned checkpoint.
GapsAreAudited ==
    ~tainted /\ checkpoint # NoHash =>
        \A n \in StartBlock..Number(checkpoint) :
            At(checkpoint, n) \in indexed \/ Skipped(At(checkpoint, n))

\* The history resumeBlock searches after a skip is still made of ancestors of the
\* checkpoint, the checkpoint included, and reaches no deeper than ReorgDepth.
HistoryIsAncestry ==
    ~tainted =>
        /\ checkpoint = NoHash => canonical = {}
        /\ checkpoint # NoHash => checkpoint \in canonical
        /\ \A b \in canonical :
             IsAncestor(b, checkpoint) /\ Number(b) + ReorgDepth >= Number(checkpoint)
=============================================================================
