--------------------------- MODULE BackfillIndex ---------------------------
(***************************************************************************)
(* A backfill and the live scanner of the same listener, on one chain and  *)
(* one database: Scanner and Backfill composed.                            *)
(*                                                                         *)
(* The backfill reads a whole range at once from the endpoint's current    *)
(* fork: ranges that are torn while they are read are the subject of       *)
(* Scanner, which runs the same fetchVerifiedBatch.  What matters here is  *)
(* what the scanner and the chain do between the read and the transaction  *)
(* that stores it.                                                         *)
(***************************************************************************)
EXTENDS Scanner

CONSTANTS
    Ids, Heights, MaxRange, Handlers, None    \* as in Backfill

VARIABLES
    jobs, stored, request, wpc, job, next,    \* as in Backfill (wpc: its pc)
    fetched,        \* the logs FetchRange has returned
    reorged         \* history: the endpoint has left a fork

Jobs == INSTANCE Backfill WITH Listeners <- {1}, pc <- wpc

\* The assumptions of Backfill, about this instance of it.
ASSUME IndexAssumption ==
    /\ Ids \subseteq Nat /\ Heights \subseteq Nat /\ MaxRange \in Nat
    /\ None \notin Ids /\ None \notin Jobs!Jobs /\ None \notin Jobs!Requests

jobVars == <<jobs, stored, request, wpc, job, next>>
indexVars == <<vars, jobVars, fetched, reorged>>

\* A scanner that starts from nothing, or after SkipScannerToHead put its first
\* checkpoint at some block of the chain.
InitIndex ==
    /\ head \in Blocks
    /\ \/ checkpoint = NoHash /\ canonical = {}
       \/ \E n \in StartBlock..Number(head) :
             /\ checkpoint = At(head, n)
             /\ canonical = {[number |-> n, hash |-> At(head, n),
                              parent |-> ParentHash(At(head, n))]}
    /\ events = {}
    /\ pc = "idle" /\ latest = 0 /\ walk = {}
    /\ from = 0 /\ expected = NoHash /\ endParent = NoHash /\ endHash = NoHash
    /\ logs = {} /\ headers = << >>
    /\ disturbed = FALSE /\ tainted = FALSE
    /\ Jobs!Init /\ fetched = {} /\ reorged = FALSE

\* The tables only the scanner writes, its local state and the chain.
scanning == <<head, checkpoint, canonical, local, history>>

-----------------------------------------------------------------------------
\* The scanner and the chain

ScanStep == Scan /\ UNCHANGED <<jobVars, fetched, reorged>>
FailStep == Fail /\ UNCHANGED <<jobVars, fetched, reorged>>
GrowStep == Grow /\ UNCHANGED <<jobVars, fetched, reorged>>
SwitchStep == Switch /\ reorged' = TRUE /\ UNCHANGED <<jobVars, fetched>>

-----------------------------------------------------------------------------
\* The backfill

\* Requests of the administrators, the claim, and a runOne that ends in a failure.
JobStep ==
    /\ \/ Jobs!Administer
       \/ \E j \in Ids : Jobs!ClaimBackfill(j)
       \/ Jobs!SaveRefused \/ Jobs!FailBackfill \/ Jobs!Leave
    /\ fetched' = IF wpc' = "save" THEN fetched ELSE {}
    /\ UNCHANGED <<vars, reorged>>

\* Mutant of FetchRange: the first block of the range is left out of the query.
FetchRangeSkipsFirst ==
    /\ Jobs!FetchRange
    /\ wpc' = "save" => Jobs!To <= Number(head)
    /\ fetched' = IF wpc' = "save" THEN LogsBetween(head, next + 1, Jobs!To) ELSE {}
    /\ UNCHANGED <<vars, reorged>>

\* FetchRange: fetchVerifiedBatch without an expected parent and without the cap at
\* the confirmed head.  A range beyond the head fails.
FetchRange ==
    /\ Jobs!FetchRange
    /\ wpc' = "save" => Jobs!To <= Number(head)
    /\ fetched' = IF wpc' = "save" THEN LogsBetween(head, next, Jobs!To) ELSE {}
    /\ UNCHANGED <<vars, reorged>>

\* SaveBackfillBatch refuses an event in conflict with a canonical_blocks row, or
\* with an event of the same identity.
InConflict(e) ==
    \/ \E r \in canonical : r.number = Number(e.block) /\ r.hash # e.block
    \/ \E s \in events : s.id = e.id /\ s.block # e.block

SaveBackfillBatch ==
    /\ Jobs!SaveBackfillBatch
    /\ \A e \in fetched : ~InConflict(e)
    /\ events' = events \cup fetched
    /\ fetched' = {}
    /\ UNCHANGED <<scanning, reorged>>

-----------------------------------------------------------------------------
NextIndex ==
    \/ ScanStep \/ FailStep \/ GrowStep \/ SwitchStep
    \/ JobStep \/ FetchRange \/ SaveBackfillBatch

SpecIndex == InitIndex /\ [][NextIndex]_indexVars

\* The fairness of the scanner, as in Scanner.
FairIndex == SpecIndex /\ WF_indexVars(ScanStep)

-----------------------------------------------------------------------------
\* Properties

\* "Recover missing blockchain events" (ui/src/backfills-page.tsx): on a chain that
\* has not switched forks, the matching logs of every block a job has counted are
\* stored, wherever the scanner is and whatever it does meanwhile, and nothing but
\* logs of the chain is stored, so neither of the two meets a conflict.
Recovered ==
    ~reorged =>
        /\ \A j \in Ids : \A n \in stored[j] : LogsOf(At(head, n)) \subseteq events
        /\ events \subseteq LogsBetween(head, StartBlock, Number(head))

\* README.md: "Follows confirmed EVM logs with durable checkpoints."  As in Scanner,
\* once forks, failures and backfills stop, the scanner reaches the confirmed head.
FollowsConfirmed ==
    <>[][ScanStep \/ GrowStep]_indexVars => <>[](tainted \/ CaughtUp)
=============================================================================
