------------------------------- MODULE Chain -------------------------------
(***************************************************************************)
(* The chain behind the JSON-RPC endpoint (external to the repository).    *)
(*                                                                         *)
(* A block hash commits to the whole ancestry of the block, so a block is  *)
(* represented by its ancestry: the sequence of fork choices that leads to *)
(* it from genesis.  Genesis is << >>, the height of a block is its length *)
(* and its parent is the sequence without the last choice.  Two blocks are *)
(* equal exactly when their hashes are.                                    *)
(*                                                                         *)
(* The canonical chain the endpoint answers from is given by its head.     *)
(***************************************************************************)
EXTENDS Integers, Sequences

CONSTANTS Forks,    \* the choices a block producer has at each height
          Blocks,   \* the blocks that exist: a prefix-closed set of Seq(Forks)
          EventIDs, \* core.EventID: (transaction hash, log index) pairs
          Logs,     \* Logs[b]: the identities of the matching logs of block b
          NoHash    \* no block: the empty hash string of the Go code, a
                    \*   missing checkpoint row, and the parent of genesis

Number(b) == Len(b)
At(b, n) == SubSeq(b, 1, n)            \* the ancestor of b at height n
ParentHash(b) == IF b = << >> THEN NoHash ELSE At(b, Number(b) - 1)
IsAncestor(a, b) == Number(a) <= Number(b) /\ At(b, Number(a)) = a

\* A log as eth_getLogs returns it: an identity and the block it is in.
LogsOf(b) == {[id |-> i, block |-> b] : i \in Logs[b]}

\* The logs of heights m..n on the chain that ends in b.
LogsBetween(b, m, n) ==
    UNION {LogsOf(At(b, k)) : k \in {j \in m..n : j <= Number(b)}}

ASSUME BlocksAssumption ==
    /\ Blocks \subseteq Seq(Forks)
    /\ << >> \in Blocks
    /\ NoHash \notin Seq(Forks)
    /\ \A b \in Blocks : \A n \in 0..Number(b) : At(b, n) \in Blocks

\* A transaction is mined at most once on a chain; on another fork it may be
\* mined again, in a block with another hash.
ASSUME LogsAssumption ==
    /\ Logs \in [Blocks -> SUBSET EventIDs]
    /\ \A b \in Blocks : \A m, n \in 0..Number(b) :
         m # n => Logs[At(b, m)] \cap Logs[At(b, n)] = {}
=============================================================================
