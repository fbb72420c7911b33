--------------------------- MODULE ConfirmedIndex ---------------------------
(***************************************************************************)
(* What the scanner promises to the rest of the system: an index of the    *)
(* matching logs of one block and all its ancestors from StartBlock on,    *)
(* whose tip only ever moves along the chain it indexes, and that changes  *)
(* in one step together with its tip.                                      *)
(***************************************************************************)
EXTENDS Chain

CONSTANT StartBlock

VARIABLES tip,   \* the indexed block, or NoHash
          index, \* the stored logs
          exact  \* FALSE from the commit of a batch the endpoint tore apart
                 \*   until the index is rebuilt

LogsUpTo(b) == LogsBetween(b, StartBlock, Number(b))

Init == tip = NoHash /\ index = {} /\ exact = TRUE

\* A batch of descendants is added.
Advance ==
    /\ exact /\ exact' = TRUE
    /\ \E b \in Blocks :
         /\ tip # NoHash => IsAncestor(tip, b)
         /\ tip' = b /\ index' = LogsUpTo(b)

\* The index goes back to a common ancestor.
Retreat ==
    /\ exact /\ exact' = TRUE
    /\ tip # NoHash
    /\ \E b \in Blocks :
         /\ IsAncestor(b, tip)
         /\ tip' = b /\ index' = LogsUpTo(b)

\* No common ancestor is known: the index is emptied.
Rebuild == tip' = NoHash /\ index' = {} /\ exact' = TRUE

\* A torn batch is committed, or the index moves on after one.
Tear ==
    /\ exact' = FALSE
    /\ tip' \in Blocks
    /\ index' \subseteq [id : EventIDs, block : Blocks]

Next == Advance \/ Retreat \/ Rebuild \/ Tear

Spec == Init /\ [][Next]_<<tip, index, exact>>
=============================================================================
