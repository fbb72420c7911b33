---------------------------- MODULE MCListeners ----------------------------
(* Instances of Listeners for TLC. *)
EXTENDS Listeners, TLC

CONSTANTS l1, l2, c1, e1, g, w1

MCListenerIDs == {l1, l2}
MCWebhooks == {g, w1}
MCParent == l1 :> Root @@ l2 :> Root @@ c1 :> l1 @@ e1 :> c1
              @@ g :> Root @@ w1 :> e1

Document(rows, chain) ==
    [rows |-> rows, paused |-> {},
     chain |-> [l \in MCListenerIDs |-> IF l \in rows THEN chain[l] ELSE NoChain]]

\* A complete configuration, one without a route for its event, one with two
\* listeners for a chain, and the empty one.
MCDocuments ==
    {Document({l1, l2, c1, e1, g}, l1 :> 1 @@ l2 :> 2),
     Document({l1, c1, e1}, l1 :> 1),
     Document({l1, l2}, l1 :> 1 @@ l2 :> 1),
     Document({}, l1 :> 1)}

MCSymmetry == Permutations(Handlers)
=============================================================================
