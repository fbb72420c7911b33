----------------------------- MODULE MCBackfill -----------------------------
(***************************************************************************)
(* An instance of Backfill for TLC: two jobs, of the same listener or of   *)
(* two, and two overlapping requests.                                      *)
(***************************************************************************)
EXTENDS Backfill

CONSTANTS l1, l2, h1, h2

MCIds == 1..2
MCListeners == {l1, l2}
MCHandlers == {h1, h2}
=============================================================================
