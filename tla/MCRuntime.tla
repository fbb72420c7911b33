----------------------------- MODULE MCRuntime -----------------------------
(***************************************************************************)
(* An instance of Runtime for TLC: two listeners, and configurations of    *)
(* two chains, of which one has no event subscriptions.                    *)
(***************************************************************************)
EXTENDS Runtime, TLC

CONSTANTS a, c, i1, i2

MCListeners == {1, 2}
MCConfigs == {a, c}
MCChainOf == a :> 1 @@ c :> 2
MCIdle == {c}
MCInstances == {i1, i2}
=============================================================================
