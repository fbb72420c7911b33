-------------------------- MODULE MCBackfillIndex --------------------------
(***************************************************************************)
(* Instances of BackfillIndex for TLC: two forks that leave at height 1.   *)
(* Transaction t1 is mined at height 2 of one and at height 3 of the       *)
(* other, t2 only on the first.                                            *)
(***************************************************************************)
EXTENDS BackfillIndex

MCForks == {"a", "b"}
MCBlocks == {<< >>, <<"a">>, <<"a","a">>, <<"a","a","a">>, <<"a","b">>, <<"a","b","b">>}
MCLogs == [b \in MCBlocks |->
    CASE b = <<"a","a">> -> {"t1"}
      [] b = <<"a","a","a">> -> {"t2"}
      [] b = <<"a","b","b">> -> {"t1"}
      [] OTHER -> {}]
=============================================================================
