----------------------------- MODULE MCScanner -----------------------------
(* Instances of Scanner for TLC. *)
EXTENDS Scanner

MCForks == {"a", "b"}

\* All ancestors of the given blocks.
Closure(leaves) == UNION {{At(b, n) : n \in 0..Len(b)} : b \in leaves}

\* A main chain, a fork that replaces its block 4, a deep fork that leaves it at
\* height 1 and one that leaves it at genesis.
MCBlocks == Closure({<<"a","a","a","a","a">>, <<"a","a","a","b">>,
                     <<"a","b","b","b","b">>, <<"b","b">>})

\* Transaction t1 is mined on every fork, at different heights; t2 and t3 only
\* on some.  Some blocks are empty.
MCLogs == [b \in MCBlocks |->
    CASE b = <<"a","a">> -> {"t1"}
      [] b = <<"a","a","a">> -> {"t2"}
      [] b = <<"a","a","a","a">> -> {"t3"}
      [] b = <<"a","b","b">> -> {"t1"}
      [] b = <<"a","b","b","b">> -> {"t2"}
      [] b = <<"b">> -> {"t1"}
      [] OTHER -> {}]
=============================================================================
