------------------------------- MODULE MCSkip -------------------------------
(* An instance of Skip for TLC. *)
EXTENDS Skip

MCForks == {"a", "b"}

\* Two forks that leave each other at genesis.
MCBlocks == {<< >>, <<"a">>, <<"b">>, <<"b","b">>}

\* The only matching log is in a block that has a sibling on the other fork.
MCLogs == [b \in MCBlocks |-> IF b = <<"b">> THEN {"t"} ELSE {}]
=============================================================================
