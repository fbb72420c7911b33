------------------------------ MODULE MCAccess -----------------------------
(* Instances of Access for TLC. *)
EXTENDS Access, TLC

MCSymmetry == Permutations(UserIDs) \cup Permutations(Handlers) \cup Permutations(Tokens)

(* Parts of the state that do not meet in any action are explored one at a   *)
(* time: the setup and administration of several users, sessions, login      *)
(* failures, API keys.  Time passes for sessions and failures only.  The     *)
(* session that is followed begins at time 0.  A second login may evict it;  *)
(* its own token is not followed.                                            *)
MCTopics ==
    <<initial # {} \/ Cardinality(Existing) > 1, Entries(issued) # {},
      Entries(failures) # {}, \E k \in KeyIDs : keys[k] # "none">>
MCFocus ==
    /\ \A i, j \in DOMAIN MCTopics : MCTopics[i] /\ MCTopics[j] => i = j
    /\ Cardinality(Entries(issued)) <= 1
    /\ \A t \in Entries(issued) : issued[t].at = 0
    /\ clock > 0 => Entries(issued) # {} \/ Entries(failures) # {}
=============================================================================
