----------------------------- MODULE MCStorage -----------------------------
(* Instances of Database for TLC. *)
EXTENDS Database, TLC

\* Liveness is asked of the events alone, whose behaviours hold none of the
\* values that are permuted, so the symmetry leaves their graph as it is.
MCSymmetry == Permutations(Operators) \cup Permutations(BackupFiles)
=============================================================================
