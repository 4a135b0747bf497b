--------------------------- MODULE MCQualityAudit ---------------------------
(* Instances of QualityAudit for TLC. *)
EXTENDS QualityAudit, TLC

Symmetry == Permutations(Procs) \cup Permutations(Words) \cup Permutations(Days)
==============================================================================
