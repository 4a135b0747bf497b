--------------------------- MODULE MCRepoWriteLock ---------------------------
(* Small instances of RepoWriteLock for TLC: two or three processes over   *)
(* two paths.                                                              *)
EXTENDS RepoWriteLock, TLC

Paths1 == {1}
Paths2 == 1..2

ProcSymmetry == Permutations(Procs)
==============================================================================
