-------------------------- MODULE ExclusiveSections --------------------------
(***************************************************************************)
(* What a repository write lock promises to its callers, whatever the      *)
(* protocol: a caller enters a section over a set of paths only while no   *)
(* other caller is in a section over one of them, and leaves it when its   *)
(* body ends.  Callers over different paths never wait for one another.    *)
(* RepoWriteLock is shown to implement this.                               *)
(***************************************************************************)
CONSTANTS
    Procs,      \* the processes that call withRepoWriteLock
    Targets     \* the repo-relative paths that are written

VARIABLE
    inside      \* inside[p]: the paths whose exclusive section p is in

TypeOK == inside \in [Procs -> SUBSET Targets]

Init == inside = [p \in Procs |-> {}]

Enter(p, scope) ==
    /\ inside[p] = {}
    /\ scope # {}
    /\ \A q \in Procs : inside[q] \cap scope = {}
    /\ inside' = [inside EXCEPT ![p] = scope]

(* A section ends when the body returns or throws, or its process dies. *)
Leave(p) ==
    /\ inside[p] # {}
    /\ inside' = [inside EXCEPT ![p] = {}]

Next == \E p \in Procs : Leave(p) \/ \E scope \in SUBSET Targets : Enter(p, scope)

Spec == Init /\ [][Next]_inside
==============================================================================
