-------------------------- MODULE MCCommentaryGates --------------------------
(* Instances of CommentaryGates for TLC. *)
EXTENDS CommentaryGates, TLC

Worded(unit, body) == [unit |-> unit, body |-> body, anchor |-> 0, status |-> "unreviewed"]

(* The blocks that the outline of the dialogue has made. *)
Outline(blocks, count) == [ledger |-> blocks, submissions |-> {}, replaced |-> {},
                           trail |-> <<>>, commands |-> count]

OneBlock == {Outline(<<Worded("s", 0)>>, 0)}

(* Two blocks, each rewritten by a command of its own. *)
Rewritten ==
    LET ledgers == <<<<Worded("s", 0), Worded("t", 0)>>, <<Worded("s", 1), Worded("t", 0)>>,
                     <<Worded("s", 1), Worded("t", 2)>>>>
    IN  [ledger |-> ledgers[3],
         submissions |-> {[ord |-> k, gate |-> "rewrite", unit |-> "none", ids |-> {k},
                           before |-> ledgers[k], after |-> ledgers[k + 1],
                           superseded |-> {<<k, 0>>}, target |-> 0, at |-> k] : k \in {1, 2}},
         replaced |-> {<<1, 0>>, <<2, 0>>},
         trail |-> [k \in {1, 2} |-> [gate |-> "rewrite", ids |-> {k}]],
         commands |-> 2]

EarlyAndLate ==
    {Outline(<<Worded("s", 0)>>, 1),
     Outline(<<Worded("s", 0), Worded("s", 0), Worded("t", 0)>>, 2), Rewritten}

ProcSymmetry == Permutations(Procs)
==============================================================================
