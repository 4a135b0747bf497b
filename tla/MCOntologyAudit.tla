-------------------------- MODULE MCOntologyAudit --------------------------
(* A record and the edge that it makes, in four states of the corpus.      *)
EXTENDS OntologyAudit, TLC

CONSTANTS plain, revised, leaking, edge

Corpus(record, graph) == [p \in {"records", "graphs"} |->
                             IF p = "records" THEN record ELSE graph]

MCWords    == {plain, revised, leaking, edge}
MCLeaks    == {leaking}
MCBaseline == Corpus(plain, edge)
MCCorpora  == {MCBaseline, Corpus(revised, edge), Corpus(revised, None),
               Corpus(leaking, edge)}
Weak == [target |-> "records", action |-> "revise"]
Gap  == [target |-> "source", action |-> "add"]

MCReadings == {{Weak}, {Weak, Gap}}

Symmetry == Permutations(Reviewers)
=============================================================================
