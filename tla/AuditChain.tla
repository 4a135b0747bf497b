------------------------------ MODULE AuditChain ------------------------------
(***************************************************************************)
(* What the acceptance of quality audits promises for one dialogue: a      *)
(* chain of audits, each of another ledger than the one before it and each *)
(* passed by an independent sample; the chain only grows, and every link   *)
(* can be replayed from what is kept.                                      *)
(***************************************************************************)
EXTENDS Sequences

CONSTANTS
    Audits,         \* the audits: a ledger, and the blocks its sample failed
    Start           \* the chains the repository may begin with

VARIABLE chain

Init == chain \in Start

Follows(audit) == chain = <<>> \/ chain[Len(chain)].ledger # audit.ledger

Accept(audit) ==
    /\ audit.failed = {}
    /\ Follows(audit)
    /\ chain' = Append(chain, audit)

Next == \E audit \in Audits : Accept(audit)

Spec == Init /\ [][Next]_chain
==============================================================================
