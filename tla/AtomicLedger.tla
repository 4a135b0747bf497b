---------------------------- MODULE AtomicLedger ----------------------------
(***************************************************************************)
(* What the locked ledger tools promise to the sessions that share one     *)
(* wiki ledger: every call that succeeds takes effect in one step on the   *)
(* ledger as it is at that step.  Appended records get fresh ids; a review *)
(* changes statuses and nothing else; a committed draft replaces the very  *)
(* content it was first staged over, and only once.  LedgerTools is shown  *)
(* to implement this while no session uses the unlocked review tools.      *)
(***************************************************************************)
EXTENDS Naturals, FiniteSets

CONSTANTS
    Sessions,   \* the processes that run wiki tools on the ledger
    Ids,        \* record numbers (bounded)
    Anchors,    \* what a record says, with its source span
    Statuses,   \* review statuses
    Pages,      \* whole pages that a session may stage
    Initial,    \* what the ledger may be at the start
    NoFile,     \* the ledger file does not exist
    NoDraft     \* a session has staged nothing

VARIABLES
    file,       \* the records of the ledger, or NoFile
    drafts,     \* drafts[s]: what s has staged, and over which content
    committed   \* the sessions that have committed their draft

Record == [id : Ids, anchor : Anchors, status : Statuses]

Records(content) == IF content = NoFile THEN {} ELSE content

IdsOf(content) == {r.id : r \in Records(content)}

Init ==
    /\ file \in Initial
    /\ drafts = [s \in Sessions |-> NoDraft]
    /\ committed = {}

(* A page read while another session rewrites it may look empty. *)
Stage(s) ==
    /\ s \notin committed
    /\ \E content \in Pages, base \in {file, {}} :
        drafts' = [drafts EXCEPT ![s] =
            [content |-> content, base |-> IF @ = NoDraft THEN base ELSE @.base]]
    /\ UNCHANGED <<file, committed>>

Commit(s) ==
    /\ s \notin committed
    /\ drafts[s] # NoDraft
    /\ file = drafts[s].base
    /\ file' = drafts[s].content
    /\ drafts' = [drafts EXCEPT ![s] = NoDraft]
    /\ committed' = committed \cup {s}

Append ==
    /\ LET new == Records(file') \ Records(file) IN
        /\ file' = Records(file) \cup new
        /\ new # {}
        /\ new \subseteq Record
        /\ \A r \in new : \A i \in IdsOf(file) : i < r.id
        /\ \A r, q \in new : r.id = q.id => r = q
    /\ UNCHANGED <<drafts, committed>>

Review ==
    /\ file # NoFile
    /\ \E id \in IdsOf(file), status \in Statuses :
        file' = {IF r.id = id THEN [r EXCEPT !.status = status] ELSE r : r \in file}
    /\ UNCHANGED <<drafts, committed>>

Next == Append \/ Review \/ \E s \in Sessions : Stage(s) \/ Commit(s)

Spec == Init /\ [][Next]_<<file, drafts, committed>>
==============================================================================
