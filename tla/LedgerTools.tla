----------------------------- MODULE LedgerTools -----------------------------
(***************************************************************************)
(* The wiki ledger tools (packages/harness/src/wiki/tools.ts) of several   *)
(* sessions, each a process with its own staged drafts, over one ledger    *)
(* file of wiki/observations, wiki/claims or wiki/relations.               *)
(*                                                                         *)
(* A ledger is a set of records with an id number, an anchor (the source   *)
(* span and the text of the record) and a review status; a page is always  *)
(* written whole.  Reading and writing the file are separate steps, and    *)
(* writeFileSync itself is two: the file is truncated, then filled.        *)
(* withRepoWriteLock is the abstract lock that RepoWriteLock implements.   *)
(***************************************************************************)
EXTENDS Naturals, Sequences, FiniteSets

CONSTANTS
    Sessions,       \* processes running executeWikiToolCalls
    Starts,         \* how sessions may start: their commands, the calls each
                    \* makes at most (a bound), and the ledger
    MaxId,          \* bound: record numbers
    Anchors,        \* spans with the text of a record
    Statuses,       \* review statuses of a record
    Unreviewed,     \* the status of a record that is written
    Batches,        \* sequences of anchors that a session may append
    Pages,          \* whole pages that a session may stage or write
    Correctable,    \* bound: the anchors that corrections of the source hit
    NoFile, NoDraft, Nobody

(* The commands whose tools on observations take no lock. *)
UnlockedModes == {"review", "review-segmented"}

Modes == UnlockedModes \cup
         {"ingest", "ingest-segmented", "claims-segmented",
          "claims-review-segmented", "relations-segmented",
          "relations-review-segmented"}

Ids == 1..MaxId

Record == [id : Ids, anchor : Anchors, status : Statuses]

Records(content) == IF content = NoFile THEN {} ELSE content

ASSUME LedgerAssumption ==
    /\ MaxId \in Nat
    /\ Unreviewed \in Statuses
    /\ Batches \subseteq Seq(Anchors)
    /\ Correctable \subseteq Anchors
    /\ \A start \in Starts :
        /\ start.mode \in [Sessions -> Modes]
        /\ start.calls \in [Sessions -> Nat]
        /\ Records(start.ledger) \subseteq Record /\ IsFiniteSet(Records(start.ledger))
    /\ \A page \in Pages : page \subseteq Record /\ IsFiniteSet(page)
    /\ \A content \in SUBSET Record : content # NoFile
    /\ Nobody \notin Sessions

VARIABLES
    mode,       \* mode[s]: the wiki command of session s
    ledger,     \* the ledger file: a set of records, or NoFile
    source,     \* the anchors that the Greek source supports
    lock,       \* who holds the write lock on the ledger
    step,       \* step[s]: what s does next in its tool call
    tool,       \* tool[s]: the tool s is running
    args,       \* args[s]: its argument
    read,       \* read[s]: the content it has read
    next,       \* next[s]: the content it is going to write
    staged,     \* staged[s]: stagedObservations for this path
    committed,  \* the sessions with the path in committedObservations
    calls       \* calls[s]: how many calls s has made

call == <<step, tool, args, read, next>>
world == <<mode, source>>
vars == <<world, ledger, lock, call, staged, committed, calls>>

IdsOf(content) == {r.id : r \in Records(content)}

AnchorsOf(content) == {r.anchor : r \in Records(content)}

RelationLedger ==
    \E s \in Sessions : mode[s] \in {"relations-segmented", "relations-review-segmented"}

(* The validators: a page has a record, every anchor resolves in the source, *)
(* and relations have unique ids and candidates.                            *)
Valid(content) ==
    /\ content # {}
    /\ AnchorsOf(content) \subseteq source
    /\ RelationLedger =>
        \A r, q \in content : r.id = q.id \/ r.anchor = q.anchor => r = q

------------------------------------------------------------------------------
(* createWikiTools: the tools of each command, and which of them lock *)

Tools(command) ==
    CASE command = "ingest" -> {"stage", "commit"}
      [] command \in {"ingest-segmented", "claims-segmented", "relations-segmented"} -> {"append"}
      [] command \in {"claims-review-segmented", "relations-review-segmented"} -> {"review"}
      [] command \in UnlockedModes -> {"review", "write"}

(* Mutant: the append tools do not lock. *)
LocksButAppends(s, name) == name # "append" /\ mode[s] \notin UnlockedModes

Locks(s, name) == name \in {"append", "commit"} \/ mode[s] \notin UnlockedModes

------------------------------------------------------------------------------
(* A tool call *)

Goto(s, to) == step' = [step EXCEPT ![s] = to]

(* Mutant: the bound on calls is not looked at. *)
BeginUncounted(s, name, arg) ==
    /\ step[s] = "idle"
    /\ name \in Tools(mode[s])
    /\ calls' = [calls EXCEPT ![s] = @ - 1]
    /\ tool' = [tool EXCEPT ![s] = name]
    /\ args' = [args EXCEPT ![s] = arg]
    /\ step' = [step EXCEPT ![s] = IF Locks(s, name) THEN "lock" ELSE "read"]

Begin(s, name, arg) ==
    /\ step[s] = "idle"
    /\ calls[s] > 0
    /\ name \in Tools(mode[s])
    /\ calls' = [calls EXCEPT ![s] = @ - 1]
    /\ tool' = [tool EXCEPT ![s] = name]
    /\ args' = [args EXCEPT ![s] = arg]
    /\ step' = [step EXCEPT ![s] = IF Locks(s, name) THEN "lock" ELSE "read"]

(* wiki_append_*, with fenced records in the content. *)
BeginAppend(s, batch) ==
    /\ Begin(s, "append", batch)
    /\ UNCHANGED <<world, ledger, lock, read, next, staged, committed>>

(* wiki_update_*_review_statuses: one status per record id. *)
BeginReview(s, id, status) ==
    /\ Begin(s, "review", [id |-> id, status |-> status])
    /\ UNCHANGED <<world, ledger, lock, read, next, staged, committed>>

(* wiki_write_observation: the content is validated before anything is read. *)
BeginWrite(s, page) ==
    /\ Valid(page)
    /\ Begin(s, "write", page)
    /\ UNCHANGED <<world, ledger, lock, read, next, staged, committed>>

(* wiki_commit_observation *)
BeginCommit(s) ==
    /\ s \notin committed
    /\ staged[s] # NoDraft
    /\ Begin(s, "commit", staged[s])
    /\ UNCHANGED <<world, ledger, lock, read, next, staged, committed>>

(* wiki_stage_observation writes no file.  A draft that replaces an earlier *)
(* one keeps the content the first one was staged over.                     *)
Stage(s, page) ==
    /\ step[s] = "idle"
    /\ calls[s] > 0
    /\ "stage" \in Tools(mode[s])
    /\ s \notin committed
    /\ Valid(page)
    /\ calls' = [calls EXCEPT ![s] = @ - 1]
    /\ staged' = [staged EXCEPT ![s] =
        [content |-> page, base |-> IF @ = NoDraft THEN ledger ELSE @.base]]
    /\ UNCHANGED <<world, ledger, lock, call, committed>>

Acquire(s) ==
    /\ step[s] = "lock"
    /\ lock = Nobody
    /\ lock' = s
    /\ Goto(s, "read")
    /\ UNCHANGED <<world, ledger, tool, args, read, next, staged, committed, calls>>

(* The call's locals are gone; the finally clause still has to unlock. *)
EndCall(s) ==
    /\ Goto(s, IF Locks(s, tool[s]) THEN "unlock" ELSE "idle")
    /\ tool' = [tool EXCEPT ![s] = "none"]
    /\ args' = [args EXCEPT ![s] = "none"]
    /\ read' = [read EXCEPT ![s] = NoFile]
    /\ next' = [next EXCEPT ![s] = NoFile]

(* The call throws, or has nothing to write. *)
Refuse(s) ==
    /\ EndCall(s)
    /\ UNCHANGED <<world, ledger, lock, staged, committed, calls>>

(* The content to write is known: it is opened for writing next. *)
Prepare(s, content) ==
    /\ read' = [read EXCEPT ![s] = ledger]
    /\ next' = [next EXCEPT ![s] = content]
    /\ Goto(s, "open")
    /\ UNCHANGED <<world, ledger, lock, tool, args, staged, committed, calls>>

------------------------------------------------------------------------------
(* Reading, checking and computing the new content *)

(* Mutant: the largest number is handed out again. *)
NextIsMax(content, n) ==
    /\ \A i \in IdsOf(content) : i <= n
    /\ n = 1 \/ n \in IdsOf(content)

(* nextObservationNumber, nextClaimNumber, nextRelationNumber: max + 1. *)
NextNumber(content, n) ==
    /\ \A i \in IdsOf(content) : i < n
    /\ n = 1 \/ n - 1 \in IdsOf(content)

(* The appended blocks get consecutive numbers from n. *)
Appended(batch, n) ==
    {[id |-> n + i - 1, anchor |-> batch[i], status |-> Unreviewed] : i \in DOMAIN batch}

(* duplicateAppendedSourceObservationAnchor, for observations only. *)
DuplicateAnchor(s, batch) ==
    /\ mode[s] = "ingest-segmented"
    /\ \E i \in DOMAIN batch :
        \/ batch[i] \in AnchorsOf(ledger)
        \/ \E j \in DOMAIN batch : i # j /\ batch[i] = batch[j]

(* Mutant: only the appended records are validated. *)
ReadAppendBatchOnly(s) ==
    /\ step[s] = "read"
    /\ tool[s] = "append"
    /\ LET batch == args[s] IN
        \E n \in 1..(MaxId + 1) :
            /\ NextNumber(ledger, n)
            /\ n + Len(batch) - 1 <= MaxId
            /\ IF batch = <<>> \/ DuplicateAnchor(s, batch) \/ ~Valid(Appended(batch, n))
                 THEN Refuse(s)
                 ELSE Prepare(s, Records(ledger) \cup Appended(batch, n))

ReadAppend(s) ==
    /\ step[s] = "read"
    /\ tool[s] = "append"
    /\ LET batch == args[s] IN
        \E n \in 1..(MaxId + 1) :
            /\ NextNumber(ledger, n)
            /\ n + Len(batch) - 1 <= MaxId
            /\ LET content == Records(ledger) \cup Appended(batch, n) IN
                IF batch = <<>> \/ DuplicateAnchor(s, batch) \/ ~Valid(content)
                  THEN Refuse(s)
                  ELSE Prepare(s, content)

(* Beyond the bound on record numbers the model does not append. *)
AppendBound(s) ==
    /\ step[s] = "read"
    /\ tool[s] = "append"
    /\ \E n \in 1..(MaxId + 1) :
        NextNumber(ledger, n) /\ n + Len(args[s]) - 1 > MaxId
    /\ Refuse(s)

(* Mutant: the draft is not validated again. *)
ReadCommitUnvalidated(s) ==
    /\ step[s] = "read"
    /\ tool[s] = "commit"
    /\ IF ledger = staged[s].base
         THEN Prepare(s, staged[s].content)
         ELSE Refuse(s)

(* The draft is checked against the ledger and the source once more. *)
ReadCommit(s) ==
    /\ step[s] = "read"
    /\ tool[s] = "commit"
    /\ IF ledger = staged[s].base /\ Valid(staged[s].content)
         THEN Prepare(s, staged[s].content)
         ELSE Refuse(s)

(* Mutant: only the updated records are written back. *)
ReadReviewDropping(s) ==
    /\ step[s] = "read"
    /\ tool[s] = "review"
    /\ LET content == {[r EXCEPT !.status = args[s].status] :
                            r \in {q \in Records(ledger) : q.id = args[s].id}} IN
        IF args[s].id \in IdsOf(ledger) /\ Valid(content)
          THEN Prepare(s, content)
          ELSE Refuse(s)

ReadReview(s) ==
    /\ step[s] = "read"
    /\ tool[s] = "review"
    /\ LET content == {IF r.id = args[s].id THEN [r EXCEPT !.status = args[s].status] ELSE r :
                            r \in Records(ledger)} IN
        IF args[s].id \in IdsOf(ledger) /\ Valid(content)
          THEN Prepare(s, content)
          ELSE Refuse(s)

(* reviewLedgerPreservationError: the ids of the page that is there. *)
SameIds(content, page) ==
    \A i \in Ids : Cardinality({r \in content : r.id = i})
                        = Cardinality({r \in page : r.id = i})

(* Mutant: any valid page is written. *)
ReadWriteUnchecked(s) ==
    /\ step[s] = "read"
    /\ tool[s] = "write"
    /\ Prepare(s, args[s])

ReadWrite(s) ==
    /\ step[s] = "read"
    /\ tool[s] = "write"
    /\ IF ledger = NoFile \/ SameIds(ledger, args[s])
         THEN Prepare(s, args[s])
         ELSE Refuse(s)

------------------------------------------------------------------------------
(* Writing *)

(* writeFileSync truncates the file ... *)
Open(s) ==
    /\ step[s] = "open"
    /\ ledger' = {}
    /\ Goto(s, "fill")
    /\ UNCHANGED <<world, lock, tool, args, read, next, staged, committed, calls>>

(* ... and fills it.  A commit consumes its draft. *)
Fill(s) ==
    /\ step[s] = "fill"
    /\ ledger' = next[s]
    /\ IF tool[s] = "commit"
         THEN /\ staged' = [staged EXCEPT ![s] = NoDraft]
              /\ committed' = committed \cup {s}
         ELSE UNCHANGED <<staged, committed>>
    /\ EndCall(s)
    /\ UNCHANGED <<world, lock, calls>>

Release(s) ==
    /\ step[s] = "unlock"
    /\ lock' = Nobody
    /\ Goto(s, "idle")
    /\ UNCHANGED <<world, ledger, tool, args, read, next, staged, committed, calls>>

(* Somebody corrects the Greek source: an anchor no longer resolves. *)
EditSource(a) ==
    /\ a \in source \cap Correctable
    /\ source' = source \ {a}
    /\ UNCHANGED <<mode, ledger, lock, call, staged, committed, calls>>

(* A session may make no further call; in a call it must not get stuck. *)
Finished ==
    /\ \A s \in Sessions : step[s] = "idle"
    /\ UNCHANGED vars

------------------------------------------------------------------------------
Init ==
    /\ \E start \in Starts :
        /\ mode = start.mode
        /\ calls = start.calls
        /\ ledger = start.ledger
    /\ source = Anchors
    /\ lock = Nobody
    /\ step = [s \in Sessions |-> "idle"]
    /\ tool = [s \in Sessions |-> "none"]
    /\ args = [s \in Sessions |-> "none"]
    /\ read = [s \in Sessions |-> NoFile]
    /\ next = [s \in Sessions |-> NoFile]
    /\ staged = [s \in Sessions |-> NoDraft]
    /\ committed = {}

Start(s) ==
    \/ \E batch \in Batches : BeginAppend(s, batch)
    \/ \E id \in Ids, status \in Statuses : BeginReview(s, id, status)
    \/ \E page \in Pages : BeginWrite(s, page) \/ Stage(s, page)
    \/ BeginCommit(s)

Proceed(s) ==
    \/ Acquire(s) \/ Release(s) \/ Open(s) \/ Fill(s) \/ AppendBound(s)
    \/ ReadAppend(s) \/ ReadCommit(s) \/ ReadReview(s) \/ ReadWrite(s)

Next ==
    \/ \E s \in Sessions : Start(s) \/ Proceed(s)
    \/ \E a \in Anchors : EditSource(a)
    \/ Finished

Spec == Init /\ [][Next]_vars

------------------------------------------------------------------------------
(* Properties *)

(* Every variable has its type. *)
TypeOK ==
    /\ mode \in [Sessions -> Modes]
    /\ Records(ledger) \subseteq Record
    /\ source \subseteq Anchors
    /\ lock \in Sessions \cup {Nobody}
    /\ step \in [Sessions -> {"idle", "lock", "read", "open", "fill", "unlock"}]
    /\ tool \in [Sessions -> {"none", "append", "review", "write", "commit"}]
    /\ \A s \in Sessions :
        /\ Records(read[s]) \cup Records(next[s]) \subseteq Record
        /\ staged[s] # NoDraft =>
            Records(staged[s].content) \cup Records(staged[s].base) \subseteq Record
    /\ committed \subseteq Sessions
    /\ calls \in [Sessions -> Nat]

Texts(content) == {<<r.id, r.anchor>> : r \in Records(content)}

(* A review of statuses neither deletes nor rewrites a record: what it     *)
(* writes over a complete page has exactly the records of that page (the   *)
(* descriptions of wiki_update_review_statuses and its siblings).          *)
ReviewKeepsRecords ==
    [][\A s \in Sessions :
        (/\ tool[s] = "review"
         /\ Open(s)
         /\ \A q \in Sessions : step[q] # "fill")
            => Texts(next[s]) = Texts(ledger)]_vars

(* No tool that locks writes a page whose anchors the Greek source does     *)
(* not support, in particular no draft staged before the source was        *)
(* corrected (revalidation in wiki_commit_observation and the append       *)
(* tools).                                                                 *)
WritesAreSourced ==
    [][\A s \in Sessions :
        Locks(s, tool[s]) /\ step[s] = "read" /\ step'[s] = "open"
            => AnchorsOf(next'[s]) \subseteq source]_vars

(* Which tools the sessions have. *)
AllLock == \A s \in Sessions : mode[s] \notin UnlockedModes
AllReview == \A s \in Sessions : mode[s] \in UnlockedModes
NoneIngests == \A s \in Sessions : mode[s] # "ingest"

(* The page without the write that is in progress. *)
SettledLedger ==
    IF \E s \in Sessions : step[s] = "fill"
      THEN read[CHOOSE s \in Sessions : step[s] = "fill"]
      ELSE ledger

(* An id that has been given to a record names that record for ever, and   *)
(* no accepted record disappears, while sessions append and review         *)
(* (nextClaimNumber and its siblings; stable ids of the ledgers).          *)
RecordsSurvive ==
    [][AllLock /\ NoneIngests
          => Texts(SettledLedger) \subseteq Texts(SettledLedger')]_vars

(* Reviewers of observations take no lock and may see each other's page    *)
(* half written; still none of them adds, drops or renumbers a record of a *)
(* page, by statuses or by a whole page (reviewLedgerPreservationError).   *)
ReviewsKeepIds ==
    [][AllReview => IdsOf(SettledLedger') = IdsOf(SettledLedger)]_vars

(* Two sessions that adjudicate the same pair of claims do not both record *)
(* a relation for it: the second append is refused under the lock          *)
(* (validateRelationLedger over the full ledger).                          *)
CandidatesJudgedOnce ==
    RelationLedger => \A r, q \in Records(SettledLedger) : r.anchor = q.anchor => r = q

(* Every id names one record: no two sessions are given the same number. *)
UniqueIds ==
    \A r, q \in Records(SettledLedger) : r.id = q.id => r = q

(* Of sessions with unlocked tools nothing is claimed. *)
Atomic == INSTANCE AtomicLedger WITH
    Initial <- {start.ledger : start \in Starts} \cup {NoFile},
    file <- IF AllLock THEN SettledLedger ELSE NoFile, drafts <- staged

(* Every successful call of a tool that locks takes effect at once on the  *)
(* ledger as it is then: no append, status or commit is lost or applied to *)
(* another content than the one its session saw, and a draft is consumed   *)
(* once.                                                                   *)
ImplementsAtomicLedger == Atomic!Spec
==============================================================================
