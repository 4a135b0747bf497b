----------------------------- MODULE CommentaryGates -----------------------------
(***************************************************************************)
(* The gates that write the commentary of one dialogue: import of a draft  *)
(* or a rewrite, repair after a sample review, review and reconsideration  *)
(* of blocks, acceptance of a rewrite, another wording for what of it was  *)
(* not accepted (mend), and structural remediation.                        *)
(*                                                                         *)
(* Three kinds of files are kept together: the ledger, a record of each    *)
(* applied submission, and a receipt for each decision.  A gate checks its *)
(* command inside withRepoWriteLock (the sections of ExclusiveSections)    *)
(* and then writes the files one after the other, so that a fault or a     *)
(* crash can come between two of them.  All commands are of one day, which *)
(* makes the names of receipts collide most often.                         *)
(***************************************************************************)
EXTENDS Naturals, Sequences, FiniteSets

CONSTANTS
    Procs,          \* the processes that run gates
    Drafts,         \* the units that have a draft; none is in the outline
    Starts,         \* what the commands before have left, with their number
    Size,           \* the number of blocks of a draft
    Failing,        \* gates whose file-system calls may fail
    Dying,          \* gates whose process may die
    MaxCommands,    \* bound: commands that operators start
    MaxCrashes      \* bound: processes that die

Gates == {"draft", "rewrite", "repair", "mend", "review", "reconsider", "acceptance",
          "remove", "reanchor"}
Rewriting == {"rewrite", "repair", "mend"}
Remediating == {"remove", "reanchor"}
Deciding == {"review", "reconsider", "acceptance"}
Statuses == {"unreviewed", "accepted", "rejected"}
Anchors == {0, 1}

(* A block's id is its position; its body is the command that worded it.   *)
Block == [unit : Drafts \cup UNION {{s.ledger[i].unit : i \in DOMAIN s.ledger} : s \in Starts},
          body : 0..MaxCommands, anchor : Anchors, status : Statuses]

ASSUME GateAssumption ==
    /\ Size \in Nat \ {0}
    /\ MaxCommands \in Nat
    /\ MaxCrashes \in Nat
    /\ Failing \subseteq Gates
    /\ Dying \subseteq Gates

(* Commands have imported and rewritten before, but nobody has reviewed.   *)
ASSUME StartAssumption ==
    \A start \in Starts :
        /\ start.ledger \in Seq(Block)
        /\ \A i \in DOMAIN start.ledger :
            start.ledger[i].unit \notin Drafts /\ start.ledger[i].status = "unreviewed"
        /\ \A s \in start.submissions :
            /\ s.ord \in Nat \ {0} /\ s.gate \in {"draft", "rewrite"}
            /\ s.ids \subseteq DOMAIN s.after
            /\ s.before \in Seq(Block) /\ s.after \in Seq(Block)
            /\ \A i \in DOMAIN s.before :
                i \in DOMAIN s.after /\ (i \in s.ids \/ s.after[i].body = s.before[i].body)
        /\ \A s, t \in start.submissions : s.ord = t.ord => s = t
        /\ \A w \in start.replaced : \E s \in start.submissions : w \in s.superseded
        /\ start.commands \in 0..MaxCommands

VARIABLES
    ledger,         \* the blocks of wiki/commentary/<dialogue>.md
    submissions,    \* the records under wiki/submissions/commentary/<dialogue>
    receipts,       \* the receipts under wiki/review
    inside,         \* inside[p]: the paths that p has locked
    op,             \* op[p]: the command of p, with what it has left to do
    commands,       \* the number of commands so far
    crashes,
    replaced,       \* the wordings that were taken out of the ledger (history)
    trail           \* the changes of the ledger (history)

files == <<ledger, submissions, receipts>>
history == <<replaced, trail>>
vars == <<files, inside, op, commands, crashes, history>>

Locks == INSTANCE ExclusiveSections WITH
    Targets <- {"ledger", "submissions", "receipt"} \cup Gates

(* A process that runs no gate. *)
Idle == [todo |-> <<>>]

------------------------------------------------------------------------------
(* What a command does to the ledger *)

(* Mutant: what is imported is told from the records. *)
ImportedByRecord(unit) == \E s \in submissions : s.gate = "draft" /\ s.unit = unit

(* draftImportMarkers: the marker is written with the blocks of the draft. *)
Imported(unit) == \E i \in DOMAIN ledger : ledger[i].unit = unit

(* A draft that is imported already is replayed. *)
WithDraft(unit) ==
    IF Imported(unit) THEN ledger
    ELSE ledger \o [k \in 1..Size |->
            [unit |-> unit, body |-> 0, anchor |-> 0, status |-> "unreviewed"]]

Changed(content, ids, Change(_)) ==
    [i \in DOMAIN content |-> IF i \in ids THEN Change(content[i]) ELSE content[i]]

(* buildCommentaryRevisionLedger: revised blocks wait for a review again. *)
Revised(c) ==
    Changed(ledger, c.ids, LAMBDA b : [b EXCEPT !.body = c.body, !.status = "unreviewed"])

Reanchored(c) == Changed(ledger, c.ids, LAMBDA b : [b EXCEPT !.anchor = 1 - @])

(* A decision, and the removal of a block: it stays, rejected. *)
Decided(c) == Changed(ledger, c.ids, LAMBDA b : [b EXCEPT !.status = c.decision])

(* What the gate would write. *)
Prospective(c) ==
    CASE c.gate = "draft" -> WithDraft(c.unit)
      [] c.gate \in Rewriting -> Revised(c)
      [] c.gate = "reanchor" -> Reanchored(c)
      [] OTHER -> Decided(c)

(* Mutant: the ids of a draft are counted from one too many. *)
AppliedIdsPastEnd(c) ==
    IF c.gate # "draft" THEN c.ids
    ELSE IF Imported(c.unit) THEN {i \in DOMAIN ledger : ledger[i].unit = c.unit}
    ELSE {Len(ledger) + k + 1 : k \in 1..Size}

(* The ids that the gate names in its record and its receipt. *)
AppliedIds(c) ==
    IF c.gate # "draft" THEN c.ids
    ELSE IF Imported(c.unit) THEN {i \in DOMAIN ledger : ledger[i].unit = c.unit}
    ELSE {Len(ledger) + k : k \in 1..Size}

------------------------------------------------------------------------------
(* What a gate checks *)

StatusesAre(ids, status) == \A i \in ids : ledger[i].status = status

(* The blocks of the audited units read as they did, whatever their status. *)
AuditIsCurrent(c) ==
    \A i \in c.ids :
        \A k \in DOMAIN c.seen \cup DOMAIN ledger :
            (k \in DOMAIN c.seen /\ c.seen[k].unit = c.seen[i].unit) =>
                /\ k \in DOMAIN ledger
                /\ [ledger[k] EXCEPT !.status = "any"] = [c.seen[k] EXCEPT !.status = "any"]

Reviews == {r \in receipts : r.gate = "review"}

Unreviewed(content, ids) == Changed(content, ids, LAMBDA b : [b EXCEPT !.status = "unreviewed"])

(* Links lead from one ledger to the target, if at each ledger on the way   *)
(* one link that is not used yet fits and no other does.                   *)
Leads(start, target, links) ==
    \E n \in 0..Cardinality(links) : \E path \in [1..n -> links] :
        LET at(k) == IF k = 0 THEN start ELSE path[k].to
            Unused(k) == links \ {path[j] : j \in 1..(k - 1)}
        IN  /\ \A k \in 1..n : {l \in Unused(k) : l.from = at(k - 1)} = {path[k]}
            /\ at(n) = target

(* A receipt leads from the ledger it made back to the one it was made of, *)
(* if its decision can be taken back.                                      *)
Back(found) ==
    {[by |-> r.name, from |-> r.after, to |-> r.before] :
        r \in {q \in found : Unreviewed(q.after, q.ids) = q.before}}

(* Mutant: drift of the ledger is not followed back. *)
ChainedAny(now, target, ids) == TRUE

(* Mutant: only the reviews that accepted are followed. *)
ChainedAccepted(now, target, ids) ==
    Leads(now, target, Back({r \in Reviews : r.ids \cap ids = {} /\ r.decision = "accepted"}))

(* verifyCommentaryBlockReviewChain: block reviews of other ids, taken back *)
(* one by one, lead from the ledger that is there now to the target.        *)
Chained(now, target, ids) ==
    Leads(now, target, Back({r \in Reviews : r.ids \cap ids = {}}))

(* verifyUnrelatedSubmissionChain: later rewritings of other blocks. *)
Succeeded(start, target, ids) ==
    Leads(start, target, {[by |-> s.ord, from |-> s.before, to |-> s.after] :
        s \in {t \in submissions : t.gate \in Rewriting /\ t.ids \cap ids = {}}})

(* reverseUnrelatedRewriteAcceptanceReceipts: acceptances of other blocks. *)
AcceptedSince(target, ids) ==
    Leads(ledger, target,
          Back({r \in receipts : r.gate = "acceptance" /\ r.ids \cap ids = {}}))

(* reverseRejectedUnacceptedIds: rejections of these blocks. *)
RejectedSince(target, ids) ==
    Leads(ledger, target, Back({r \in Reviews : r.decision = "rejected" /\ r.ids \subseteq ids}))

(* The submission that an acceptance names: still there, and a rewriting. *)
SubmissionFor(c, s) == s \in submissions /\ s.gate \in Rewriting /\ s.ord = c.target

(* loadBlockRejectionReceipt: a review rejected a whole submission. *)
RejectedWhole(c, s, r) ==
    /\ r.gate = "review" /\ r.decision = "rejected" /\ r.ids = s.ids
    /\ c.ids \subseteq s.ids
    /\ Succeeded(s.after, r.before, s.ids)
    /\ AcceptedSince(r.after, s.ids)
    /\ StatusesAre(c.ids, "rejected")

(* loadAcceptanceReceipt: an acceptance left the blocks out, and if one of  *)
(* them was rejected since then all of them were.                           *)
LeftOut(c, s, r) ==
    LET left == s.ids \ r.ids
        rejected == {i \in left : ledger[i].status = "rejected"}
        asLeft == Unreviewed(ledger, rejected)
        asSubmitted == Unreviewed(asLeft, r.ids)
    IN  /\ r.gate = "acceptance" /\ r.target = s.ord
        /\ c.ids \subseteq left
        /\ rejected = left \/ StatusesAre(left, "unreviewed")
        /\ RejectedSince(asLeft, rejected)
        /\ StatusesAre(r.ids, "accepted")
        /\ Chained(asSubmitted, r.before, s.ids)
        /\ Chained(asSubmitted, s.after, r.ids)

(* What a rewriting wrote and a review then did not accept. *)
NotAccepted(c) ==
    \E s \in submissions, r \in receipts :
        /\ SubmissionFor(c, s) /\ r.name = c.review
        /\ RejectedWhole(c, s, r) \/ LeftOut(c, s, r)

(* An acceptance takes a part of a rewriting, as it was submitted. *)
AcceptsPart(c) ==
    /\ StatusesAre(c.ids, "unreviewed") /\ c.decision = "accepted"
    /\ \E s \in submissions :
        SubmissionFor(c, s) /\ c.ids \subseteq s.ids /\ Chained(ledger, s.after, c.ids)

AcceptsDecision(c) ==
    CASE c.gate = "review" -> StatusesAre(c.ids, "unreviewed")
      [] c.gate = "reconsider" -> StatusesAre(c.ids, "rejected") /\ c.decision = "accepted"
      [] OTHER -> AcceptsPart(c)

(* A remediation takes accepted blocks, and leaves one of them accepted. *)
AcceptsRemediation(c) ==
    /\ StatusesAre(c.ids, "accepted")
    /\ \E i \in DOMAIN ledger : Prospective(c)[i].status = "accepted"

(* The name of the command's receipt: that of an acceptance is made of the *)
(* submission, any other of the decision, the ids and the ledger.          *)
ReceiptName(c, before) ==
    IF c.gate = "acceptance" THEN <<c.gate, c.target>>
    ELSE <<c.gate, c.decision, c.ids, before>>

ReceiptExists(c) ==
    \E r \in receipts : r.name = ReceiptName(c, c.seen)

(* A review names its receipt after the ledger it saw; an acceptance, a    *)
(* repair and a remediation are bound to that ledger outright.             *)
Accepts(c) ==
    /\ c.ids \subseteq DOMAIN ledger
    /\ CASE c.gate = "draft" -> TRUE
         [] c.gate = "rewrite" -> AuditIsCurrent(c)
         [] c.gate = "repair" -> ledger = c.seen /\ StatusesAre(c.ids, "accepted")
         [] c.gate = "mend" -> ledger = c.seen /\ NotAccepted(c)
         [] c.gate \in Deciding ->
                ledger = c.seen /\ ~ReceiptExists(c) /\ AcceptsDecision(c)
         [] OTHER -> ledger = c.seen /\ ~ReceiptExists(c) /\ AcceptsRemediation(c)

------------------------------------------------------------------------------
(* The order of a gate's writes *)

(* Mutant: gates lock labels of their own. *)
ScopeOfLabel(gate) == {gate}

Scope(gate) ==
    IF gate \in {"review", "reconsider"} THEN {"ledger", "receipt"}
    ELSE IF gate \in {"acceptance", "mend"} THEN {"receipt", "ledger", "submissions"}
    ELSE {"ledger", "submissions"}

(* Mutant: the ledger is written before the receipt of the decision. *)
PlanLedgerFirst(gate) ==
    CASE gate \in Deciding -> <<"ledger", "receipt", "leave">>
      [] gate \in Remediating -> <<"ledger", "number", "record", "receipt", "reread", "leave">>
      [] OTHER -> <<"ledger", "number", "record", "leave">>

Plan(gate) ==
    CASE gate \in Deciding -> <<"receipt", "ledger", "leave">>
      [] gate \in Remediating -> <<"ledger", "number", "record", "receipt", "reread", "leave">>
      [] OTHER -> <<"ledger", "number", "record", "leave">>

(* Mutant: a decision whose ledger cannot be written leaves its receipt. *)
UndoButReceipt(gate, step) ==
    CASE gate \in {"repair", "mend"} /\ step # "ledger" -> <<"restoreLedger", "leave">>
      [] gate \in Remediating -> <<"dropReceipt", "dropRecord", "restoreLedger", "leave">>
      [] OTHER -> <<"leave">>

(* What a gate takes back when a step fails: an import nothing. *)
Undo(gate, step) ==
    CASE gate \in {"repair", "mend"} /\ step # "ledger" -> <<"restoreLedger", "leave">>
      [] gate \in Deciding /\ step = "ledger" -> <<"dropReceipt", "leave">>
      [] gate \in Remediating -> <<"dropReceipt", "dropRecord", "restoreLedger", "leave">>
      [] OTHER -> <<"leave">>

------------------------------------------------------------------------------
(* The steps of a gate *)

At(p, step) == op[p] # Idle /\ Head(op[p].todo) = step

Advance(p) == op' = [op EXCEPT ![p].todo = Tail(@)]

(* An operator prepares a command from what the repository holds.  One that *)
(* the gate would refuse at once changes nothing, and is left out.          *)
Begin(p, c) ==
    /\ op[p] = Idle
    /\ commands < MaxCommands
    /\ Accepts(c)
    /\ commands' = commands + 1
    /\ op' = [op EXCEPT ![p] = [cmd |-> c, todo |-> <<"enter", "prepare">>, ord |-> 0,
                                next |-> <<>>, opened |-> <<>>, failed |-> FALSE]]
    /\ UNCHANGED <<files, inside, crashes, history>>

Enter(p) ==
    /\ At(p, "enter")
    /\ Locks!Enter(p, Scope(op[p].cmd.gate))
    /\ Advance(p)
    /\ UNCHANGED <<files, commands, crashes, history>>

(* The preview is built inside the lock, or the command is refused. *)
Prepare(p) ==
    /\ At(p, "prepare")
    /\ LET c == op[p].cmd IN
        op' = [op EXCEPT ![p] =
            IF Accepts(c)
            THEN [@ EXCEPT !.todo = Plan(c.gate), !.opened = files,
                           !.next = Prospective(c), !.cmd.ids = AppliedIds(c)]
            ELSE [@ EXCEPT !.todo = <<"leave">>]]
    /\ UNCHANGED <<files, inside, commands, crashes, history>>

(* The wordings that differ between two contents of the ledger. *)
Wordings(content, ids) == {<<i, content[i].body>> : i \in ids \cap DOMAIN content}

(* rename of the prospective ledger; a replayed draft writes nothing. *)
WriteLedger(p) ==
    /\ At(p, "ledger")
    /\ LET o == op[p] IN
        /\ ledger' = o.next
        /\ replaced' = IF o.cmd.gate \in Rewriting
                       THEN replaced \cup Wordings(o.opened[1], o.cmd.ids) ELSE replaced
        /\ trail' = IF o.next = o.opened[1] THEN trail
                    ELSE Append(trail, [gate |-> o.cmd.gate, ids |-> o.cmd.ids])
    /\ Advance(p)
    /\ UNCHANGED <<submissions, receipts, inside, commands, crashes>>

(* nextOrdinal: the largest number in the directory and one. *)
TakeNumber(p) ==
    /\ At(p, "number")
    /\ \E n \in 1..(Cardinality(submissions) + MaxCommands) :
        /\ \A s \in submissions : s.ord < n
        /\ n = 1 \/ \E s \in submissions : s.ord = n - 1
        /\ op' = [op EXCEPT ![p].todo = Tail(@), ![p].ord = n]
    /\ UNCHANGED <<files, inside, commands, crashes, history>>

(* Mutant: the superseded blocks are read after the ledger is written. *)
SupersededLate(o) == IF o.cmd.gate \in Rewriting THEN Wordings(o.next, o.cmd.ids) ELSE {}

(* commentarySupersededBlocks, of the ledger before the write. *)
Superseded(o) == IF o.cmd.gate \in Rewriting THEN Wordings(o.opened[1], o.cmd.ids) ELSE {}

WriteRecord(p) ==
    /\ At(p, "record")
    /\ LET o == op[p] IN
        submissions' = submissions \cup
            {[ord |-> o.ord, gate |-> o.cmd.gate, unit |-> o.cmd.unit, ids |-> o.cmd.ids,
              before |-> o.opened[1], after |-> o.next, superseded |-> Superseded(o),
              target |-> o.cmd.target, at |-> Len(trail)]}
    /\ Advance(p)
    /\ UNCHANGED <<ledger, receipts, inside, commands, crashes, history>>

WriteReceipt(p) ==
    /\ At(p, "receipt")
    /\ LET o == op[p]
           c == o.cmd
       IN  receipts' = receipts \cup
            {[name |-> ReceiptName(c, o.opened[1]), gate |-> c.gate, ids |-> c.ids,
              decision |-> c.decision, before |-> o.opened[1], after |-> o.next,
              target |-> c.target, at |-> Len(trail)]}
    /\ Advance(p)
    /\ UNCHANGED <<ledger, submissions, inside, commands, crashes, history>>

(* A remediation reads its record once more. *)
Reread(p) ==
    /\ At(p, "reread")
    /\ Advance(p)
    /\ UNCHANGED <<files, inside, commands, crashes, history>>

Leave(p) ==
    /\ At(p, "leave")
    /\ Locks!Leave(p)
    /\ op' = [op EXCEPT ![p] = Idle]
    /\ UNCHANGED <<files, commands, crashes, history>>

------------------------------------------------------------------------------
(* Faults and crashes *)

(* One call of a gate fails; what takes its work back does not fail too. *)
Fail(p) ==
    /\ op[p] # Idle
    /\ ~op[p].failed
    /\ op[p].cmd.gate \in Failing
    /\ Head(op[p].todo) \in {"ledger", "number", "record", "receipt", "reread"}
    /\ op' = [op EXCEPT ![p].failed = TRUE,
                        ![p].todo = Undo(op[p].cmd.gate, Head(op[p].todo))]
    /\ UNCHANGED <<files, inside, commands, crashes, history>>

DropReceipt(p) ==
    /\ At(p, "dropReceipt")
    /\ LET name == ReceiptName(op[p].cmd, op[p].opened[1]) IN
        receipts' = {r \in receipts : r.name # name}
    /\ Advance(p)
    /\ UNCHANGED <<ledger, submissions, inside, commands, crashes, history>>

(* The record is removed if its path is known, that is if it was written. *)
DropRecord(p) ==
    /\ At(p, "dropRecord")
    /\ submissions' = {s \in submissions : s.ord # op[p].ord}
    /\ Advance(p)
    /\ UNCHANGED <<ledger, receipts, inside, commands, crashes, history>>

RestoreLedger(p) ==
    /\ At(p, "restoreLedger")
    /\ ledger' = op[p].opened[1]
    /\ trail' = IF ledger = ledger' THEN trail ELSE SubSeq(trail, 1, Len(trail) - 1)
    /\ Advance(p)
    /\ UNCHANGED <<submissions, receipts, inside, commands, crashes, replaced>>

(* The process dies; its lock is freed when it is old enough. *)
Die(p) ==
    /\ op[p] # Idle
    /\ op[p].cmd.gate \in Dying
    /\ crashes < MaxCrashes
    /\ crashes' = crashes + 1
    /\ Locks!Leave(p)
    /\ op' = [op EXCEPT ![p] = Idle]
    /\ UNCHANGED <<files, commands, history>>

------------------------------------------------------------------------------
Init ==
    /\ \E start \in Starts :
        /\ ledger = start.ledger /\ submissions = start.submissions
        /\ replaced = start.replaced /\ trail = start.trail
        /\ commands = start.commands
    /\ receipts = {}
    /\ Locks!Init
    /\ op = [p \in Procs |-> Idle]
    /\ crashes = 0

(* A command names what it works on and is bound to the ledger of its time. *)
Command(gate, unit, ids, decision, target) ==
    [gate |-> gate, unit |-> unit, ids |-> ids, decision |-> decision,
     target |-> target, review |-> <<>>, seen |-> ledger, body |-> commands + 1]

NonEmpty == (SUBSET DOMAIN ledger) \ {{}}

Start(p) ==
    \/ \E d \in Drafts : Begin(p, Command("draft", d, {}, "unreviewed", 0))
    \/ \E ids \in NonEmpty, gate \in {"rewrite", "repair", "reanchor"} :
        Begin(p, Command(gate, "none", ids, "unreviewed", 0))
    \/ \E ids \in NonEmpty, decision \in {"accepted", "rejected"} :
        Begin(p, Command("review", "none", ids, decision, 0))
    \/ \E ids \in NonEmpty :
        \/ Begin(p, Command("reconsider", "none", ids, "accepted", 0))
        \/ Begin(p, Command("remove", "none", ids, "rejected", 0))
        \/ \E s \in submissions :
            Begin(p, Command("acceptance", "none", ids, "accepted", s.ord))
        \/ \E s \in submissions, r \in receipts :
            Begin(p, [Command("mend", "none", ids, "unreviewed", s.ord)
                        EXCEPT !.review = r.name])

Proceed(p) ==
    \/ Enter(p) \/ Prepare(p) \/ Leave(p)
    \/ WriteLedger(p) \/ TakeNumber(p) \/ WriteRecord(p) \/ WriteReceipt(p) \/ Reread(p)
    \/ DropReceipt(p) \/ DropRecord(p) \/ RestoreLedger(p)

Next == \E p \in Procs : Start(p) \/ Proceed(p) \/ Fail(p) \/ Die(p)

Spec == Init /\ [][Next]_vars

------------------------------------------------------------------------------
(* Properties *)

(* Every variable has its type. *)
TypeOK ==
    /\ ledger \in Seq(Block)
    /\ \A s \in submissions :
        /\ s.ord \in Nat \ {0} /\ s.gate \in Gates /\ s.ids \subseteq DOMAIN s.after
        /\ s.before \in Seq(Block) /\ s.after \in Seq(Block)
    /\ \A r \in receipts :
        /\ r.gate \in Deciding \cup Remediating /\ r.decision \in Statuses
        /\ r.before \in Seq(Block) /\ r.after \in Seq(Block) /\ r.ids \subseteq DOMAIN r.before
    /\ Locks!TypeOK
    /\ commands \in 0..MaxCommands
    /\ crashes \in 0..MaxCrashes

Quiet == \A p \in Procs : inside[p] = {}

(* No two submissions of a dialogue get one number, although different      *)
(* gates take the numbers (recordSubmission: "so ordinals cannot collide"). *)
UniqueOrdinals ==
    \A s, t \in submissions : s.ord = t.ord => s = t

(* Whatever a rewrite or a repair replaced is not lost: the wording is back *)
(* in the ledger, or kept with a submission (commentarySupersededBlocks).   *)
SupersededIsKept ==
    Quiet => \A w \in replaced :
        \/ w \in Wordings(ledger, DOMAIN ledger)
        \/ \E s \in submissions : w \in s.superseded

(* No block changes its review status without a receipt: an accepted or     *)
(* rejected block has a receipt of that decision, bound to a ledger with    *)
(* this very wording (README: the gates change statuses, with receipts).    *)
DecisionsHaveReceipts ==
    Quiet => \A i \in DOMAIN ledger : ledger[i].status # "unreviewed" =>
        \E r \in receipts :
            i \in r.ids /\ r.decision = ledger[i].status /\ r.before[i].body = ledger[i].body

(* An acceptance accepts, and a repair of a rewrite replaces, the wordings  *)
(* that the submission it names has written, and no later ones, however the *)
(* ledger went on in between.                                               *)
DecisionsMatchSubmission ==
    /\ \A r \in receipts : r.gate = "acceptance" =>
        \E s \in submissions :
            /\ s.ord = r.target
            /\ \A i \in r.ids : i \in s.ids /\ r.before[i].body = s.after[i].body
    /\ \A m \in submissions : m.gate = "mend" =>
        \E s \in submissions :
            /\ s.ord = m.target
            /\ \A i \in m.ids : i \in s.ids /\ m.before[i].body = s.after[i].body

(* Three kinds of work on other blocks do not stand in the way of a         *)
(* rewriting, as long as no process died: block reviews not in that of its  *)
(* acceptance ("a later exceptional block review may have changed unrelated *)
(* IDs"); rewritings before its rejection and acceptances after it not in   *)
(* that of its repair ("bridges an unrelated rewrite acceptance").  Nothing *)
(* is claimed of other kinds, and some do (README, Findings).               *)
OnlyOthers(first, last, gates, ids) ==
    \A k \in DOMAIN trail \cap first..last : trail[k].gate \in gates /\ trail[k].ids \cap ids = {}

NextStepIsNotBlocked ==
    Quiet /\ crashes = 0 => \A s \in submissions : s.gate \in Rewriting =>
        /\ \A i \in s.ids :
            OnlyOthers(s.at + 1, Len(trail), {"review"}, {i}) => Chained(ledger, s.after, {i})
        /\ \A r \in receipts :
            /\ r.gate = "review" /\ r.decision = "rejected" /\ r.ids = s.ids
            /\ OnlyOthers(s.at + 1, r.at, Rewriting, s.ids)
            /\ OnlyOthers(r.at + 2, Len(trail), {"acceptance"}, s.ids)
            => Succeeded(s.after, r.before, s.ids) /\ AcceptedSince(r.after, s.ids)

(* A repair, a decision or a remediation of which a step failed has changed *)
(* nothing when it gives back the lock.                                     *)
FailuresLeaveNoTrace ==
    [][\A p \in Procs :
        Leave(p) /\ op[p].failed /\ op[p].cmd.gate \notin {"draft", "rewrite"}
            => files = op[p].opened]_vars

(* A draft's blocks are in the ledger once or not at all, also when its     *)
(* import failed half way and is run again (replay by the import marker).   *)
DraftsImportedOnce ==
    \A d \in Drafts :
        Cardinality({i \in DOMAIN ledger : ledger[i].unit = d}) \in {0, Size}
==============================================================================
