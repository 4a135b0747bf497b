----------------------- MODULE CommentaryGatesProofs -----------------------
(***************************************************************************)
(* Proofs about CommentaryGates for any processes, drafts, starts, faults  *)
(* and numbers of commands.                                                *)
(***************************************************************************)
EXTENDS CommentaryGates, Integers, FiniteSetTheorems, WellFoundedInduction,
        TLAPS

(* No process dies but one that runs a review, a reconsideration or an      *)
(* acceptance.                                                              *)
DecisionsDie == Dying \subseteq Deciding

(* No rewriting stops half way: no rewrite import fails, which takes nothing *)
(* back, and no process dies in a rewriting.                                *)
RewritingsEnd == "rewrite" \notin Failing /\ Dying \subseteq Deciding

------------------------------------------------------------------------------
(* The inductive invariant *)

(* The fields of a command and of its execution. *)
IsCommand(c) ==
    /\ c = [gate |-> c.gate, unit |-> c.unit, ids |-> c.ids, decision |-> c.decision,
            target |-> c.target, review |-> c.review, seen |-> c.seen, body |-> c.body]
    /\ c.gate \in Gates
    /\ c.gate = "draft" => c.unit \in Drafts
    /\ c.decision \in Statuses
    /\ c.body \in 0..MaxCommands
    /\ c.gate = "remove" => c.decision = "rejected"

IsOperation(o) ==
    /\ o = [cmd |-> o.cmd, todo |-> o.todo, ord |-> o.ord, next |-> o.next,
            opened |-> o.opened, failed |-> o.failed]
    /\ IsCommand(o.cmd)
    /\ o.todo # <<>>
    /\ o.failed \in BOOLEAN
    /\ o.failed => o.cmd.gate \in Failing
    /\ o.todo \in {<<"enter", "prepare">>, <<"prepare">>} => o.opened = <<>>
    /\ o.opened = <<>> =>
        /\ o.ord = 0 /\ ~o.failed
        /\ o.todo \in {<<"enter", "prepare">>, <<"prepare">>, <<"leave">>}

Outside(o) == o = Idle \/ o.todo = <<"enter", "prepare">>

(* The preview is done, and the writes have begun or are about to. *)
Working(o) == o # Idle /\ o.opened # <<>>

(* A process is in the section of its gate, and nobody else is in one. *)
Sections ==
    /\ op = [p \in Procs |-> op[p]]
    /\ \A p \in Procs :
        /\ op[p] = Idle \/ IsOperation(op[p])
        /\ inside[p] = IF Outside(op[p]) THEN {} ELSE Scope(op[p].cmd.gate)
    /\ \A p, q \in Procs : p = q \/ inside[p] = {} \/ inside[q] = {}

RecordsTyped(records) ==
    \A s \in records :
        /\ s.ord \in Nat \ {0} /\ s.gate \in Gates /\ s.ids \subseteq DOMAIN s.after
        /\ s.before \in Seq(Block) /\ s.after \in Seq(Block)

ReceiptsTyped(found) ==
    \A r \in found :
        /\ r.gate \in Deciding \cup Remediating /\ r.decision \in Statuses
        /\ r.before \in Seq(Block) /\ r.after \in Seq(Block) /\ r.ids \subseteq DOMAIN r.before

Numbered(records) == \A s, t \in records : s.ord = t.ord => s = t

(* What a preview says of the ledger that it was made of. *)
Planned(o) ==
    LET old == o.opened[1]
        c == o.cmd
    IN  /\ o.opened = <<old, o.opened[2], o.opened[3]>>
        /\ old \in Seq(Block) /\ o.next \in Seq(Block)
        /\ RecordsTyped(o.opened[2]) /\ ReceiptsTyped(o.opened[3])
        /\ Numbered(o.opened[2])
        /\ c.ids \subseteq DOMAIN o.next
        /\ c.gate # "draft" => c.ids \subseteq DOMAIN old
        /\ DOMAIN old \subseteq DOMAIN o.next
        /\ \A i \in DOMAIN old :
            o.next[i].body # old[i].body => c.gate \in Rewriting /\ i \in c.ids
        /\ \A i \in DOMAIN o.next : o.next[i].status # "unreviewed" =>
            /\ i \in DOMAIN old /\ o.next[i].body = old[i].body
            /\ \/ o.next[i].status = old[i].status
               \/ /\ c.gate \in Deciding \cup Remediating
                  /\ i \in c.ids /\ o.next[i].status = c.decision
        /\ c.gate \in Deciding \cup Remediating =>
            \A r \in o.opened[3] : r.name # ReceiptName(c, old)

(* The record and the receipt that the gate adds. *)
Recorded(o, records) ==
    \E s \in records :
           /\ records = o.opened[2] \cup {s}
           /\ s.ord = o.ord /\ s.gate = o.cmd.gate /\ s.ids = o.cmd.ids
           /\ s.before = o.opened[1] /\ s.after = o.next /\ s.superseded = Superseded(o)
           /\ s.target = o.cmd.target

Receipted(o, found) ==
    \E r \in found :
           /\ found = o.opened[3] \cup {r}
           /\ r.name = ReceiptName(o.cmd, o.opened[1])
           /\ r.gate = o.cmd.gate /\ r.ids = o.cmd.ids /\ r.decision = o.cmd.decision
           /\ r.before = o.opened[1] /\ r.after = o.next /\ r.target = o.cmd.target

(* What the files are, given what the gate has left to do. *)
DecisionProgress(o, content, found) ==
    \/ /\ ~o.failed
       /\ \/ /\ o.todo = <<"receipt", "ledger", "leave">>
             /\ content = o.opened[1] /\ found = o.opened[3]
          \/ o.todo = <<"ledger", "leave">> /\ content = o.opened[1] /\ Receipted(o, found)
          \/ o.todo = <<"leave">> /\ content = o.next /\ Receipted(o, found)
    \/ /\ o.failed
       /\ content = o.opened[1]
       /\ \/ o.todo = <<"dropReceipt", "leave">> /\ Receipted(o, found)
          \/ o.todo = <<"leave">> /\ found = o.opened[3]

NumberTaken(o) == o.ord \in Nat \ {0} /\ \A s \in o.opened[2] : s.ord < o.ord

ImportProgress(o, content, records) ==
    \/ /\ ~o.failed
       /\ \/ /\ o.todo = <<"ledger", "number", "record", "leave">>
             /\ content = o.opened[1] /\ records = o.opened[2]
          \/ /\ o.todo = <<"number", "record", "leave">>
             /\ content = o.next /\ records = o.opened[2]
          \/ /\ o.todo = <<"record", "leave">>
             /\ content = o.next /\ records = o.opened[2] /\ NumberTaken(o)
          \/ /\ o.todo = <<"leave">>
             /\ content = o.next /\ Recorded(o, records) /\ NumberTaken(o)
    \/ /\ o.failed
       /\ records = o.opened[2]
       /\ \/ /\ o.todo = <<"restoreLedger", "leave">> /\ o.cmd.gate \in {"repair", "mend"}
             /\ content = o.next
          \/ /\ o.todo = <<"leave">>
             /\ \/ content = o.opened[1]
                \/ content = o.next /\ o.cmd.gate \in {"draft", "rewrite"}

RemediationProgress(o, content, records, found) ==
    \/ /\ ~o.failed
       /\ \/ /\ o.todo = <<"ledger", "number", "record", "receipt", "reread", "leave">>
             /\ o.ord = 0
             /\ content = o.opened[1] /\ records = o.opened[2] /\ found = o.opened[3]
          \/ /\ o.todo = <<"number", "record", "receipt", "reread", "leave">>
             /\ o.ord = 0
             /\ content = o.next /\ records = o.opened[2] /\ found = o.opened[3]
          \/ /\ o.todo = <<"record", "receipt", "reread", "leave">>
             /\ NumberTaken(o)
             /\ content = o.next /\ records = o.opened[2] /\ found = o.opened[3]
          \/ /\ o.todo = <<"receipt", "reread", "leave">>
             /\ NumberTaken(o)
             /\ content = o.next /\ Recorded(o, records) /\ found = o.opened[3]
          \/ /\ o.todo \in {<<"reread", "leave">>, <<"leave">>}
             /\ NumberTaken(o)
             /\ content = o.next /\ Recorded(o, records) /\ Receipted(o, found)
    \/ /\ o.failed
       /\ (o.ord = 0 /\ records = o.opened[2]) \/ NumberTaken(o)
       /\ content \in {o.opened[1], o.next}
       /\ records = o.opened[2] \/ Recorded(o, records)
       /\ found = o.opened[3] \/ Receipted(o, found)
       /\ \/ o.todo = <<"dropReceipt", "dropRecord", "restoreLedger", "leave">>
          \/ /\ o.todo = <<"dropRecord", "restoreLedger", "leave">>
             /\ found = o.opened[3]
          \/ /\ o.todo = <<"restoreLedger", "leave">>
             /\ found = o.opened[3] /\ records = o.opened[2]
          \/ /\ o.todo = <<"leave">>
             /\ found = o.opened[3] /\ records = o.opened[2] /\ content = o.opened[1]

Progress(o, content, records, found) ==
    \/ /\ o.cmd.gate \in Deciding
       /\ records = o.opened[2] /\ DecisionProgress(o, content, found)
    \/ /\ o.cmd.gate \in Rewriting \cup {"draft"}
       /\ found = o.opened[3] /\ ImportProgress(o, content, records)
    \/ /\ o.cmd.gate \in Remediating
       /\ RemediationProgress(o, content, records, found)

(* A gate does what its preview says, step by step. *)
WorkIsPlanned ==
    \A p \in Procs : Working(op[p]) =>
        Planned(op[p]) /\ Progress(op[p], ledger, submissions, receipts)

(* Decided blocks have receipts, and replaced wordings are kept, whenever  *)
(* no gate is at work, and before the gate that is.                        *)
Supported(content, found) ==
    \A i \in DOMAIN content : content[i].status # "unreviewed" =>
        \E r \in found :
            i \in r.ids /\ r.decision = content[i].status /\ r.before[i].body = content[i].body

Kept(content, records, gone) ==
    \A w \in gone :
        w \in Wordings(content, DOMAIN content) \/ \E s \in records : w \in s.superseded

Settled == \A p \in Procs : ~Working(op[p])

AllSupported ==
    DecisionsDie =>
        /\ Settled => Supported(ledger, receipts)
        /\ \A p \in Procs :
            Working(op[p]) => Supported(op[p].opened[1], op[p].opened[3])

AllKept ==
    RewritingsEnd =>
        /\ Settled => Kept(ledger, submissions, replaced)
        /\ \A p \in Procs : Working(op[p]) => Kept(op[p].opened[1], op[p].opened[2], replaced)

IInv ==
    TypeOK /\ Sections /\ UniqueOrdinals /\ WorkIsPlanned /\ AllSupported /\ AllKept

------------------------------------------------------------------------------
(* Lemmas about the operators *)

(* Every gate locks the ledger. *)
LEMMA LedgerIsLocked ==
    ASSUME NEW gate \in Gates
    PROVE  /\ Scope(gate) \subseteq {"ledger", "submissions", "receipt"}
           /\ "ledger" \in Scope(gate)
BY DEF Scope, Gates

(* A finite function into a set is a sequence over it. *)
LEMMA FunctionIsSequence ==
    ASSUME NEW S, NEW n \in Nat, NEW f, f = [i \in 1..n |-> f[i]],
           \A i \in 1..n : f[i] \in S
    PROVE  f \in Seq(S) /\ Len(f) = n /\ DOMAIN f = 1..n
<1>1. f \in [1..n -> S]
  OBVIOUS
<1> QED BY <1>1

(* A gate that has only to leave has nothing else to do. *)
LEMMA NothingElse ==
    /\ <<"reread", "leave">> # <<"leave">>
    /\ <<"receipt", "reread", "leave">> # <<"leave">>
    /\ <<"record", "receipt", "reread", "leave">> # <<"leave">>
    /\ <<"number", "record", "receipt", "reread", "leave">> # <<"leave">>
    /\ <<"ledger", "number", "record", "receipt", "reread", "leave">> # <<"leave">>
    /\ <<"restoreLedger", "leave">> # <<"leave">>
    /\ <<"dropRecord", "restoreLedger", "leave">> # <<"leave">>
    /\ <<"dropReceipt", "dropRecord", "restoreLedger", "leave">> # <<"leave">>
OBVIOUS

(* What an import or a repair leaves behind is all of its work or nothing, *)
(* unless it is an import that failed.                                     *)
LEMMA ImportEnds ==
    ASSUME NEW o, NEW content, NEW records,
           ImportProgress(o, content, records), o.todo = <<"leave">>
    PROVE  \/ ~o.failed /\ content = o.next /\ Recorded(o, records)
           \/ o.failed /\ content = o.opened[1] /\ records = o.opened[2]
           \/ /\ o.failed /\ o.cmd.gate \in {"draft", "rewrite"}
              /\ content = o.next /\ records = o.opened[2]
<1>1. /\ <<"number", "record", "leave">> # <<"leave">>
      /\ <<"record", "leave">> # <<"leave">>
      /\ <<"ledger", "number", "record", "leave">> # <<"leave">>
  OBVIOUS
<1> QED BY <1>1, NothingElse DEF ImportProgress

(* What a remediation leaves behind is all of its work or nothing. *)
LEMMA RemediationEnds ==
    ASSUME NEW o, NEW content, NEW records, NEW found,
           RemediationProgress(o, content, records, found), o.todo = <<"leave">>
    PROVE  \/ ~o.failed /\ content = o.next /\ Recorded(o, records) /\ Receipted(o, found)
           \/ /\ o.failed /\ content = o.opened[1]
              /\ records = o.opened[2] /\ found = o.opened[3]
BY NothingElse DEF RemediationProgress

(* What the files are at any time of the work of a gate has its type. *)
LEMMA ProgressIsTyped ==
    ASSUME NEW o, NEW content, NEW records, NEW found,
           IsOperation(o), Planned(o), Progress(o, content, records, found)
    PROVE  /\ content \in Seq(Block)
           /\ RecordsTyped(records) /\ Numbered(records)
           /\ ReceiptsTyped(found)
<1>1. content \in Seq(Block)
  <2>1. content \in {o.opened[1], o.next}
    BY DEF Progress, DecisionProgress, ImportProgress, RemediationProgress
  <2> QED BY <2>1 DEF Planned
<1>2. RecordsTyped(records) /\ Numbered(records)
  <2>1. records = o.opened[2] \/ (Recorded(o, records) /\ NumberTaken(o))
    BY DEF Progress, DecisionProgress, ImportProgress, RemediationProgress
  <2>2. CASE records = o.opened[2]
    BY <2>2 DEF Planned
  <2>3. CASE Recorded(o, records) /\ NumberTaken(o)
    <3>1. PICK s \in records :
            /\ records = o.opened[2] \cup {s}
            /\ s.ord = o.ord /\ s.gate = o.cmd.gate /\ s.ids = o.cmd.ids
            /\ s.before = o.opened[1] /\ s.after = o.next
      BY <2>3 DEF Recorded
    <3>2. RecordsTyped(records)
      BY <2>3, <3>1 DEF RecordsTyped, Planned, NumberTaken, IsOperation, IsCommand
    <3>3. \A t \in o.opened[2] : t.ord \in Nat /\ t.ord < s.ord
      BY <2>3, <3>1 DEF NumberTaken, Planned, RecordsTyped
    <3>4. \A t \in o.opened[2] : t.ord # s.ord
      BY <3>3
    <3>5. Numbered(records)
      BY <3>1, <3>4 DEF Numbered, Planned
    <3> QED BY <3>2, <3>5
  <2> QED BY <2>1, <2>2, <2>3
<1>3. ReceiptsTyped(found)
  <2>1. found = o.opened[3] \/ (Receipted(o, found) /\ o.cmd.gate \in Deciding \cup Remediating)
    BY DEF Progress, DecisionProgress, ImportProgress, RemediationProgress
  <2>2. CASE found = o.opened[3]
    BY <2>2 DEF Planned
  <2>3. CASE Receipted(o, found) /\ o.cmd.gate \in Deciding \cup Remediating
    BY <2>3 DEF Receipted, ReceiptsTyped, Planned, IsOperation, IsCommand, Deciding, Remediating
  <2> QED BY <2>1, <2>2, <2>3
<1> QED BY <1>1, <1>2, <1>3

(* Where a gate ends, and where a decision dies, decided blocks have       *)
(* receipts if they had them before.                                       *)
LEMMA EndIsSupported ==
    ASSUME NEW o, NEW content, NEW records, NEW found,
           IsOperation(o), Planned(o), Progress(o, content, records, found),
           o.todo = <<"leave">> \/ o.cmd.gate \in Deciding,
           Supported(o.opened[1], o.opened[3])
    PROVE  Supported(content, found)
<1>1. /\ o.opened[3] \subseteq found
      /\ content = o.opened[1] \/ content = o.next
      /\ content = o.next /\ o.cmd.gate \in Deciding \cup Remediating =>
            content = o.opened[1] \/ Receipted(o, found)
  <2>1. CASE o.cmd.gate \in Deciding
    BY <2>1 DEF Progress, DecisionProgress, Receipted, Rewriting, Deciding, Remediating
  <2>2. CASE o.cmd.gate \in Rewriting \cup {"draft"}
    BY <2>2 DEF Progress, ImportProgress, Rewriting, Deciding, Remediating
  <2>3. CASE o.cmd.gate \in Remediating
    BY <2>3, RemediationEnds DEF Progress, Receipted, Rewriting, Deciding, Remediating
  <2> QED BY <2>1, <2>2, <2>3 DEF Progress
<1>2. CASE content = o.opened[1]
  BY <1>1, <1>2 DEF Supported
<1>3. CASE content = o.next /\ content # o.opened[1]
  <2> SUFFICES ASSUME NEW i \in DOMAIN content, content[i].status # "unreviewed"
               PROVE  \E r \in found : /\ i \in r.ids /\ r.decision = content[i].status
                                       /\ r.before[i].body = content[i].body
    BY DEF Supported
  <2>1. i \in DOMAIN o.opened[1] /\ content[i].body = o.opened[1][i].body
    BY <1>3 DEF Planned
  <2>2. CASE content[i].status = o.opened[1][i].status
    BY <1>1, <2>1, <2>2 DEF Supported
  <2>3. CASE /\ o.cmd.gate \in Deciding \cup Remediating
             /\ i \in o.cmd.ids /\ content[i].status = o.cmd.decision
    BY <1>1, <1>3, <2>1, <2>3 DEF Receipted
  <2> QED BY <1>3, <2>2, <2>3 DEF Planned
<1> QED BY <1>1, <1>2, <1>3

(* Where a gate ends, and where a decision dies, replaced wordings are     *)
(* kept if they were before, unless it is a rewrite import that failed.    *)
LEMMA EndKeeps ==
    ASSUME NEW o, NEW content, NEW records, NEW found,
           IsOperation(o), Planned(o), Progress(o, content, records, found),
           o.todo = <<"leave">> \/ o.cmd.gate \in Deciding,
           o.failed => o.cmd.gate # "rewrite",
           NEW gone, Kept(o.opened[1], o.opened[2], gone)
    PROVE  Kept(content, records, gone)
<1>1. /\ o.opened[2] \subseteq records
      /\ content = o.opened[1] \/ content = o.next
      /\ content = o.next /\ o.cmd.gate \in Rewriting =>
            content = o.opened[1] \/ Recorded(o, records)
  <2>1. CASE o.cmd.gate \in Deciding
    BY <2>1 DEF Progress, DecisionProgress, Rewriting, Deciding, Remediating
  <2>2. CASE o.cmd.gate \in Rewriting \cup {"draft"}
    <3>1. ImportProgress(o, content, records) /\ o.todo = <<"leave">>
      BY <2>2 DEF Progress, Rewriting, Deciding, Remediating
    <3>2. \/ content = o.next /\ Recorded(o, records)
          \/ content = o.opened[1] /\ records = o.opened[2]
          \/ o.cmd.gate = "draft" /\ content = o.next /\ records = o.opened[2]
      BY <3>1, ImportEnds
    <3> QED BY <3>2 DEF Recorded, Rewriting
  <2>3. CASE o.cmd.gate \in Remediating
    <3>1. RemediationProgress(o, content, records, found) /\ o.todo = <<"leave">>
      BY <2>3 DEF Progress, Rewriting, Deciding, Remediating
    <3>2. \/ content = o.next /\ Recorded(o, records)
          \/ content = o.opened[1] /\ records = o.opened[2]
      BY <3>1, RemediationEnds
    <3>3. o.cmd.gate \notin Rewriting
      BY <2>3 DEF Rewriting, Remediating
    <3> QED BY <3>2, <3>3 DEF Recorded
  <2> QED BY <2>1, <2>2, <2>3 DEF Progress
<1>2. CASE content = o.opened[1]
  BY <1>1, <1>2 DEF Kept
<1>3. CASE content = o.next /\ content # o.opened[1]
  <2> SUFFICES ASSUME NEW w \in gone
               PROVE  \/ w \in Wordings(content, DOMAIN content)
                      \/ \E s \in records : w \in s.superseded
    BY DEF Kept
  <2>1. CASE \E s \in o.opened[2] : w \in s.superseded
    BY <1>1, <2>1
  <2>2. CASE w \in Wordings(o.opened[1], DOMAIN o.opened[1])
    <3>1. PICK i \in DOMAIN o.opened[1] : w = <<i, o.opened[1][i].body>>
      BY <2>2 DEF Wordings
    <3>2. CASE o.next[i].body = o.opened[1][i].body
      BY <1>3, <3>1, <3>2 DEF Planned, Wordings
    <3>3. CASE o.cmd.gate \in Rewriting /\ i \in o.cmd.ids
      BY <1>1, <1>3, <3>1, <3>3 DEF Recorded, Superseded, Wordings
    <3> QED BY <3>1, <3>2, <3>3 DEF Planned
  <2> QED BY <2>1, <2>2 DEF Kept
<1> QED BY <1>1, <1>2, <1>3

------------------------------------------------------------------------------
(* What a step of one gate does to the others *)

(* While a gate is in its section no other gate is at work. *)
LEMMA OthersWait ==
    ASSUME Sections, NEW p \in Procs, inside[p] # {}, NEW q \in Procs \ {p}
    PROVE  ~Working(op[q])
<1>1. inside[q] = {}
  BY DEF Sections
<1>2. Outside(op[q])
  <2>1. CASE ~Outside(op[q])
    <3>1. IsOperation(op[q])
      BY <2>1 DEF Sections, Outside
    <3>2. inside[q] = Scope(op[q].cmd.gate)
      BY <2>1 DEF Sections
    <3> QED BY <1>1, <3>1, <3>2, LedgerIsLocked DEF IsOperation, IsCommand
  <2> QED BY <2>1
<1>3. op[q] = Idle \/ op[q].opened = <<>>
  BY <1>2 DEF Outside, Sections, IsOperation
<1> QED BY <1>3 DEF Working

(* A gate that has something left to do but to enter is in its section. *)
LEMMA InSection ==
    ASSUME Sections, NEW p \in Procs, ~Outside(op[p])
    PROVE  inside[p] # {} /\ IsOperation(op[p])
<1>1. IsOperation(op[p])
  BY DEF Sections, Outside
<1>2. inside[p] = Scope(op[p].cmd.gate)
  BY DEF Sections
<1> QED BY <1>1, <1>2, LedgerIsLocked DEF IsOperation, IsCommand

(* A gate whose next step is not one of the first three is at work. *)
LEMMA AtWork ==
    ASSUME Sections, NEW p \in Procs, op[p] # Idle,
           Head(op[p].todo) \notin {"enter", "prepare", "leave"}
    PROVE  Working(op[p]) /\ ~Outside(op[p])
<1>1. IsOperation(op[p])
  BY DEF Sections
<1>2. op[p].todo \notin {<<"enter", "prepare">>, <<"prepare">>, <<"leave">>}
  <2>1. /\ Head(<<"enter", "prepare">>) = "enter"
        /\ Head(<<"prepare">>) = "prepare"
        /\ Head(<<"leave">>) = "leave"
    OBVIOUS
  <2> QED BY <2>1
<1> QED BY <1>1, <1>2 DEF IsOperation, Working, Outside

(* An operation of which the progress is known is not outside its section. *)
LEMMA ProgressIsInside ==
    ASSUME NEW o, NEW content, NEW records, NEW found,
           IsOperation(o), o.opened # <<>>
    PROVE  ~Outside(o) /\ Working(o)
<1>1. o # Idle
  BY DEF IsOperation, Idle
<1> QED BY <1>1 DEF IsOperation, Outside, Working

(* A step of a gate at work that keeps to its plan keeps the invariant. *)
LEMMA WorkStep ==
    ASSUME IInv, NEW p \in Procs, Working(op[p]), NEW o, op' = [op EXCEPT ![p] = o],
           IsOperation(o), o.cmd = op[p].cmd, o.next = op[p].next, o.opened = op[p].opened,
           Progress(o, ledger', submissions', receipts'),
           UNCHANGED <<inside, commands, crashes>>,
           replaced' \subseteq replaced \cup Wordings(o.opened[1], DOMAIN o.opened[1])
    PROVE  IInv'
<1> USE DEF IInv
<1>1. Planned(o)
  BY DEF WorkIsPlanned, Planned
<1>2. ~Outside(o) /\ Working(o) /\ o # Idle
  BY ProgressIsInside DEF Working
<1>3. op' = [q \in Procs |-> op'[q]] /\ op'[p] = o /\ \A q \in Procs \ {p} : op'[q] = op[q]
  BY DEF Sections
<1>4. ~Outside(op[p])
  BY DEF Sections, Working, IsOperation, Outside
<1>5. inside[p] # {}
  BY <1>4, InSection
<1>6. \A q \in Procs \ {p} : ~Working(op[q])
  BY <1>5, OthersWait
<1>7. TypeOK' /\ UniqueOrdinals'
  <2>1. /\ ledger' \in Seq(Block)
        /\ RecordsTyped(submissions') /\ Numbered(submissions')
        /\ ReceiptsTyped(receipts')
    BY <1>1, ProgressIsTyped
  <2>2. UniqueOrdinals'
    BY <2>1 DEF UniqueOrdinals, Numbered
  <2>3. TypeOK'
    BY <2>1 DEF TypeOK, RecordsTyped, ReceiptsTyped, Locks!TypeOK
  <2> QED BY <2>2, <2>3
<1>8. Sections'
  BY <1>2, <1>3, <1>4 DEF Sections
<1>9. WorkIsPlanned'
  <2> SUFFICES ASSUME NEW q \in Procs, Working(op'[q])
               PROVE  /\ Planned(op'[q])
                      /\ Progress(op'[q], ledger', submissions', receipts')
    BY DEF WorkIsPlanned
  <2> QED BY <1>1, <1>3, <1>6
<1>10. ~Settled'
  BY <1>2, <1>3 DEF Settled
<1>11. AllSupported'
  BY <1>3, <1>6, <1>10 DEF AllSupported, Supported
<1>12. AllKept'
  <2> SUFFICES ASSUME RewritingsEnd, NEW q \in Procs, Working(op'[q])
               PROVE  Kept(op'[q].opened[1], op'[q].opened[2], replaced')
    BY <1>10 DEF AllKept, RewritingsEnd
  <2>1. q = p
    BY <1>3, <1>6
  <2>2. Kept(o.opened[1], o.opened[2], replaced)
    BY DEF AllKept
  <2>3. Kept(o.opened[1], o.opened[2], replaced')
    BY <2>2 DEF Kept
  <2> QED BY <1>3, <2>1, <2>3
<1> QED BY <1>7, <1>8, <1>9, <1>11, <1>12

------------------------------------------------------------------------------
(* The steps of a gate at work *)

LEMMA Heads ==
    /\ Head(<<"enter", "prepare">>) = "enter"
    /\ Head(<<"prepare">>) = "prepare"
    /\ Head(<<"leave">>) = "leave"
    /\ Head(<<"receipt", "ledger", "leave">>) = "receipt"
    /\ Head(<<"ledger", "leave">>) = "ledger"
    /\ Head(<<"dropReceipt", "leave">>) = "dropReceipt"
    /\ Head(<<"ledger", "number", "record", "leave">>) = "ledger"
    /\ Head(<<"number", "record", "leave">>) = "number"
    /\ Head(<<"record", "leave">>) = "record"
    /\ Head(<<"restoreLedger", "leave">>) = "restoreLedger"
    /\ Head(<<"ledger", "number", "record", "receipt", "reread", "leave">>) = "ledger"
    /\ Head(<<"number", "record", "receipt", "reread", "leave">>) = "number"
    /\ Head(<<"record", "receipt", "reread", "leave">>) = "record"
    /\ Head(<<"receipt", "reread", "leave">>) = "receipt"
    /\ Head(<<"reread", "leave">>) = "reread"
    /\ Head(<<"dropReceipt", "dropRecord", "restoreLedger", "leave">>) = "dropReceipt"
    /\ Head(<<"dropRecord", "restoreLedger", "leave">>) = "dropRecord"
OBVIOUS

LEMMA Tails ==
    /\ Tail(<<"enter", "prepare">>) = <<"prepare">>
    /\ Tail(<<"receipt", "ledger", "leave">>) = <<"ledger", "leave">>
    /\ Tail(<<"ledger", "leave">>) = <<"leave">>
    /\ Tail(<<"dropReceipt", "leave">>) = <<"leave">>
    /\ Tail(<<"ledger", "number", "record", "leave">>) = <<"number", "record", "leave">>
    /\ Tail(<<"number", "record", "leave">>) = <<"record", "leave">>
    /\ Tail(<<"record", "leave">>) = <<"leave">>
    /\ Tail(<<"restoreLedger", "leave">>) = <<"leave">>
    /\ Tail(<<"ledger", "number", "record", "receipt", "reread", "leave">>) = <<"number", "record", "receipt", "reread", "leave">>
    /\ Tail(<<"number", "record", "receipt", "reread", "leave">>) = <<"record", "receipt", "reread", "leave">>
    /\ Tail(<<"record", "receipt", "reread", "leave">>) = <<"receipt", "reread", "leave">>
    /\ Tail(<<"receipt", "reread", "leave">>) = <<"reread", "leave">>
    /\ Tail(<<"reread", "leave">>) = <<"leave">>
    /\ Tail(<<"dropReceipt", "dropRecord", "restoreLedger", "leave">>) = <<"dropRecord", "restoreLedger", "leave">>
    /\ Tail(<<"dropRecord", "restoreLedger", "leave">>) = <<"restoreLedger", "leave">>
<1>1. Tail(<<"enter", "prepare">>) = <<"prepare">>
  OBVIOUS
<1>2. Tail(<<"receipt", "ledger", "leave">>) = <<"ledger", "leave">>
  OBVIOUS
<1>3. Tail(<<"ledger", "leave">>) = <<"leave">>
  OBVIOUS
<1>4. Tail(<<"dropReceipt", "leave">>) = <<"leave">>
  OBVIOUS
<1>5. Tail(<<"ledger", "number", "record", "leave">>) = <<"number", "record", "leave">>
  OBVIOUS
<1>6. Tail(<<"number", "record", "leave">>) = <<"record", "leave">>
  OBVIOUS
<1>7. Tail(<<"record", "leave">>) = <<"leave">>
  OBVIOUS
<1>8. Tail(<<"restoreLedger", "leave">>) = <<"leave">>
  OBVIOUS
<1>9. Tail(<<"ledger", "number", "record", "receipt", "reread", "leave">>) = <<"number", "record", "receipt", "reread", "leave">>
  OBVIOUS
<1>10. Tail(<<"number", "record", "receipt", "reread", "leave">>) = <<"record", "receipt", "reread", "leave">>
  OBVIOUS
<1>11. Tail(<<"record", "receipt", "reread", "leave">>) = <<"receipt", "reread", "leave">>
  OBVIOUS
<1>12. Tail(<<"receipt", "reread", "leave">>) = <<"reread", "leave">>
  OBVIOUS
<1>13. Tail(<<"reread", "leave">>) = <<"leave">>
  OBVIOUS
<1>14. Tail(<<"dropReceipt", "dropRecord", "restoreLedger", "leave">>) = <<"dropRecord", "restoreLedger", "leave">>
  OBVIOUS
<1>15. Tail(<<"dropRecord", "restoreLedger", "leave">>) = <<"restoreLedger", "leave">>
  OBVIOUS
<1> QED BY <1>1, <1>2, <1>3, <1>4, <1>5, <1>6, <1>7, <1>8, <1>9, <1>10, <1>11, <1>12, <1>13, <1>14, <1>15

(* The same operation with something else left to do. *)
With(o, todo, ord, failed) ==
    [cmd |-> o.cmd, todo |-> todo, ord |-> ord, next |-> o.next, opened |-> o.opened,
     failed |-> failed]

LEMMA WithIsExcept ==
    ASSUME NEW p \in Procs, IsOperation(op[p]), op = [q \in Procs |-> op[q]], NEW x, NEW n
    PROVE  /\ [op EXCEPT ![p].todo = x] = [op EXCEPT ![p] = With(op[p], x, op[p].ord, op[p].failed)]
           /\ [op EXCEPT ![p].todo = x, ![p].ord = n] =
                [op EXCEPT ![p] = With(op[p], x, n, op[p].failed)]
           /\ [op EXCEPT ![p].failed = TRUE, ![p].todo = x] =
                [op EXCEPT ![p] = With(op[p], x, op[p].ord, TRUE)]
<1> DEFINE o == op[p]
<1>1. o = [cmd |-> o.cmd, todo |-> o.todo, ord |-> o.ord, next |-> o.next,
           opened |-> o.opened, failed |-> o.failed]
  BY DEF IsOperation
<1>2. DOMAIN op = Procs
  OBVIOUS
<1> HIDE DEF o
<1>3. [o EXCEPT !.todo = x] = With(o, x, o.ord, o.failed)
  BY <1>1 DEF With
<1>4. [o EXCEPT !.todo = x, !.ord = n] = With(o, x, n, o.failed)
  <2>1. [o EXCEPT !.todo = x, !.ord = n] = [[o EXCEPT !.todo = x] EXCEPT !.ord = n]
    OBVIOUS
  <2>2. [With(o, x, o.ord, o.failed) EXCEPT !.ord = n] = With(o, x, n, o.failed)
    BY DEF With
  <2> QED BY <1>3, <2>1, <2>2
<1>5. ASSUME NEW z PROVE [o EXCEPT !.failed = z, !.todo = x] = With(o, x, o.ord, z)
  <2>1. [o EXCEPT !.failed = z] = With(o, o.todo, o.ord, z)
    BY <1>1 DEF With
  <2>2. [With(o, o.todo, o.ord, z) EXCEPT !.todo = x] = With(o, x, o.ord, z)
    BY DEF With
  <2>3. [o EXCEPT !.failed = z, !.todo = x] = [[o EXCEPT !.failed = z] EXCEPT !.todo = x]
    OBVIOUS
  <2> QED BY <2>1, <2>2, <2>3
<1>6. \A z : [op EXCEPT ![p].failed = z, ![p].todo = x] =
                [op EXCEPT ![p] = With(op[p], x, op[p].ord, z)]
  BY <1>2, <1>5 DEF o
<1>7. [op EXCEPT ![p].failed = TRUE, ![p].todo = x] =
                [op EXCEPT ![p] = With(op[p], x, op[p].ord, TRUE)]
  BY <1>6, Zenon
<1> QED BY <1>2, <1>3, <1>4, <1>7 DEF o

(* What the steps of the gates write over an operation, as With. *)
LEMMA TodoIsWith ==
    ASSUME NEW p \in Procs, IsOperation(op[p]), op = [q \in Procs |-> op[q]],
           NEW x, op' = [op EXCEPT ![p].todo = x]
    PROVE  op' = [op EXCEPT ![p] = With(op[p], x, op[p].ord, op[p].failed)]
<1>1. [op EXCEPT ![p].todo = x] = [op EXCEPT ![p] = With(op[p], x, op[p].ord, op[p].failed)]
  BY WithIsExcept, Zenon
<1> QED BY <1>1, Zenon

LEMMA NumberIsWith ==
    ASSUME NEW p \in Procs, IsOperation(op[p]), op = [q \in Procs |-> op[q]],
           NEW x, NEW n, op' = [op EXCEPT ![p].todo = x, ![p].ord = n]
    PROVE  op' = [op EXCEPT ![p] = With(op[p], x, n, op[p].failed)]
<1>1. [op EXCEPT ![p].todo = x, ![p].ord = n] = [op EXCEPT ![p] = With(op[p], x, n, op[p].failed)]
  BY WithIsExcept, Zenon
<1> QED BY <1>1, Zenon

LEMMA FailureIsWith ==
    ASSUME NEW p \in Procs, IsOperation(op[p]), op = [q \in Procs |-> op[q]],
           NEW x, op' = [op EXCEPT ![p].failed = TRUE, ![p].todo = x]
    PROVE  op' = [op EXCEPT ![p] = With(op[p], x, op[p].ord, TRUE)]
<1>1. [op EXCEPT ![p].failed = TRUE, ![p].todo = x] = [op EXCEPT ![p] = With(op[p], x, op[p].ord, TRUE)]
  BY WithIsExcept, Zenon
<1> QED BY <1>1, Zenon

LEMMA AdvanceIsWith ==
    ASSUME NEW p \in Procs, IsOperation(op[p]), op = [q \in Procs |-> op[q]], Advance(p)
    PROVE  op' = [op EXCEPT ![p] = With(op[p], Tail(op[p].todo), op[p].ord, op[p].failed)]
<1> DEFINE x == Tail(op[p].todo)
<1>1. op' = [op EXCEPT ![p].todo = x]
  BY DEF Advance
<1> HIDE DEF x
<1>2. op' = [op EXCEPT ![p] = With(op[p], x, op[p].ord, op[p].failed)]
  BY <1>1, TodoIsWith, Zenon
<1> QED BY <1>2 DEF x

(* Nothing but what is left to do, the number and the failure change. *)
LEMMA WithIsOperation ==
    ASSUME NEW o, IsOperation(o), o.opened # <<>>, NEW x, NEW n, NEW failed \in BOOLEAN,
           x \notin {<<>>, <<"enter", "prepare">>, <<"prepare">>},
           failed => o.cmd.gate \in Failing
    PROVE  /\ IsOperation(With(o, x, n, failed))
           /\ With(o, x, n, failed).cmd = o.cmd
           /\ With(o, x, n, failed).next = o.next
           /\ With(o, x, n, failed).opened = o.opened
           /\ With(o, x, n, failed).todo = x
           /\ With(o, x, n, failed).ord = n
           /\ With(o, x, n, failed).failed = failed
BY DEF IsOperation, With

(* What a gate at work has left to do is none of its first steps. *)
LEMMA ProgressAhead ==
    ASSUME NEW o, NEW content, NEW records, NEW found, Progress(o, content, records, found)
    PROVE  o.todo \notin {<<>>, <<"enter", "prepare">>, <<"prepare">>}
<1>1. /\ <<"receipt", "ledger", "leave">> # <<>> /\ <<"ledger", "leave">> # <<>>
      /\ <<"leave">> # <<>> /\ <<"dropReceipt", "leave">> # <<>>
      /\ <<"ledger", "number", "record", "leave">> # <<>>
      /\ <<"number", "record", "leave">> # <<>> /\ <<"record", "leave">> # <<>>
      /\ <<"restoreLedger", "leave">> # <<>>
  OBVIOUS
<1>2. /\ <<"ledger", "number", "record", "receipt", "reread", "leave">> # <<>>
      /\ <<"number", "record", "receipt", "reread", "leave">> # <<>>
      /\ <<"record", "receipt", "reread", "leave">> # <<>>
      /\ <<"receipt", "reread", "leave">> # <<>> /\ <<"reread", "leave">> # <<>>
      /\ <<"dropReceipt", "dropRecord", "restoreLedger", "leave">> # <<>>
      /\ <<"dropRecord", "restoreLedger", "leave">> # <<>>
  OBVIOUS
<1>3. CASE DecisionProgress(o, content, found)
  BY <1>1, <1>3, Heads DEF DecisionProgress
<1>4. CASE ImportProgress(o, content, records)
  BY <1>1, <1>4, Heads DEF ImportProgress
<1>5. CASE RemediationProgress(o, content, records, found)
  BY <1>1, <1>2, <1>5, Heads DEF RemediationProgress
<1> QED BY <1>3, <1>4, <1>5 DEF Progress

(* What is known of a gate before one of its steps at work. *)
LEMMA AtStep ==
    ASSUME IInv, NEW p \in Procs, op[p] # Idle,
           Head(op[p].todo) \notin {"enter", "prepare", "leave"}
    PROVE  /\ Working(op[p]) /\ op[p].opened # <<>>
           /\ IsOperation(op[p]) /\ Planned(op[p])
           /\ Progress(op[p], ledger, submissions, receipts)
           /\ op = [q \in Procs |-> op[q]]
BY AtWork DEF IInv, Sections, Working, WorkIsPlanned

(* A step of a gate at work that goes on as planned keeps the invariant. *)
LEMMA Proceeds ==
    ASSUME IInv, NEW p \in Procs, Working(op[p]),
           NEW x, NEW n, NEW failed \in BOOLEAN, failed => op[p].cmd.gate \in Failing,
           op' = [op EXCEPT ![p] = With(op[p], x, n, failed)],
           Progress(With(op[p], x, n, failed), ledger', submissions', receipts'),
           UNCHANGED <<inside, commands, crashes>>,
           replaced' \subseteq
                replaced \cup Wordings(op[p].opened[1], DOMAIN op[p].opened[1])
    PROVE  IInv'
<1> DEFINE o == With(op[p], x, n, failed)
<1>1. IsOperation(op[p]) /\ op[p].opened # <<>>
  BY DEF IInv, Sections, Working
<1>2. o.todo = x
  BY DEF With
<1>3. x \notin {<<>>, <<"enter", "prepare">>, <<"prepare">>}
  BY <1>2, ProgressAhead
<1>4. /\ IsOperation(o)
      /\ o.cmd = op[p].cmd /\ o.next = op[p].next /\ o.opened = op[p].opened
  BY <1>1, <1>3, WithIsOperation
<1> HIDE DEF o
<1>5. op' = [op EXCEPT ![p] = o] /\ Progress(o, ledger', submissions', receipts')
  BY DEF o
<1> QED BY <1>4, <1>5, WorkStep

(* The same work. *)
Same(o, q) == o.cmd = q.cmd /\ o.next = q.next /\ o.opened = q.opened

LEMMA WithIsSame ==
    ASSUME NEW o, NEW x, NEW n, NEW failed
    PROVE  /\ Same(With(o, x, n, failed), o)
           /\ With(o, x, n, failed).todo = x
           /\ With(o, x, n, failed).ord = n
           /\ With(o, x, n, failed).failed = failed
BY DEF With, Same

LEMMA SameWork ==
    ASSUME NEW o, NEW q, Same(q, o)
    PROVE  /\ \A found : Receipted(q, found) <=> Receipted(o, found)
           /\ q.ord = o.ord =>
                /\ NumberTaken(q) <=> NumberTaken(o)
                /\ \A records : Recorded(q, records) <=> Recorded(o, records)
<1>1. \A found : Receipted(q, found) <=> Receipted(o, found)
  BY DEF Same, Receipted
<1>2. q.ord = o.ord => (NumberTaken(q) <=> NumberTaken(o))
  BY DEF Same, NumberTaken
<1>3. Superseded(q) = Superseded(o)
  BY DEF Same, Superseded
<1>4. q.ord = o.ord => \A records : Recorded(q, records) <=> Recorded(o, records)
  BY <1>3 DEF Same, Recorded
<1> QED BY <1>1, <1>2, <1>4

LEMMA LedgerProgress ==
    ASSUME NEW o, NEW content, NEW records, NEW found,
           Progress(o, content, records, found), Head(o.todo) = "ledger",
           NEW q, Same(q, o), q.ord = o.ord, q.failed = o.failed, q.todo = Tail(o.todo)
    PROVE  Progress(q, o.next, records, found)
<1>1. CASE o.cmd.gate \in Deciding
  <2>1. records = o.opened[2] /\ DecisionProgress(o, content, found)
    BY <1>1 DEF Progress, Deciding, Rewriting, Remediating
  <2>2. o.todo = <<"ledger", "leave">> /\ Receipted(o, found) /\ ~o.failed
    BY <2>1, Heads DEF DecisionProgress
  <2>3. q.todo = <<"leave">> /\ Receipted(q, found) /\ ~q.failed
    BY <2>2, Tails, SameWork
  <2> QED BY <1>1, <2>1, <2>3 DEF Progress, DecisionProgress, Same
<1>2. CASE o.cmd.gate \in Rewriting \cup {"draft"}
  <2>1. found = o.opened[3] /\ ImportProgress(o, content, records)
    BY <1>2 DEF Progress, Deciding, Rewriting, Remediating
  <2>2. o.todo = <<"ledger", "number", "record", "leave">> /\ records = o.opened[2] /\ ~o.failed
    BY <2>1, Heads DEF ImportProgress
  <2>3. q.todo = <<"number", "record", "leave">> /\ ~q.failed
    BY <2>2, Tails
  <2> QED BY <1>2, <2>1, <2>2, <2>3 DEF Progress, ImportProgress, Same
<1>3. CASE o.cmd.gate \in Remediating
  <2>1. RemediationProgress(o, content, records, found)
    BY <1>3 DEF Progress, Deciding, Rewriting, Remediating
  <2>2. /\ o.todo = <<"ledger", "number", "record", "receipt", "reread", "leave">>
        /\ o.ord = 0 /\ records = o.opened[2] /\ found = o.opened[3] /\ ~o.failed
    BY <2>1, Heads DEF RemediationProgress
  <2>3. q.todo = <<"number", "record", "receipt", "reread", "leave">> /\ ~q.failed
    BY <2>2, Tails
  <2> QED BY <1>3, <2>2, <2>3 DEF Progress, RemediationProgress, Same
<1> QED BY <1>1, <1>2, <1>3 DEF Progress

LEMMA WriteLedgerKeeps ==
    ASSUME IInv, NEW p \in Procs, WriteLedger(p) PROVE IInv'
<1> DEFINE o == op[p]
           q == With(o, Tail(o.todo), o.ord, o.failed)
<1>1. o # Idle /\ Head(o.todo) = "ledger"
  BY DEF WriteLedger, At
<1>2. /\ Working(o) /\ IsOperation(o) /\ Planned(o)
      /\ Progress(o, ledger, submissions, receipts)
      /\ op = [r \in Procs |-> op[r]]
  BY <1>1, AtStep
<1>3. op' = [op EXCEPT ![p] = q]
  BY <1>2, AdvanceIsWith DEF WriteLedger
<1>4. Progress(q, ledger', submissions', receipts')
  <2>1. Progress(q, o.next, submissions, receipts)
    BY <1>1, <1>2, WithIsSame, LedgerProgress
  <2> QED BY <2>1 DEF WriteLedger
<1>5. replaced' \subseteq replaced \cup Wordings(o.opened[1], DOMAIN o.opened[1])
  BY DEF WriteLedger, Wordings
<1>6. o.failed \in BOOLEAN /\ (o.failed => o.cmd.gate \in Failing)
  BY <1>2 DEF IsOperation
<1> HIDE DEF q
<1>7. UNCHANGED <<inside, commands, crashes>>
  BY DEF WriteLedger
<1> QED BY <1>2, <1>3, <1>4, <1>5, <1>6, <1>7, Proceeds DEF q

LEMMA NumberProgress ==
    ASSUME NEW o, NEW content, NEW records, NEW found,
           Progress(o, content, records, found), Head(o.todo) = "number",
           NEW q, Same(q, o), q.failed = o.failed, q.todo = Tail(o.todo),
           q.ord \in Nat \ {0}, \A s \in records : s.ord < q.ord
    PROVE  Progress(q, content, records, found)
<1>1. CASE o.cmd.gate \in Rewriting \cup {"draft"}
  <2>1. found = o.opened[3] /\ ImportProgress(o, content, records)
    BY <1>1 DEF Progress, Deciding, Rewriting, Remediating
  <2>2. /\ o.todo = <<"number", "record", "leave">> /\ ~o.failed
        /\ content = o.next /\ records = o.opened[2]
    BY <2>1, Heads DEF ImportProgress
  <2>3. q.todo = <<"record", "leave">> /\ ~q.failed /\ NumberTaken(q)
    BY <2>2, Tails DEF NumberTaken, Same
  <2> QED BY <1>1, <2>1, <2>2, <2>3 DEF Progress, ImportProgress, Same
<1>2. CASE o.cmd.gate \in Remediating
  <2>1. RemediationProgress(o, content, records, found)
    BY <1>2 DEF Progress, Deciding, Rewriting, Remediating
  <2>2. /\ o.todo = <<"number", "record", "receipt", "reread", "leave">> /\ ~o.failed
        /\ content = o.next /\ records = o.opened[2] /\ found = o.opened[3]
    BY <2>1, Heads DEF RemediationProgress
  <2>3. /\ q.todo = <<"record", "receipt", "reread", "leave">> /\ ~q.failed
        /\ NumberTaken(q)
    BY <2>2, Tails DEF NumberTaken, Same
  <2> QED BY <1>2, <2>2, <2>3 DEF Progress, RemediationProgress, Same
<1>3. o.cmd.gate \notin Deciding
  BY Heads DEF Progress, DecisionProgress, Deciding, Rewriting, Remediating
<1> QED BY <1>1, <1>2, <1>3 DEF Progress

LEMMA TakeNumberKeeps ==
    ASSUME IInv, NEW p \in Procs, TakeNumber(p) PROVE IInv'
<1> DEFINE o == op[p]
<1>1. o # Idle /\ Head(o.todo) = "number"
  BY DEF TakeNumber, At
<1>2. /\ Working(o) /\ IsOperation(o)
      /\ Progress(o, ledger, submissions, receipts)
      /\ op = [r \in Procs |-> op[r]]
  BY <1>1, AtStep
<1>3. PICK n \in 1..(Cardinality(submissions) + MaxCommands) :
            /\ \A s \in submissions : s.ord < n
            /\ op' = [op EXCEPT ![p].todo = Tail(op[p].todo), ![p].ord = n]
  BY DEF TakeNumber
<1> DEFINE q == With(o, Tail(o.todo), n, o.failed)
<1>4. n \in Nat \ {0}
  OBVIOUS
<1>5. op' = [op EXCEPT ![p] = q]
  BY <1>2, <1>3, NumberIsWith, Zenon
<1>6. UNCHANGED <<ledger, submissions, receipts, replaced, inside, commands, crashes>>
  BY DEF TakeNumber, files, history
<1>7. Progress(q, ledger, submissions, receipts)
  BY <1>1, <1>2, <1>3, <1>4, WithIsSame, NumberProgress
<1>8. o.failed \in BOOLEAN /\ (o.failed => o.cmd.gate \in Failing)
  BY <1>2 DEF IsOperation
<1> HIDE DEF q
<1>9. Progress(q, ledger', submissions', receipts')
  BY <1>6, <1>7
<1> QED BY <1>2, <1>5, <1>6, <1>8, <1>9, Proceeds DEF q

LEMMA RecordProgress ==
    ASSUME NEW o, NEW content, NEW records, NEW found,
           Progress(o, content, records, found), Head(o.todo) = "record",
           NEW q, Same(q, o), q.ord = o.ord, q.failed = o.failed, q.todo = Tail(o.todo),
           NEW s, s.ord = o.ord, s.gate = o.cmd.gate, s.ids = o.cmd.ids,
           s.before = o.opened[1], s.after = o.next, s.superseded = Superseded(o),
           s.target = o.cmd.target
    PROVE  Progress(q, content, records \cup {s}, found)
<1> DEFINE new == records \cup {s}
<1>1. CASE o.cmd.gate \in Rewriting \cup {"draft"}
  <2>1. found = o.opened[3] /\ ImportProgress(o, content, records)
    BY <1>1 DEF Progress, Deciding, Rewriting, Remediating
  <2>2. /\ o.todo = <<"record", "leave">> /\ ~o.failed
        /\ content = o.next /\ records = o.opened[2] /\ NumberTaken(o)
    BY <2>1, Heads DEF ImportProgress
  <2>3. Recorded(o, new)
    BY <2>2 DEF Recorded
  <2>4. q.todo = <<"leave">> /\ ~q.failed /\ NumberTaken(q) /\ Recorded(q, new)
    BY <2>2, <2>3, Tails, SameWork
  <2> QED BY <1>1, <2>1, <2>2, <2>4 DEF Progress, ImportProgress, Same
<1>2. CASE o.cmd.gate \in Remediating
  <2>1. RemediationProgress(o, content, records, found)
    BY <1>2 DEF Progress, Deciding, Rewriting, Remediating
  <2>2. /\ o.todo = <<"record", "receipt", "reread", "leave">> /\ ~o.failed /\ NumberTaken(o)
        /\ content = o.next /\ records = o.opened[2] /\ found = o.opened[3]
    BY <2>1, Heads DEF RemediationProgress
  <2>3. Recorded(o, new)
    BY <2>2 DEF Recorded
  <2>4. /\ q.todo = <<"receipt", "reread", "leave">> /\ ~q.failed
        /\ NumberTaken(q) /\ Recorded(q, new)
    BY <2>2, <2>3, Tails, SameWork
  <2> QED BY <1>2, <2>2, <2>4 DEF Progress, RemediationProgress, Same
<1>3. o.cmd.gate \notin Deciding
  BY Heads DEF Progress, DecisionProgress, Deciding, Rewriting, Remediating
<1> QED BY <1>1, <1>2, <1>3 DEF Progress

LEMMA WriteRecordKeeps ==
    ASSUME IInv, NEW p \in Procs, WriteRecord(p) PROVE IInv'
<1> DEFINE o == op[p]
           q == With(o, Tail(o.todo), o.ord, o.failed)
           s == [ord |-> o.ord, gate |-> o.cmd.gate, unit |-> o.cmd.unit, ids |-> o.cmd.ids,
                 before |-> o.opened[1], after |-> o.next, superseded |-> Superseded(o),
                 target |-> o.cmd.target, at |-> Len(trail)]
<1>1. o # Idle /\ Head(o.todo) = "record"
  BY DEF WriteRecord, At
<1>2. /\ Working(o) /\ IsOperation(o)
      /\ Progress(o, ledger, submissions, receipts)
      /\ op = [r \in Procs |-> op[r]]
  BY <1>1, AtStep
<1>3. op' = [op EXCEPT ![p] = q]
  BY <1>2, AdvanceIsWith DEF WriteRecord
<1>4. /\ submissions' = submissions \cup {s}
      /\ UNCHANGED <<ledger, receipts, replaced, inside, commands, crashes>>
  BY DEF WriteRecord, history
<1>5. Progress(q, ledger, submissions \cup {s}, receipts)
  <2>1. /\ s.ord = o.ord /\ s.gate = o.cmd.gate /\ s.ids = o.cmd.ids
        /\ s.before = o.opened[1] /\ s.after = o.next /\ s.superseded = Superseded(o)
        /\ s.target = o.cmd.target
    OBVIOUS
  <2>2. Same(q, o) /\ q.ord = o.ord /\ q.failed = o.failed /\ q.todo = Tail(o.todo)
    BY WithIsSame
  <2> HIDE DEF s, q
  <2> QED BY <1>1, <1>2, <2>1, <2>2, RecordProgress
<1>6. o.failed \in BOOLEAN /\ (o.failed => o.cmd.gate \in Failing)
  BY <1>2 DEF IsOperation
<1> HIDE DEF q, s
<1>7. Progress(q, ledger', submissions', receipts')
  BY <1>4, <1>5
<1> QED BY <1>2, <1>3, <1>4, <1>6, <1>7, Proceeds DEF q

LEMMA ReceiptProgress ==
    ASSUME NEW o, NEW content, NEW records, NEW found,
           Progress(o, content, records, found), Head(o.todo) = "receipt",
           NEW q, Same(q, o), q.ord = o.ord, q.failed = o.failed, q.todo = Tail(o.todo),
           NEW r, r.name = ReceiptName(o.cmd, o.opened[1]),
           r.gate = o.cmd.gate, r.ids = o.cmd.ids, r.decision = o.cmd.decision,
           r.before = o.opened[1], r.after = o.next, r.target = o.cmd.target
    PROVE  Progress(q, content, records, found \cup {r})
<1> DEFINE new == found \cup {r}
<1>1. CASE o.cmd.gate \in Deciding
  <2>1. records = o.opened[2] /\ DecisionProgress(o, content, found)
    BY <1>1 DEF Progress, Deciding, Rewriting, Remediating
  <2>2. /\ o.todo = <<"receipt", "ledger", "leave">> /\ ~o.failed
        /\ content = o.opened[1] /\ found = o.opened[3]
    BY <2>1, Heads DEF DecisionProgress
  <2>3. Receipted(o, new)
    BY <2>2 DEF Receipted
  <2>4. q.todo = <<"ledger", "leave">> /\ ~q.failed /\ Receipted(q, new)
    BY <2>2, <2>3, Tails, SameWork
  <2> QED BY <1>1, <2>1, <2>2, <2>4 DEF Progress, DecisionProgress, Same
<1>2. CASE o.cmd.gate \in Remediating
  <2>1. RemediationProgress(o, content, records, found)
    BY <1>2 DEF Progress, Deciding, Rewriting, Remediating
  <2>2. /\ o.todo = <<"receipt", "reread", "leave">> /\ ~o.failed /\ NumberTaken(o)
        /\ content = o.next /\ Recorded(o, records) /\ found = o.opened[3]
    BY <2>1, Heads DEF RemediationProgress
  <2>3. Receipted(o, new)
    BY <2>2 DEF Receipted
  <2>4. /\ q.todo = <<"reread", "leave">> /\ ~q.failed
        /\ NumberTaken(q) /\ Recorded(q, records) /\ Receipted(q, new)
    BY <2>2, <2>3, Tails, SameWork
  <2> QED BY <1>2, <2>2, <2>4 DEF Progress, RemediationProgress, Same
<1>3. o.cmd.gate \notin Rewriting \cup {"draft"}
  BY Heads DEF Progress, ImportProgress, Deciding, Rewriting, Remediating
<1> QED BY <1>1, <1>2, <1>3 DEF Progress

LEMMA WriteReceiptKeeps ==
    ASSUME IInv, NEW p \in Procs, WriteReceipt(p) PROVE IInv'
<1> DEFINE o == op[p]
           q == With(o, Tail(o.todo), o.ord, o.failed)
           r == [name |-> ReceiptName(o.cmd, o.opened[1]), gate |-> o.cmd.gate,
                 ids |-> o.cmd.ids, decision |-> o.cmd.decision, before |-> o.opened[1],
                 after |-> o.next, target |-> o.cmd.target, at |-> Len(trail)]
<1>1. o # Idle /\ Head(o.todo) = "receipt"
  BY DEF WriteReceipt, At
<1>2. /\ Working(o) /\ IsOperation(o)
      /\ Progress(o, ledger, submissions, receipts)
      /\ op = [x \in Procs |-> op[x]]
  BY <1>1, AtStep
<1>3. op' = [op EXCEPT ![p] = q]
  BY <1>2, AdvanceIsWith DEF WriteReceipt
<1>4. /\ receipts' = receipts \cup {r}
      /\ UNCHANGED <<ledger, submissions, replaced, inside, commands, crashes>>
  BY DEF WriteReceipt, history
<1>5. Progress(q, ledger, submissions, receipts \cup {r})
  <2>1. /\ r.name = ReceiptName(o.cmd, o.opened[1])
        /\ r.gate = o.cmd.gate /\ r.ids = o.cmd.ids /\ r.decision = o.cmd.decision
        /\ r.before = o.opened[1] /\ r.after = o.next /\ r.target = o.cmd.target
    OBVIOUS
  <2>2. Same(q, o) /\ q.ord = o.ord /\ q.failed = o.failed /\ q.todo = Tail(o.todo)
    BY WithIsSame
  <2> HIDE DEF r, q
  <2> QED BY <1>1, <1>2, <2>1, <2>2, ReceiptProgress
<1>6. o.failed \in BOOLEAN /\ (o.failed => o.cmd.gate \in Failing)
  BY <1>2 DEF IsOperation
<1> HIDE DEF q, r
<1>7. Progress(q, ledger', submissions', receipts')
  BY <1>4, <1>5
<1> QED BY <1>2, <1>3, <1>4, <1>6, <1>7, Proceeds DEF q

LEMMA RereadProgress ==
    ASSUME NEW o, NEW content, NEW records, NEW found,
           Progress(o, content, records, found), Head(o.todo) = "reread",
           NEW q, Same(q, o), q.ord = o.ord, q.failed = o.failed, q.todo = Tail(o.todo)
    PROVE  Progress(q, content, records, found)
<1>1. CASE o.cmd.gate \in Remediating
  <2>1. RemediationProgress(o, content, records, found)
    BY <1>1 DEF Progress, Deciding, Rewriting, Remediating
  <2>2. /\ o.todo = <<"reread", "leave">> /\ ~o.failed /\ NumberTaken(o)
        /\ content = o.next /\ Recorded(o, records) /\ Receipted(o, found)
    BY <2>1, Heads DEF RemediationProgress
  <2>3. /\ q.todo = <<"leave">> /\ ~q.failed
        /\ NumberTaken(q) /\ Recorded(q, records) /\ Receipted(q, found)
    BY <2>2, Tails, SameWork
  <2> QED BY <1>1, <2>2, <2>3 DEF Progress, RemediationProgress, Same
<1>2. o.cmd.gate \notin Deciding
  BY Heads DEF Progress, DecisionProgress, Deciding, Rewriting, Remediating
<1>3. o.cmd.gate \notin Rewriting \cup {"draft"}
  BY Heads DEF Progress, ImportProgress, Deciding, Rewriting, Remediating
<1> QED BY <1>1, <1>2, <1>3 DEF Progress

LEMMA RereadKeeps ==
    ASSUME IInv, NEW p \in Procs, Reread(p) PROVE IInv'
<1> DEFINE o == op[p]
           q == With(o, Tail(o.todo), o.ord, o.failed)
<1>1. o # Idle /\ Head(o.todo) = "reread"
  BY DEF Reread, At
<1>2. /\ Working(o) /\ IsOperation(o)
      /\ Progress(o, ledger, submissions, receipts)
      /\ op = [x \in Procs |-> op[x]]
  BY <1>1, AtStep
<1>3. op' = [op EXCEPT ![p] = q]
  BY <1>2, AdvanceIsWith DEF Reread
<1>4. UNCHANGED <<ledger, submissions, receipts, replaced, inside, commands, crashes>>
  BY DEF Reread, files, history
<1>5. Progress(q, ledger, submissions, receipts)
  BY <1>1, <1>2, WithIsSame, RereadProgress
<1>6. o.failed \in BOOLEAN /\ (o.failed => o.cmd.gate \in Failing)
  BY <1>2 DEF IsOperation
<1> HIDE DEF q
<1>7. Progress(q, ledger', submissions', receipts')
  BY <1>4, <1>5
<1> QED BY <1>2, <1>3, <1>4, <1>6, <1>7, Proceeds DEF q

------------------------------------------------------------------------------
(* The steps of a gate that takes its work back *)

LEMMA FailProgress ==
    ASSUME NEW o, NEW content, NEW records, NEW found,
           Progress(o, content, records, found), ~o.failed,
           Head(o.todo) \in {"ledger", "number", "record", "receipt", "reread"},
           NEW q, Same(q, o), q.ord = o.ord, q.failed,
           q.todo = Undo(o.cmd.gate, Head(o.todo))
    PROVE  Progress(q, content, records, found)
<1>1. CASE o.cmd.gate \in Deciding
  <2>1. records = o.opened[2] /\ DecisionProgress(o, content, found)
    BY <1>1 DEF Progress, Deciding, Rewriting, Remediating
  <2>2. \/ Head(o.todo) = "receipt" /\ content = o.opened[1] /\ found = o.opened[3]
        \/ Head(o.todo) = "ledger" /\ content = o.opened[1] /\ Receipted(o, found)
    BY <2>1, Heads DEF DecisionProgress
  <2>3. CASE Head(o.todo) = "receipt" /\ content = o.opened[1] /\ found = o.opened[3]
    <3>1. q.todo = <<"leave">>
      BY <1>1, <2>3 DEF Undo, Deciding, Remediating
    <3> QED BY <1>1, <2>1, <2>3, <3>1 DEF Progress, DecisionProgress, Same
  <2>4. CASE Head(o.todo) = "ledger" /\ content = o.opened[1] /\ Receipted(o, found)
    <3>1. q.todo = <<"dropReceipt", "leave">> /\ Receipted(q, found)
      BY <1>1, <2>4, SameWork DEF Undo, Deciding, Remediating
    <3> QED BY <1>1, <2>1, <2>4, <3>1 DEF Progress, DecisionProgress, Same
  <2> QED BY <2>2, <2>3, <2>4
<1>2. CASE o.cmd.gate \in Rewriting \cup {"draft"}
  <2>1. found = o.opened[3] /\ ImportProgress(o, content, records)
    BY <1>2 DEF Progress, Deciding, Rewriting, Remediating
  <2>2. /\ records = o.opened[2]
        /\ \/ Head(o.todo) = "ledger" /\ content = o.opened[1]
           \/ Head(o.todo) # "ledger" /\ content = o.next
    BY <2>1, Heads DEF ImportProgress
  <2>3. \/ /\ q.todo = <<"restoreLedger", "leave">> /\ o.cmd.gate \in {"repair", "mend"}
           /\ Head(o.todo) # "ledger"
        \/ /\ q.todo = <<"leave">>
           /\ Head(o.todo) = "ledger" \/ o.cmd.gate \in {"draft", "rewrite"}
    BY <1>2 DEF Undo, Deciding, Remediating, Rewriting
  <2> QED BY <1>2, <2>1, <2>2, <2>3 DEF Progress, ImportProgress, Same
<1>3. CASE o.cmd.gate \in Remediating
  <2>1. RemediationProgress(o, content, records, found)
    BY <1>3 DEF Progress, Deciding, Rewriting, Remediating
  <2>2. /\ (o.ord = 0 /\ records = o.opened[2]) \/ NumberTaken(o)
        /\ content \in {o.opened[1], o.next}
        /\ records = o.opened[2] \/ Recorded(o, records)
        /\ found = o.opened[3] \/ Receipted(o, found)
    BY <2>1 DEF RemediationProgress
  <2>3. q.todo = <<"dropReceipt", "dropRecord", "restoreLedger", "leave">>
    BY <1>3 DEF Undo, Deciding, Remediating
  <2>4. /\ (q.ord = 0 /\ records = q.opened[2]) \/ NumberTaken(q)
        /\ content \in {q.opened[1], q.next}
        /\ records = q.opened[2] \/ Recorded(q, records)
        /\ found = q.opened[3] \/ Receipted(q, found)
    BY <2>2, SameWork DEF Same
  <2> QED BY <1>3, <2>3, <2>4 DEF Progress, RemediationProgress, Same
<1> QED BY <1>1, <1>2, <1>3 DEF Progress

LEMMA FailKeeps ==
    ASSUME IInv, NEW p \in Procs, Fail(p) PROVE IInv'
<1> DEFINE o == op[p]
           x == Undo(o.cmd.gate, Head(o.todo))
           q == With(o, x, o.ord, TRUE)
<1>1. /\ o # Idle /\ ~o.failed /\ o.cmd.gate \in Failing
      /\ Head(o.todo) \in {"ledger", "number", "record", "receipt", "reread"}
  BY DEF Fail
<1>2. /\ Working(o) /\ IsOperation(o)
      /\ Progress(o, ledger, submissions, receipts)
      /\ op = [z \in Procs |-> op[z]]
  BY <1>1, AtStep
<1>3. op' = [op EXCEPT ![p] = q]
  <2>1. op' = [op EXCEPT ![p].failed = TRUE, ![p].todo = x]
    BY DEF Fail
  <2> HIDE DEF x
  <2> QED BY <1>2, <2>1, FailureIsWith, Zenon
<1>4. UNCHANGED <<ledger, submissions, receipts, replaced, inside, commands, crashes>>
  BY DEF Fail, files, history
<1>5. Progress(q, ledger, submissions, receipts)
  <2>1. Same(q, o) /\ q.ord = o.ord /\ q.failed = TRUE /\ q.todo = x
    <3>1. \A z : LET w == With(o, x, o.ord, z)
                 IN  Same(w, o) /\ w.ord = o.ord /\ w.failed = z /\ w.todo = x
      <4> HIDE DEF x
      <4> QED BY WithIsSame
    <3> QED BY <3>1, Zenon
  <2>2. q.failed
    BY <2>1
  <2> HIDE DEF q
  <2> QED BY <1>1, <1>2, <2>1, <2>2, FailProgress
<1> HIDE DEF q, x
<1>6. Progress(q, ledger', submissions', receipts')
  BY <1>4, <1>5
<1> QED BY <1>1, <1>2, <1>3, <1>4, <1>6, Proceeds DEF q

LEMMA DropReceiptProgress ==
    ASSUME NEW o, NEW content, NEW records, NEW found, Planned(o),
           Progress(o, content, records, found), Head(o.todo) = "dropReceipt",
           NEW q, Same(q, o), q.ord = o.ord, q.failed = o.failed, q.todo = Tail(o.todo)
    PROVE  Progress(q, content, records,
                    {r \in found : r.name # ReceiptName(o.cmd, o.opened[1])})
<1> DEFINE new == {r \in found : r.name # ReceiptName(o.cmd, o.opened[1])}
<1>1. ASSUME o.cmd.gate \in Deciding \cup Remediating,
             found = o.opened[3] \/ Receipted(o, found)
      PROVE  new = o.opened[3]
  BY <1>1 DEF Planned, Receipted
<1>2. CASE o.cmd.gate \in Deciding
  <2>1. records = o.opened[2] /\ DecisionProgress(o, content, found)
    BY <1>2 DEF Progress, Deciding, Rewriting, Remediating
  <2>2. /\ o.todo = <<"dropReceipt", "leave">> /\ o.failed /\ Receipted(o, found)
        /\ content = o.opened[1]
    BY <2>1, Heads DEF DecisionProgress
  <2>3. q.todo = <<"leave">> /\ q.failed
    BY <2>2, Tails
  <2>4. new = o.opened[3]
    BY <1>1, <1>2, <2>2
  <2> HIDE DEF new
  <2>5. Progress(q, content, records, new)
    BY <1>2, <2>1, <2>2, <2>3, <2>4 DEF Progress, DecisionProgress, Same
  <2> QED BY <2>5 DEF new
<1>3. CASE o.cmd.gate \in Remediating
  <2>1. RemediationProgress(o, content, records, found)
    BY <1>3 DEF Progress, Deciding, Rewriting, Remediating
  <2>2. /\ o.todo = <<"dropReceipt", "dropRecord", "restoreLedger", "leave">> /\ o.failed
        /\ (o.ord = 0 /\ records = o.opened[2]) \/ NumberTaken(o)
        /\ content \in {o.opened[1], o.next}
        /\ records = o.opened[2] \/ Recorded(o, records)
        /\ found = o.opened[3] \/ Receipted(o, found)
    BY <2>1, Heads DEF RemediationProgress
  <2>3. /\ q.todo = <<"dropRecord", "restoreLedger", "leave">> /\ q.failed
        /\ (q.ord = 0 /\ records = q.opened[2]) \/ NumberTaken(q)
        /\ content \in {q.opened[1], q.next}
        /\ records = q.opened[2] \/ Recorded(q, records)
    BY <2>2, Tails, SameWork DEF Same
  <2>4. new = o.opened[3]
    BY <1>1, <1>3, <2>2
  <2> HIDE DEF new
  <2>5. Progress(q, content, records, new)
    BY <1>3, <2>3, <2>4 DEF Progress, RemediationProgress, Same
  <2> QED BY <2>5 DEF new
<1>4. o.cmd.gate \notin Rewriting \cup {"draft"}
  BY Heads DEF Progress, ImportProgress, Deciding, Rewriting, Remediating
<1> QED BY <1>2, <1>3, <1>4 DEF Progress

LEMMA DropReceiptKeeps ==
    ASSUME IInv, NEW p \in Procs, DropReceipt(p) PROVE IInv'
<1> DEFINE o == op[p]
           q == With(o, Tail(o.todo), o.ord, o.failed)
           new == {r \in receipts : r.name # ReceiptName(o.cmd, o.opened[1])}
<1>1. o # Idle /\ Head(o.todo) = "dropReceipt"
  BY DEF DropReceipt, At
<1>2. /\ Working(o) /\ IsOperation(o) /\ Planned(o)
      /\ Progress(o, ledger, submissions, receipts)
      /\ op = [x \in Procs |-> op[x]]
  BY <1>1, AtStep
<1>3. op' = [op EXCEPT ![p] = q]
  BY <1>2, AdvanceIsWith DEF DropReceipt
<1>4. /\ receipts' = new
      /\ UNCHANGED <<ledger, submissions, replaced, inside, commands, crashes>>
  BY DEF DropReceipt, history
<1>5. Progress(q, ledger, submissions, new)
  BY <1>1, <1>2, WithIsSame, DropReceiptProgress
<1>6. o.failed \in BOOLEAN /\ (o.failed => o.cmd.gate \in Failing)
  BY <1>2 DEF IsOperation
<1> HIDE DEF q, new
<1>7. Progress(q, ledger', submissions', receipts')
  BY <1>4, <1>5
<1> QED BY <1>2, <1>3, <1>4, <1>6, <1>7, Proceeds DEF q

LEMMA DropRecordProgress ==
    ASSUME NEW o, NEW content, NEW records, NEW found, Planned(o),
           Progress(o, content, records, found), Head(o.todo) = "dropRecord",
           NEW q, Same(q, o), q.ord = o.ord, q.failed = o.failed, q.todo = Tail(o.todo)
    PROVE  Progress(q, content, {s \in records : s.ord # o.ord}, found)
<1> DEFINE new == {s \in records : s.ord # o.ord}
<1>1. CASE o.cmd.gate \in Remediating
  <2>1. RemediationProgress(o, content, records, found)
    BY <1>1 DEF Progress, Deciding, Rewriting, Remediating
  <2>2. /\ o.todo = <<"dropRecord", "restoreLedger", "leave">> /\ o.failed
        /\ (o.ord = 0 /\ records = o.opened[2]) \/ NumberTaken(o)
        /\ content \in {o.opened[1], o.next}
        /\ records = o.opened[2] \/ Recorded(o, records)
        /\ found = o.opened[3]
    BY <2>1, Heads DEF RemediationProgress
  <2>3. \A s \in o.opened[2] : s.ord \in Nat \ {0}
    BY DEF Planned, RecordsTyped
  <2>4. \A s \in o.opened[2] : s.ord # o.ord
    BY <2>2, <2>3 DEF NumberTaken
  <2>5. new = o.opened[2]
    BY <2>2, <2>4 DEF Recorded
  <2>6. /\ q.todo = <<"restoreLedger", "leave">> /\ q.failed
        /\ (q.ord = 0 /\ q.opened[2] = o.opened[2]) \/ NumberTaken(q)
        /\ content \in {q.opened[1], q.next}
    BY <2>2, Tails, SameWork DEF Same
  <2> HIDE DEF new
  <2>7. Progress(q, content, new, found)
    BY <1>1, <2>2, <2>5, <2>6 DEF Progress, RemediationProgress, Same
  <2> QED BY <2>7 DEF new
<1>2. o.cmd.gate \notin Deciding
  BY Heads DEF Progress, DecisionProgress, Deciding, Rewriting, Remediating
<1>3. o.cmd.gate \notin Rewriting \cup {"draft"}
  BY Heads DEF Progress, ImportProgress, Deciding, Rewriting, Remediating
<1> QED BY <1>1, <1>2, <1>3 DEF Progress

LEMMA DropRecordKeeps ==
    ASSUME IInv, NEW p \in Procs, DropRecord(p) PROVE IInv'
<1> DEFINE o == op[p]
           q == With(o, Tail(o.todo), o.ord, o.failed)
           new == {s \in submissions : s.ord # o.ord}
<1>1. o # Idle /\ Head(o.todo) = "dropRecord"
  BY DEF DropRecord, At
<1>2. /\ Working(o) /\ IsOperation(o) /\ Planned(o)
      /\ Progress(o, ledger, submissions, receipts)
      /\ op = [x \in Procs |-> op[x]]
  BY <1>1, AtStep
<1>3. op' = [op EXCEPT ![p] = q]
  BY <1>2, AdvanceIsWith DEF DropRecord
<1>4. /\ submissions' = new
      /\ UNCHANGED <<ledger, receipts, replaced, inside, commands, crashes>>
  BY DEF DropRecord, history
<1>5. Progress(q, ledger, new, receipts)
  BY <1>1, <1>2, WithIsSame, DropRecordProgress
<1>6. o.failed \in BOOLEAN /\ (o.failed => o.cmd.gate \in Failing)
  BY <1>2 DEF IsOperation
<1> HIDE DEF q, new
<1>7. Progress(q, ledger', submissions', receipts')
  BY <1>4, <1>5
<1> QED BY <1>2, <1>3, <1>4, <1>6, <1>7, Proceeds DEF q

LEMMA RestoreProgress ==
    ASSUME NEW o, NEW content, NEW records, NEW found,
           Progress(o, content, records, found), Head(o.todo) = "restoreLedger",
           NEW q, Same(q, o), q.ord = o.ord, q.failed = o.failed, q.todo = Tail(o.todo)
    PROVE  Progress(q, o.opened[1], records, found)
<1>1. CASE o.cmd.gate \in Rewriting \cup {"draft"}
  <2>1. found = o.opened[3] /\ ImportProgress(o, content, records)
    BY <1>1 DEF Progress, Deciding, Rewriting, Remediating
  <2>2. o.todo = <<"restoreLedger", "leave">> /\ o.failed /\ records = o.opened[2]
    BY <2>1, Heads DEF ImportProgress
  <2>3. q.todo = <<"leave">> /\ q.failed
    BY <2>2, Tails
  <2> QED BY <1>1, <2>1, <2>2, <2>3 DEF Progress, ImportProgress, Same
<1>2. CASE o.cmd.gate \in Remediating
  <2>1. RemediationProgress(o, content, records, found)
    BY <1>2 DEF Progress, Deciding, Rewriting, Remediating
  <2>2. /\ o.todo = <<"restoreLedger", "leave">> /\ o.failed
        /\ (o.ord = 0 /\ records = o.opened[2]) \/ NumberTaken(o)
        /\ found = o.opened[3] /\ records = o.opened[2]
    BY <2>1, Heads DEF RemediationProgress
  <2>3. /\ q.todo = <<"leave">> /\ q.failed
        /\ (q.ord = 0 /\ records = o.opened[2]) \/ NumberTaken(q)
    BY <2>2, Tails, SameWork
  <2> QED BY <1>2, <2>2, <2>3 DEF Progress, RemediationProgress, Same
<1>3. o.cmd.gate \notin Deciding
  BY Heads DEF Progress, DecisionProgress, Deciding, Rewriting, Remediating
<1> QED BY <1>1, <1>2, <1>3 DEF Progress

LEMMA RestoreLedgerKeeps ==
    ASSUME IInv, NEW p \in Procs, RestoreLedger(p) PROVE IInv'
<1> DEFINE o == op[p]
           q == With(o, Tail(o.todo), o.ord, o.failed)
<1>1. o # Idle /\ Head(o.todo) = "restoreLedger"
  BY DEF RestoreLedger, At
<1>2. /\ Working(o) /\ IsOperation(o) /\ Planned(o)
      /\ Progress(o, ledger, submissions, receipts)
      /\ op = [x \in Procs |-> op[x]]
  BY <1>1, AtStep
<1>3. op' = [op EXCEPT ![p] = q]
  BY <1>2, AdvanceIsWith DEF RestoreLedger
<1>4. /\ ledger' = o.opened[1]
      /\ UNCHANGED <<submissions, receipts, replaced, inside, commands, crashes>>
  BY DEF RestoreLedger
<1>5. Progress(q, o.opened[1], submissions, receipts)
  BY <1>1, <1>2, WithIsSame, RestoreProgress
<1>6. o.failed \in BOOLEAN /\ (o.failed => o.cmd.gate \in Failing)
  BY <1>2 DEF IsOperation
<1> HIDE DEF q
<1>7. Progress(q, ledger', submissions', receipts')
  BY <1>4, <1>5
<1> QED BY <1>2, <1>3, <1>4, <1>6, <1>7, Proceeds DEF q

------------------------------------------------------------------------------
(* The steps before and after the work *)

(* A step that is none of the work of a gate keeps the invariant. *)
LEMMA Aside ==
    ASSUME IInv, UNCHANGED <<files, replaced>>, Sections', Locks!TypeOK',
           commands' \in 0..MaxCommands, crashes' \in 0..MaxCrashes,
           \A q \in Procs : /\ Working(op'[q]) <=> Working(op[q])
                            /\ Working(op[q]) => op'[q] = op[q]
    PROVE  IInv'
<1> USE DEF IInv, files
<1>1. TypeOK' /\ UniqueOrdinals'
  BY DEF TypeOK, UniqueOrdinals
<1>2. WorkIsPlanned'
  <2> SUFFICES ASSUME NEW q \in Procs, Working(op'[q])
               PROVE  /\ Planned(op'[q])
                      /\ Progress(op'[q], ledger', submissions', receipts')
    BY DEF WorkIsPlanned
  <2> QED BY DEF WorkIsPlanned
<1>3. Settled' <=> Settled
  BY DEF Settled
<1>4. AllSupported'
  BY <1>3 DEF AllSupported, Supported
<1>5. AllKept'
  BY <1>3 DEF AllKept, Kept, Wordings
<1> QED BY <1>1, <1>2, <1>4, <1>5

(* A gate that ends, or whose process dies, keeps the invariant. *)
LEMMA Ends ==
    ASSUME IInv, NEW p \in Procs, op[p] # Idle, Locks!Leave(p),
           op' = [op EXCEPT ![p] = Idle], UNCHANGED <<files, commands, replaced>>,
           crashes' \in 0..MaxCrashes,
           Working(op[p]) => op[p].todo = <<"leave">> \/ op[p].cmd.gate \in Dying
    PROVE  IInv'
<1> USE DEF IInv, files
<1>1. /\ op' = [q \in Procs |-> op'[q]]
      /\ op'[p] = Idle /\ \A q \in Procs \ {p} : op'[q] = op[q]
  BY DEF Sections
<1>2. /\ inside' \in [Procs -> SUBSET ({"ledger", "submissions", "receipt"} \cup Gates)]
      /\ inside'[p] = {} /\ \A q \in Procs \ {p} : inside'[q] = inside[q]
  BY DEF Locks!Leave, TypeOK, Locks!TypeOK
<1>3. \A q \in Procs \ {p} : ~Working(op[q])
  BY OthersWait DEF Locks!Leave
<1>4. TypeOK' /\ UniqueOrdinals'
  BY <1>2 DEF TypeOK, UniqueOrdinals, Locks!TypeOK
<1>5. Sections'
  BY <1>1, <1>2 DEF Sections, Outside
<1>6. Settled'
  BY <1>1, <1>3 DEF Settled, Working
<1>7. WorkIsPlanned'
  BY <1>6 DEF WorkIsPlanned, Settled
<1>8. AllSupported'
  <2> SUFFICES ASSUME DecisionsDie PROVE Supported(ledger', receipts')
    BY <1>6 DEF AllSupported, Settled, DecisionsDie
  <2>1. CASE Working(op[p])
    BY <2>1, EndIsSupported DEF AllSupported, DecisionsDie, WorkIsPlanned, Sections, Working
  <2>2. CASE ~Working(op[p])
    <3>1. Settled
      BY <1>3, <2>2 DEF Settled
    <3> QED BY <3>1 DEF AllSupported
  <2> QED BY <2>1, <2>2
<1>9. AllKept'
  <2> SUFFICES ASSUME RewritingsEnd PROVE Kept(ledger', submissions', replaced')
    BY <1>6 DEF AllKept, Settled, RewritingsEnd
  <2>1. CASE Working(op[p])
    <3>1. op[p].failed => op[p].cmd.gate # "rewrite"
      BY DEF Sections, IsOperation, RewritingsEnd
    <3>2. /\ IsOperation(op[p]) /\ Planned(op[p])
          /\ Progress(op[p], ledger, submissions, receipts)
          /\ op[p].todo = <<"leave">> \/ op[p].cmd.gate \in Deciding
          /\ Kept(op[p].opened[1], op[p].opened[2], replaced)
      BY <2>1 DEF Sections, WorkIsPlanned, AllKept, RewritingsEnd, Working
    <3> QED BY <3>1, <3>2, EndKeeps
  <2>2. CASE ~Working(op[p])
    <3>1. Settled
      BY <1>3, <2>2 DEF Settled
    <3> QED BY <3>1 DEF AllKept
  <2> QED BY <2>1, <2>2
<1> QED BY <1>4, <1>5, <1>7, <1>8, <1>9

(* A gate at work has entered, and has only to leave if it leaves next. *)
LEMMA ProgressHead ==
    ASSUME NEW o, NEW content, NEW records, NEW found, Progress(o, content, records, found)
    PROVE  /\ Head(o.todo) \notin {"enter", "prepare"}
           /\ Head(o.todo) = "leave" => o.todo = <<"leave">>
BY Heads DEF Progress, DecisionProgress, ImportProgress, RemediationProgress

LEMMA LeaveKeeps ==
    ASSUME IInv, NEW p \in Procs, Leave(p) PROVE IInv'
<1>1. op[p] # Idle /\ Head(op[p].todo) = "leave"
  BY DEF Leave, At
<1>2. Working(op[p]) => op[p].todo = <<"leave">>
  BY <1>1, ProgressHead DEF IInv, WorkIsPlanned
<1>3. /\ Locks!Leave(p) /\ op' = [op EXCEPT ![p] = Idle]
      /\ UNCHANGED <<files, commands, replaced>> /\ crashes' \in 0..MaxCrashes
  BY DEF Leave, history, IInv, TypeOK
<1> QED BY <1>1, <1>2, <1>3, Ends

LEMMA DieKeeps ==
    ASSUME IInv, NEW p \in Procs, Die(p) PROVE IInv'
<1>1. /\ op[p] # Idle /\ op[p].cmd.gate \in Dying
      /\ Locks!Leave(p) /\ op' = [op EXCEPT ![p] = Idle]
      /\ UNCHANGED <<files, commands, replaced>>
  BY DEF Die, history
<1>2. crashes' \in 0..MaxCrashes
  BY GateAssumption DEF Die, IInv, TypeOK
<1> QED BY <1>1, <1>2, Ends

(* A gate that is about to enter has nothing behind it. *)
LEMMA BeforeWork ==
    ASSUME IInv, NEW p \in Procs, op[p] # Idle, NEW step \in {"enter", "prepare"},
           Head(op[p].todo) = step
    PROVE  /\ IsOperation(op[p])
           /\ op[p].opened = <<>> /\ op[p].ord = 0 /\ ~op[p].failed
           /\ step = "enter" => op[p].todo = <<"enter", "prepare">>
           /\ step = "prepare" => op[p].todo = <<"prepare">>
<1>1. IsOperation(op[p])
  BY DEF IInv, Sections
<1>2. op[p].opened = <<>>
  BY ProgressHead DEF IInv, WorkIsPlanned, Working
<1> QED BY <1>1, <1>2, Heads DEF IsOperation

LEMMA BeginKeeps ==
    ASSUME IInv, NEW p \in Procs, NEW c, IsCommand(c), Begin(p, c) PROVE IInv'
<1> DEFINE o == [cmd |-> c, todo |-> <<"enter", "prepare">>, ord |-> 0,
                 next |-> <<>>, opened |-> <<>>, failed |-> FALSE]
<1>1. op[p] = Idle /\ op' = [op EXCEPT ![p] = o]
  BY DEF Begin
<1>2. /\ op' = [q \in Procs |-> op'[q]] /\ op'[p] = o
      /\ \A q \in Procs \ {p} : op'[q] = op[q]
  BY <1>1 DEF IInv, Sections
<1>3. <<"enter", "prepare">> # <<>>
  OBVIOUS
<1>4. IsOperation(o) /\ Outside(o) /\ ~Working(o)
  BY <1>3 DEF IsOperation, Outside, Working
<1>5. ~Working(op[p]) /\ Outside(op[p])
  BY <1>1 DEF Working, Outside
<1> HIDE DEF o
<1>6. UNCHANGED <<files, inside, crashes, replaced>>
  BY DEF Begin, history
<1>7. commands' \in 0..MaxCommands
  BY GateAssumption DEF Begin, IInv, TypeOK
<1>8. Sections'
  BY <1>2, <1>4, <1>5, <1>6 DEF IInv, Sections
<1>9. Locks!TypeOK' /\ crashes' \in 0..MaxCrashes
  BY <1>6 DEF IInv, TypeOK, Locks!TypeOK
<1>10. \A q \in Procs : /\ Working(op'[q]) <=> Working(op[q])
                        /\ Working(op[q]) => op'[q] = op[q]
  BY <1>2, <1>4, <1>5
<1> QED BY <1>6, <1>7, <1>8, <1>9, <1>10, Aside

LEMMA EnterKeeps ==
    ASSUME IInv, NEW p \in Procs, Enter(p) PROVE IInv'
<1> DEFINE o == op[p]
           q == With(o, Tail(o.todo), o.ord, o.failed)
<1>1. o # Idle /\ Head(o.todo) = "enter"
  BY DEF Enter, At
<1>2. /\ IsOperation(o) /\ o.opened = <<>> /\ ~o.failed /\ o.todo = <<"enter", "prepare">>
      /\ op = [r \in Procs |-> op[r]]
  BY <1>1, BeforeWork DEF IInv, Sections
<1>3. op' = [op EXCEPT ![p] = q]
  BY <1>2, AdvanceIsWith DEF Enter
<1>4. /\ op' = [r \in Procs |-> op'[r]] /\ op'[p] = q
      /\ \A r \in Procs \ {p} : op'[r] = op[r]
  BY <1>2, <1>3
<1>5. q.todo = <<"prepare">> /\ q.cmd = o.cmd /\ q.opened = <<>>
  BY <1>2, Tails DEF With
<1>6. <<"prepare">> # <<>> /\ <<"prepare">> # <<"enter", "prepare">>
  BY Heads
<1>7. IsOperation(q)
  BY <1>2, <1>5, <1>6 DEF IsOperation, With
<1>8. q # Idle /\ ~Outside(q) /\ ~Working(q) /\ ~Working(o)
  BY <1>2, <1>5, <1>6 DEF Outside, Working, Idle
<1> HIDE DEF q
<1>9. UNCHANGED <<files, commands, crashes, replaced>>
  BY DEF Enter, history
<1>10. /\ inside'[p] = Scope(o.cmd.gate)
       /\ \A r \in Procs \ {p} : inside'[r] = inside[r] /\ inside[r] = {}
       /\ inside' \in [Procs -> SUBSET ({"ledger", "submissions", "receipt"} \cup Gates)]
  <2>1. Locks!Enter(p, Scope(o.cmd.gate))
    BY DEF Enter
  <2>2. /\ Scope(o.cmd.gate) \subseteq {"ledger", "submissions", "receipt"}
        /\ "ledger" \in Scope(o.cmd.gate)
    BY <1>2, LedgerIsLocked DEF IsOperation, IsCommand
  <2>3. ASSUME NEW r \in Procs \ {p} PROVE inside[r] = {}
    <3>1. inside[r] = {} \/ "ledger" \in inside[r]
      <4>1. CASE Outside(op[r])
        BY <4>1 DEF IInv, Sections
      <4>2. CASE ~Outside(op[r])
        <5>1. IsOperation(op[r]) /\ inside[r] = Scope(op[r].cmd.gate)
          BY <4>2, InSection DEF IInv, Sections
        <5> QED BY <5>1, LedgerIsLocked DEF IsOperation, IsCommand
      <4> QED BY <4>1, <4>2
    <3> QED BY <2>1, <2>2, <3>1 DEF Locks!Enter
  <2> QED BY <2>1, <2>2, <2>3 DEF Locks!Enter, IInv, TypeOK, Locks!TypeOK
<1>11. Sections'
  BY <1>4, <1>5, <1>7, <1>8, <1>10 DEF IInv, Sections
<1>12. Locks!TypeOK' /\ commands' \in 0..MaxCommands /\ crashes' \in 0..MaxCrashes
  BY <1>9, <1>10 DEF IInv, TypeOK, Locks!TypeOK
<1>13. \A r \in Procs : /\ Working(op'[r]) <=> Working(op[r])
                        /\ Working(op[r]) => op'[r] = op[r]
  BY <1>4, <1>8
<1> QED BY <1>9, <1>11, <1>12, <1>13, Aside

------------------------------------------------------------------------------
(* The preview *)

LEMMA ChangedIsSequence ==
    ASSUME ledger \in Seq(Block), NEW f, f = [i \in DOMAIN ledger |-> f[i]],
           \A i \in DOMAIN ledger : f[i] \in Block
    PROVE  f \in Seq(Block) /\ DOMAIN f = DOMAIN ledger
<1>1. DOMAIN ledger = 1..Len(ledger) /\ Len(ledger) \in Nat
  OBVIOUS
<1> QED BY <1>1, FunctionIsSequence

(* What a gate would write is a ledger, in which no body changes but by a  *)
(* rewriting, and no block is decided but by a decision or a remediation.  *)
PreviewOf(c, content, ids) ==
    /\ content \in Seq(Block)
    /\ ids \subseteq DOMAIN content
    /\ c.gate # "draft" => ids = c.ids
    /\ DOMAIN ledger \subseteq DOMAIN content
    /\ \A i \in DOMAIN ledger :
        content[i].body # ledger[i].body => c.gate \in Rewriting /\ i \in ids
    /\ \A i \in DOMAIN content : content[i].status # "unreviewed" =>
        /\ i \in DOMAIN ledger /\ content[i].body = ledger[i].body
        /\ \/ content[i].status = ledger[i].status
           \/ /\ c.gate \in Deciding \cup Remediating
              /\ i \in ids /\ content[i].status = c.decision

LEMMA DraftPreview ==
    ASSUME ledger \in Seq(Block), NEW c, IsCommand(c), c.gate = "draft"
    PROVE  PreviewOf(c, Prospective(c), AppliedIds(c))
<1>1. Prospective(c) = WithDraft(c.unit)
  BY DEF Prospective, Rewriting
<1>2. CASE Imported(c.unit)
  <2>1. WithDraft(c.unit) = ledger
    BY <1>2 DEF WithDraft
  <2>2. AppliedIds(c) = {i \in DOMAIN ledger : ledger[i].unit = c.unit}
    BY <1>2 DEF AppliedIds
  <2> QED BY <1>1, <2>1, <2>2 DEF PreviewOf
<1>3. CASE ~Imported(c.unit)
  <2> DEFINE b == [unit |-> c.unit, body |-> 0, anchor |-> 0, status |-> "unreviewed"]
             new == [k \in 1..Size |-> b]
             next == ledger \o new
  <2>1. b \in Block
    BY GateAssumption DEF Block, IsCommand, Anchors, Statuses
  <2> HIDE DEF b
  <2>2. Size \in Nat /\ new \in Seq(Block) /\ Len(new) = Size
    BY <2>1, GateAssumption
  <2>3. \A k \in 1..Size : new[k] = b
    OBVIOUS
  <2> HIDE DEF new
  <2>4. /\ next \in Seq(Block) /\ Len(next) = Len(ledger) + Size
        /\ Len(ledger) \in Nat
        /\ DOMAIN next = 1..(Len(ledger) + Size) /\ DOMAIN ledger = 1..Len(ledger)
        /\ \A i \in 1..Len(ledger) : next[i] = ledger[i]
    BY <2>2
  <2>5. \A i \in 1..(Len(ledger) + Size) : i > Len(ledger) => next[i] = b
    BY <2>2, <2>3
  <2>6. WithDraft(c.unit) = next
    BY <1>3 DEF WithDraft, new, b
  <2>7. AppliedIds(c) = {Len(ledger) + k : k \in 1..Size}
    BY <1>3 DEF AppliedIds
  <2>8. b.status = "unreviewed"
    BY DEF b
  <2> HIDE DEF next
  <2>9. AppliedIds(c) \subseteq DOMAIN next
    BY <2>2, <2>4, <2>7
  <2>10. \A i \in DOMAIN next : next[i].status # "unreviewed" => i \in DOMAIN ledger
    BY <2>2, <2>4, <2>5, <2>8
  <2>11. DOMAIN ledger \subseteq DOMAIN next
    BY <2>2, <2>4
  <2>12. \A i \in DOMAIN ledger : next[i] = ledger[i]
    BY <2>4
  <2> QED BY <1>1, <2>4, <2>6, <2>9, <2>10, <2>11, <2>12 DEF PreviewOf
<1> QED BY <1>2, <1>3

LEMMA RewritePreview ==
    ASSUME ledger \in Seq(Block), NEW c, IsCommand(c), c.gate \in Rewriting,
           c.ids \subseteq DOMAIN ledger
    PROVE  PreviewOf(c, Prospective(c), AppliedIds(c))
<1> DEFINE f == [i \in DOMAIN ledger |->
                    IF i \in c.ids
                    THEN [ledger[i] EXCEPT !.body = c.body, !.status = "unreviewed"]
                    ELSE ledger[i]]
<1>1. Prospective(c) = f /\ AppliedIds(c) = c.ids
  <2>1. Prospective(c) = Revised(c)
    BY DEF Prospective, Rewriting
  <2>2. Revised(c) = f
    BY DEF Revised, Changed
  <2>3. AppliedIds(c) = c.ids
    BY DEF AppliedIds, Rewriting
  <2> QED BY <2>1, <2>2, <2>3
<1>2. ASSUME NEW i \in DOMAIN ledger
      PROVE  /\ f[i] \in Block
             /\ i \notin c.ids => f[i] = ledger[i]
             /\ i \in c.ids => f[i].status = "unreviewed"
  <2>1. ledger[i] \in Block
    OBVIOUS
  <2>2. CASE i \in c.ids
    BY <2>1, <2>2 DEF Block, IsCommand, Statuses
  <2>3. CASE i \notin c.ids
    BY <2>1, <2>3
  <2> QED BY <2>2, <2>3
<1>3. f \in Seq(Block) /\ DOMAIN f = DOMAIN ledger
  BY <1>2, ChangedIsSequence
<1> HIDE DEF f
<1> QED BY <1>1, <1>2, <1>3 DEF PreviewOf

LEMMA ReanchorPreview ==
    ASSUME ledger \in Seq(Block), NEW c, IsCommand(c), c.gate = "reanchor",
           c.ids \subseteq DOMAIN ledger
    PROVE  PreviewOf(c, Prospective(c), AppliedIds(c))
<1> DEFINE f == [i \in DOMAIN ledger |->
                    IF i \in c.ids THEN [ledger[i] EXCEPT !.anchor = 1 - @] ELSE ledger[i]]
<1>1. Prospective(c) = f /\ AppliedIds(c) = c.ids
  <2>1. Prospective(c) = Reanchored(c)
    BY DEF Prospective, Rewriting
  <2>2. Reanchored(c) = f
    BY DEF Reanchored, Changed
  <2>3. AppliedIds(c) = c.ids
    BY DEF AppliedIds, Rewriting
  <2> QED BY <2>1, <2>2, <2>3
<1>2. ASSUME NEW i \in DOMAIN ledger
      PROVE  /\ f[i] \in Block
             /\ f[i].body = ledger[i].body /\ f[i].status = ledger[i].status
  <2>1. ledger[i] \in Block
    OBVIOUS
  <2>2. ledger[i].anchor \in {0, 1}
    BY <2>1 DEF Block, Anchors
  <2>3. 1 - ledger[i].anchor \in {0, 1}
    BY <2>2
  <2>4. CASE i \in c.ids
    BY <2>1, <2>3, <2>4 DEF Block, Anchors
  <2>5. CASE i \notin c.ids
    BY <2>1, <2>5
  <2> QED BY <2>4, <2>5
<1>3. f \in Seq(Block) /\ DOMAIN f = DOMAIN ledger
  BY <1>2, ChangedIsSequence
<1> HIDE DEF f
<1> QED BY <1>1, <1>2, <1>3 DEF PreviewOf

LEMMA DecisionPreview ==
    ASSUME ledger \in Seq(Block), NEW c, IsCommand(c), c.gate \in Deciding \cup {"remove"},
           c.ids \subseteq DOMAIN ledger
    PROVE  PreviewOf(c, Prospective(c), AppliedIds(c))
<1> DEFINE f == [i \in DOMAIN ledger |->
                    IF i \in c.ids THEN [ledger[i] EXCEPT !.status = c.decision]
                    ELSE ledger[i]]
<1>1. Prospective(c) = f /\ AppliedIds(c) = c.ids
  <2>1. Prospective(c) = Decided(c)
    BY DEF Prospective, Rewriting, Deciding
  <2>2. Decided(c) = f
    BY DEF Decided, Changed
  <2>3. AppliedIds(c) = c.ids
    BY DEF AppliedIds, Rewriting, Deciding
  <2> QED BY <2>1, <2>2, <2>3
<1>2. ASSUME NEW i \in DOMAIN ledger
      PROVE  /\ f[i] \in Block
             /\ f[i].body = ledger[i].body
             /\ i \notin c.ids => f[i] = ledger[i]
             /\ i \in c.ids => f[i].status = c.decision
  <2>1. ledger[i] \in Block
    OBVIOUS
  <2>2. CASE i \in c.ids
    BY <2>1, <2>2 DEF Block, IsCommand
  <2>3. CASE i \notin c.ids
    BY <2>1, <2>3
  <2> QED BY <2>2, <2>3
<1>3. f \in Seq(Block) /\ DOMAIN f = DOMAIN ledger
  BY <1>2, ChangedIsSequence
<1> HIDE DEF f
<1> QED BY <1>1, <1>2, <1>3 DEF PreviewOf, Remediating

LEMMA Preview ==
    ASSUME ledger \in Seq(Block), NEW c, IsCommand(c), c.ids \subseteq DOMAIN ledger
    PROVE  PreviewOf(c, Prospective(c), AppliedIds(c))
BY DraftPreview, RewritePreview, ReanchorPreview, DecisionPreview
   DEF IsCommand, Gates, Rewriting, Deciding

(* The operation that has its preview. *)
Previewed(o) ==
    [cmd |-> [o.cmd EXCEPT !.ids = AppliedIds(o.cmd)], todo |-> Plan(o.cmd.gate),
     ord |-> o.ord, next |-> Prospective(o.cmd), opened |-> files, failed |-> o.failed]

LEMMA PreviewedIsExcept ==
    ASSUME NEW o, IsOperation(o)
    PROVE  [o EXCEPT !.todo = Plan(o.cmd.gate), !.opened = files, !.next = Prospective(o.cmd),
                     !.cmd.ids = AppliedIds(o.cmd)] = Previewed(o)
<1> DEFINE x == Plan(o.cmd.gate)
           y == files
           z == Prospective(o.cmd)
           ids == AppliedIds(o.cmd)
<1> HIDE DEF x, y, z, ids
<1>1. o = [cmd |-> o.cmd, todo |-> o.todo, ord |-> o.ord, next |-> o.next,
           opened |-> o.opened, failed |-> o.failed]
  BY DEF IsOperation
<1> DEFINE a == [o EXCEPT !.todo = x]
           b == [a EXCEPT !.opened = y]
           d == [b EXCEPT !.next = z]
<1>2. [o EXCEPT !.todo = x, !.opened = y, !.next = z, !.cmd.ids = ids] =
        [d EXCEPT !.cmd.ids = ids]
  OBVIOUS
<1>3. a = [cmd |-> o.cmd, todo |-> x, ord |-> o.ord, next |-> o.next,
           opened |-> o.opened, failed |-> o.failed]
  BY <1>1
<1> HIDE DEF a
<1>4. b = [cmd |-> o.cmd, todo |-> x, ord |-> o.ord, next |-> o.next,
           opened |-> y, failed |-> o.failed]
  BY <1>3
<1> HIDE DEF b
<1>5. d = [cmd |-> o.cmd, todo |-> x, ord |-> o.ord, next |-> z,
           opened |-> y, failed |-> o.failed]
  BY <1>4
<1> HIDE DEF d
<1>6. [d EXCEPT !.cmd.ids = ids] =
        [cmd |-> [o.cmd EXCEPT !.ids = ids], todo |-> x, ord |-> o.ord, next |-> z,
         opened |-> y, failed |-> o.failed]
  BY <1>5
<1> QED BY <1>2, <1>6 DEF Previewed, x, y, z, ids

(* The preview is what the gate is to do, and nothing of it is done yet. *)
LEMMA PreviewedIsPlanned ==
    ASSUME IInv, NEW o, IsOperation(o), o.opened = <<>>, Accepts(o.cmd)
    PROVE  LET q == Previewed(o) IN
            /\ IsOperation(q) /\ Working(q) /\ ~Outside(q)
            /\ q.cmd.gate = o.cmd.gate
            /\ q.opened = <<ledger, submissions, receipts>>
            /\ Planned(q) /\ Progress(q, ledger, submissions, receipts)
<1> DEFINE q == Previewed(o)
           c == o.cmd
<1>1. /\ q.cmd = [c EXCEPT !.ids = AppliedIds(c)] /\ q.todo = Plan(c.gate) /\ q.ord = 0
      /\ q.next = Prospective(c) /\ q.opened = <<ledger, submissions, receipts>> /\ ~q.failed
      /\ q = [cmd |-> q.cmd, todo |-> q.todo, ord |-> q.ord, next |-> q.next,
              opened |-> q.opened, failed |-> q.failed]
      /\ q.failed \in BOOLEAN
  BY DEF Previewed, files, IsOperation
<1> HIDE DEF q
<1>2. IsCommand(c)
  BY DEF IsOperation
<1>3. /\ q.cmd = [gate |-> c.gate, unit |-> c.unit, ids |-> AppliedIds(c),
                  decision |-> c.decision, target |-> c.target, review |-> c.review,
                  seen |-> c.seen, body |-> c.body]
  BY <1>1, <1>2 DEF IsCommand
<1>4. /\ q.cmd.gate = c.gate /\ q.cmd.ids = AppliedIds(c) /\ q.cmd.decision = c.decision
      /\ q.cmd.target = c.target
      /\ IsCommand(q.cmd)
  BY <1>2, <1>3 DEF IsCommand
<1>5. <<ledger, submissions, receipts>> # <<>>
  OBVIOUS
<1>6. Progress(q, ledger, submissions, receipts)
  <2>1. CASE c.gate \in Deciding
    <3>1. q.todo = <<"receipt", "ledger", "leave">>
      BY <1>1, <2>1 DEF Plan, Deciding, Remediating
    <3> QED BY <1>1, <1>4, <2>1, <3>1 DEF Progress, DecisionProgress
  <2>2. CASE c.gate \in Rewriting \cup {"draft"}
    <3>1. q.todo = <<"ledger", "number", "record", "leave">>
      BY <1>1, <2>2 DEF Plan, Deciding, Remediating, Rewriting
    <3> QED BY <1>1, <1>4, <2>2, <3>1 DEF Progress, ImportProgress
  <2>3. CASE c.gate \in Remediating
    <3>1. q.todo = <<"ledger", "number", "record", "receipt", "reread", "leave">>
      BY <1>1, <2>3 DEF Plan, Deciding, Remediating
    <3> QED BY <1>1, <1>4, <2>3, <3>1 DEF Progress, RemediationProgress
  <2> QED BY <1>2, <2>1, <2>2, <2>3
          DEF IsCommand, Gates, Deciding, Rewriting, Remediating
<1>7. q.todo \notin {<<>>, <<"enter", "prepare">>, <<"prepare">>}
  BY <1>6, ProgressAhead
<1>8. IsOperation(q)
  BY <1>1, <1>4, <1>5, <1>7 DEF IsOperation
<1>9. Working(q) /\ ~Outside(q)
  BY <1>1, <1>5, <1>8, ProgressIsInside
<1>10. Planned(q)
  <2>1. c.ids \subseteq DOMAIN ledger /\ ledger \in Seq(Block)
    BY DEF Accepts, IInv, TypeOK
  <2>2. PreviewOf(c, Prospective(c), AppliedIds(c))
    BY <1>2, <2>1, Preview
  <2>3. RecordsTyped(submissions) /\ ReceiptsTyped(receipts) /\ Numbered(submissions)
    BY DEF IInv, TypeOK, UniqueOrdinals, RecordsTyped, ReceiptsTyped, Numbered
  <2>4. ASSUME c.gate \in Deciding \cup Remediating
        PROVE  \A r \in receipts : r.name # ReceiptName(q.cmd, ledger)
    <3>1. ledger = c.seen /\ ~ReceiptExists(c)
      BY <1>2, <2>4 DEF Accepts, Deciding, Remediating, Rewriting
    <3>2. q.cmd.ids = c.ids
      BY <1>4, <2>4 DEF AppliedIds, Deciding, Remediating
    <3>3. ReceiptName(q.cmd, ledger) = ReceiptName(c, c.seen)
      BY <1>4, <3>1, <3>2 DEF ReceiptName
    <3> QED BY <3>1, <3>3 DEF ReceiptExists
  <2>5. /\ q.opened[1] = ledger /\ q.opened[2] = submissions /\ q.opened[3] = receipts
        /\ q.opened = <<q.opened[1], q.opened[2], q.opened[3]>>
    BY <1>1
  <2>6. /\ PreviewOf(q.cmd, q.next, q.cmd.ids)
        /\ q.cmd.gate # "draft" => q.cmd.ids \subseteq DOMAIN ledger
    BY <1>1, <1>4, <2>1, <2>2 DEF PreviewOf
  <2>7. /\ RecordsTyped(q.opened[2]) /\ ReceiptsTyped(q.opened[3]) /\ Numbered(q.opened[2])
        /\ q.cmd.gate \in Deciding \cup Remediating =>
            \A r \in q.opened[3] : r.name # ReceiptName(q.cmd, q.opened[1])
    BY <1>4, <2>3, <2>4, <2>5
  <2>8. q.opened[1] \in Seq(Block) /\ ledger = q.opened[1]
    BY <2>1, <2>5
  <2> QED BY <2>5, <2>6, <2>7, <2>8 DEF Planned, PreviewOf
<1> QED BY <1>1, <1>4, <1>6, <1>8, <1>9, <1>10 DEF q

LEMMA PrepareKeeps ==
    ASSUME IInv, NEW p \in Procs, Prepare(p) PROVE IInv'
<1> DEFINE o == op[p]
<1>1. o # Idle /\ Head(o.todo) = "prepare"
  BY DEF Prepare, At
<1>2. /\ IsOperation(o) /\ o.opened = <<>> /\ o.todo = <<"prepare">>
      /\ op = [r \in Procs |-> op[r]]
  BY <1>1, BeforeWork DEF IInv, Sections
<1>3. UNCHANGED <<ledger, submissions, receipts, inside, commands, crashes, replaced>>
  BY DEF Prepare, files, history
<1>4. <<"prepare">> # <<"enter", "prepare">>
  BY Heads, Tails
<1>5. ~Outside(o) /\ ~Working(o)
  BY <1>1, <1>2, <1>4 DEF Outside, Working
<1>6. \A r \in Procs \ {p} : ~Working(op[r])
  BY <1>5, InSection, OthersWait DEF IInv
<1>7. Settled
  BY <1>5, <1>6 DEF Settled
<1>8. CASE Accepts(o.cmd)
  <2> DEFINE q == Previewed(o)
  <2>1. op' = [op EXCEPT ![p] = q]
    <3>1. op' = [op EXCEPT ![p] = [o EXCEPT !.todo = Plan(o.cmd.gate), !.opened = files,
                    !.next = Prospective(o.cmd), !.cmd.ids = AppliedIds(o.cmd)]]
      BY <1>8 DEF Prepare
    <3>2. [o EXCEPT !.todo = Plan(o.cmd.gate), !.opened = files,
                    !.next = Prospective(o.cmd), !.cmd.ids = AppliedIds(o.cmd)] = q
      BY <1>2, PreviewedIsExcept, Zenon
    <3> QED BY <3>1, <3>2
  <2>2. /\ IsOperation(q) /\ Working(q) /\ ~Outside(q)
        /\ q.cmd.gate = o.cmd.gate
        /\ q.opened = <<ledger, submissions, receipts>>
        /\ Planned(q) /\ Progress(q, ledger, submissions, receipts)
    BY <1>2, <1>8, PreviewedIsPlanned
  <2> HIDE DEF q
  <2>3. /\ op' = [r \in Procs |-> op'[r]] /\ op'[p] = q
        /\ \A r \in Procs \ {p} : op'[r] = op[r]
    BY <1>2, <2>1
  <2>4. TypeOK' /\ UniqueOrdinals'
    BY <1>3 DEF IInv, TypeOK, UniqueOrdinals, Locks!TypeOK
  <2>5. Sections'
    BY <1>3, <1>5, <2>2, <2>3 DEF IInv, Sections
  <2>6. WorkIsPlanned'
    <3> SUFFICES ASSUME NEW r \in Procs, Working(op'[r])
                 PROVE  /\ Planned(op'[r])
                        /\ Progress(op'[r], ledger', submissions', receipts')
      BY DEF WorkIsPlanned
    <3>1. r = p
      BY <1>6, <2>3
    <3> QED BY <1>3, <2>2, <2>3, <3>1
  <2>7. ~Settled'
    BY <2>2, <2>3 DEF Settled
  <2>8. q.opened[1] = ledger /\ q.opened[2] = submissions /\ q.opened[3] = receipts
    BY <2>2
  <2>9. AllSupported'
    BY <1>6, <1>7, <2>3, <2>7, <2>8 DEF IInv, AllSupported, DecisionsDie, Supported
  <2>10. AllKept'
    BY <1>3, <1>6, <1>7, <2>3, <2>7, <2>8 DEF IInv, AllKept, RewritingsEnd, Kept, Wordings
  <2> QED BY <2>4, <2>5, <2>6, <2>9, <2>10 DEF IInv
<1>9. CASE ~Accepts(o.cmd)
  <2> DEFINE q == With(o, <<"leave">>, o.ord, o.failed)
  <2>1. op' = [op EXCEPT ![p] = q]
    <3>1. op' = [op EXCEPT ![p].todo = <<"leave">>]
      BY <1>9 DEF Prepare
    <3> QED BY <1>2, <3>1, TodoIsWith
  <2>2. q.todo = <<"leave">> /\ q.cmd = o.cmd /\ q.opened = <<>>
    BY <1>2 DEF With
  <2>3. /\ <<"leave">> # <<>> /\ <<"leave">> # <<"enter", "prepare">>
        /\ <<"leave">> # <<"prepare">>
    BY Heads
  <2>4. IsOperation(q)
    BY <1>2, <2>2, <2>3 DEF IsOperation, With
  <2>5. ~Outside(q) /\ ~Working(q)
    BY <2>2, <2>3 DEF Outside, Working, Idle
  <2> HIDE DEF q
  <2>6. /\ op' = [r \in Procs |-> op'[r]] /\ op'[p] = q
        /\ \A r \in Procs \ {p} : op'[r] = op[r]
    BY <1>2, <2>1
  <2>7. Sections'
    BY <1>3, <1>5, <2>2, <2>4, <2>5, <2>6 DEF IInv, Sections
  <2>8. /\ Locks!TypeOK' /\ commands' \in 0..MaxCommands /\ crashes' \in 0..MaxCrashes
        /\ UNCHANGED <<files, replaced>>
    BY <1>3 DEF IInv, TypeOK, Locks!TypeOK, files
  <2>9. \A r \in Procs : /\ Working(op'[r]) <=> Working(op[r])
                         /\ Working(op[r]) => op'[r] = op[r]
    BY <1>5, <2>5, <2>6
  <2> QED BY <2>7, <2>8, <2>9, Aside
<1> QED BY <1>8, <1>9

------------------------------------------------------------------------------
(* The invariant holds *)

LEMMA InitInvariant ==
    ASSUME Init PROVE IInv
<1>1. PICK start \in Starts :
        /\ ledger = start.ledger /\ submissions = start.submissions
        /\ replaced = start.replaced /\ commands = start.commands
  BY DEF Init
<1>2. /\ receipts = {} /\ crashes = 0 /\ op = [p \in Procs |-> Idle]
      /\ inside = [p \in Procs |-> {}]
  BY DEF Init, Locks!Init
<1>3. TypeOK
  <2>1. /\ start.ledger \in Seq(Block) /\ start.commands \in 0..MaxCommands
        /\ \A s \in start.submissions :
             /\ s.ord \in Nat \ {0} /\ s.gate \in {"draft", "rewrite"}
             /\ s.ids \subseteq DOMAIN s.after
             /\ s.before \in Seq(Block) /\ s.after \in Seq(Block)
    BY StartAssumption
  <2>2. {"draft", "rewrite"} \subseteq Gates
    BY DEF Gates, Rewriting
  <2>3. \A s \in submissions :
          /\ s.ord \in Nat \ {0} /\ s.gate \in Gates /\ s.ids \subseteq DOMAIN s.after
          /\ s.before \in Seq(Block) /\ s.after \in Seq(Block)
    BY <1>1, <2>1, <2>2
  <2>4. Locks!TypeOK
    BY <1>2 DEF Locks!TypeOK
  <2>5. crashes \in 0..MaxCrashes
    BY <1>2, GateAssumption
  <2> QED BY <1>1, <1>2, <2>1, <2>3, <2>4, <2>5 DEF TypeOK
<1>4. Sections
  BY <1>2 DEF Sections, Outside
<1>5. UniqueOrdinals
  BY <1>1, StartAssumption DEF UniqueOrdinals
<1>6. Settled
  BY <1>2 DEF Settled, Working
<1>7. WorkIsPlanned
  BY <1>6 DEF WorkIsPlanned, Settled
<1>8. AllSupported
  BY <1>1, <1>6, StartAssumption DEF AllSupported, Settled, Supported
<1>9. AllKept
  BY <1>1, <1>6, StartAssumption DEF AllKept, Settled, Kept
<1> QED BY <1>3, <1>4, <1>5, <1>7, <1>8, <1>9 DEF IInv

(* Every command that an operator starts has its type. *)
LEMMA CommandIsTyped ==
    ASSUME commands + 1 \in 0..MaxCommands, NEW gate \in Gates, NEW unit, NEW ids,
           NEW decision \in Statuses, NEW target,
           gate = "draft" => unit \in Drafts, gate = "remove" => decision = "rejected"
    PROVE  /\ IsCommand(Command(gate, unit, ids, decision, target))
           /\ \A review :
                IsCommand([Command(gate, unit, ids, decision, target) EXCEPT !.review = review])
<1> DEFINE C(review) ==
                [gate |-> gate, unit |-> unit, ids |-> ids, decision |-> decision,
                 target |-> target, review |-> review, seen |-> ledger,
                 body |-> commands + 1]
<1>1. ASSUME NEW review PROVE IsCommand(C(review))
  BY DEF IsCommand
<1>2. Command(gate, unit, ids, decision, target) = C(<<>>)
  BY DEF Command
<1>3. ASSUME NEW review
      PROVE  [Command(gate, unit, ids, decision, target) EXCEPT !.review = review] = C(review)
  BY DEF Command
<1> HIDE DEF C
<1> QED BY <1>1, <1>2, <1>3

LEMMA StartKeeps ==
    ASSUME IInv, NEW p \in Procs, Start(p) PROVE IInv'
<1> SUFFICES ASSUME NEW c, Begin(p, c), commands + 1 \in 0..MaxCommands => IsCommand(c)
             PROVE  IInv'
  <2>1. CASE \E d \in Drafts : Begin(p, Command("draft", d, {}, "unreviewed", 0))
    <3>1. PICK d \in Drafts : Begin(p, Command("draft", d, {}, "unreviewed", 0))
      BY <2>1
    <3>2. commands + 1 \in 0..MaxCommands =>
            IsCommand(Command("draft", d, {}, "unreviewed", 0))
      BY CommandIsTyped DEF Gates, Statuses
    <3> QED BY <3>1, <3>2
  <2>2. CASE \E ids \in NonEmpty, gate \in {"rewrite", "repair", "reanchor"} :
                Begin(p, Command(gate, "none", ids, "unreviewed", 0))
    <3>1. PICK ids \in NonEmpty, gate \in {"rewrite", "repair", "reanchor"} :
                Begin(p, Command(gate, "none", ids, "unreviewed", 0))
      BY <2>2
    <3>2. commands + 1 \in 0..MaxCommands =>
            IsCommand(Command(gate, "none", ids, "unreviewed", 0))
      BY CommandIsTyped DEF Gates, Statuses
    <3> QED BY <3>1, <3>2
  <2>3. CASE \E ids \in NonEmpty, decision \in {"accepted", "rejected"} :
                Begin(p, Command("review", "none", ids, decision, 0))
    <3>1. PICK ids \in NonEmpty, decision \in {"accepted", "rejected"} :
                Begin(p, Command("review", "none", ids, decision, 0))
      BY <2>3
    <3>2. commands + 1 \in 0..MaxCommands =>
            IsCommand(Command("review", "none", ids, decision, 0))
      BY CommandIsTyped DEF Gates, Statuses
    <3> QED BY <3>1, <3>2
  <2>4. ASSUME NEW ids \in NonEmpty, Begin(p, Command("reconsider", "none", ids, "accepted", 0))
        PROVE  IInv'
    <3>1. commands + 1 \in 0..MaxCommands =>
            IsCommand(Command("reconsider", "none", ids, "accepted", 0))
      BY CommandIsTyped DEF Gates, Statuses
    <3> QED BY <2>4, <3>1
  <2>5. ASSUME NEW ids \in NonEmpty, Begin(p, Command("remove", "none", ids, "rejected", 0))
        PROVE  IInv'
    <3>1. commands + 1 \in 0..MaxCommands =>
            IsCommand(Command("remove", "none", ids, "rejected", 0))
      BY CommandIsTyped DEF Gates, Statuses
    <3> QED BY <2>5, <3>1
  <2>6. ASSUME NEW ids \in NonEmpty, NEW s \in submissions,
               Begin(p, Command("acceptance", "none", ids, "accepted", s.ord))
        PROVE  IInv'
    <3>1. commands + 1 \in 0..MaxCommands =>
            IsCommand(Command("acceptance", "none", ids, "accepted", s.ord))
      BY CommandIsTyped DEF Gates, Statuses
    <3> QED BY <2>6, <3>1
  <2>7. ASSUME NEW ids \in NonEmpty, NEW s \in submissions, NEW r \in receipts,
               Begin(p, [Command("mend", "none", ids, "unreviewed", s.ord)
                            EXCEPT !.review = r.name])
        PROVE  IInv'
    <3>1. commands + 1 \in 0..MaxCommands => \A review :
            IsCommand([Command("mend", "none", ids, "unreviewed", s.ord)
                        EXCEPT !.review = review])
      BY CommandIsTyped DEF Gates, Statuses
    <3> QED BY <2>7, <3>1
  <2> QED BY <2>1, <2>2, <2>3, <2>4, <2>5, <2>6, <2>7 DEF Start
<1>1. commands + 1 \in 0..MaxCommands
  BY GateAssumption DEF Begin, IInv, TypeOK
<1> QED BY <1>1, BeginKeeps

LEMMA StepInvariant ==
    ASSUME IInv, [Next]_vars PROVE IInv'
<1>1. CASE UNCHANGED vars
  <2>1. /\ UNCHANGED <<files, replaced>> /\ Sections' /\ Locks!TypeOK'
        /\ commands' \in 0..MaxCommands /\ crashes' \in 0..MaxCrashes
    BY <1>1 DEF vars, files, history, IInv, Sections, TypeOK, Locks!TypeOK
  <2>2. op' = op
    BY <1>1 DEF vars
  <2> QED BY <2>1, <2>2, Aside
<1>2. ASSUME NEW p \in Procs, Start(p) \/ Proceed(p) \/ Fail(p) \/ Die(p)
      PROVE  IInv'
  <2>1. CASE Proceed(p)
    BY <2>1, EnterKeeps, PrepareKeeps, LeaveKeeps, WriteLedgerKeeps, TakeNumberKeeps,
       WriteRecordKeeps, WriteReceiptKeeps, RereadKeeps, DropReceiptKeeps, DropRecordKeeps,
       RestoreLedgerKeeps
       DEF Proceed
  <2> QED BY <1>2, <2>1, StartKeeps, FailKeeps, DieKeeps
<1> QED BY <1>1, <1>2 DEF Next

(* The inductive invariant: a gate in its section is alone there, the files *)
(* are what its preview and the steps it has left say, and decisions have   *)
(* receipts and wordings are kept in the files that it has opened.          *)
THEOREM Invariance == Spec => []IInv
<1>1. Init => IInv
  BY InitInvariant
<1>2. IInv /\ [Next]_vars => IInv'
  BY StepInvariant
<1> QED BY <1>1, <1>2, PTL DEF Spec

------------------------------------------------------------------------------
(* Theorems *)

(* The files of a dialogue always hold what the gates can read, whatever    *)
(* fails and whoever dies: the type invariant of CommentaryGates.           *)
THEOREM TypeCorrect == Spec => []TypeOK
<1>1. IInv => TypeOK
  BY DEF IInv
<1> QED BY <1>1, Invariance, PTL

(* No two submissions get one number, whatever fails and whoever dies:      *)
(* nextOrdinal of recordSubmission, of recordRewriteSubmission and of the   *)
(* remediation all run in the section of the ledger.                        *)
THEOREM Numbers == Spec => []UniqueOrdinals
<1>1. IInv => UniqueOrdinals
  BY DEF IInv
<1> QED BY <1>1, Invariance, PTL

(* A quiet repository has no gate at work. *)
LEMMA QuietIsSettled ==
    ASSUME IInv, Quiet PROVE Settled
<1> SUFFICES ASSUME NEW p \in Procs, Working(op[p]) PROVE FALSE
  BY DEF Settled
<1>1. IsOperation(op[p]) /\ op[p].opened # <<>>
  BY DEF IInv, Sections, Working
<1>2. ~Outside(op[p])
  BY <1>1, ProgressIsInside
<1>3. inside[p] # {}
  BY <1>2, InSection DEF IInv
<1> QED BY <1>3 DEF Quiet

(* If no process dies but in a review, a reconsideration or an acceptance,  *)
(* then no block changes its review status without a receipt, whatever      *)
(* fails: these gates write the receipt before the ledger, and a            *)
(* remediation takes both back.                                             *)
THEOREM Decisions ==
    ASSUME DecisionsDie PROVE Spec => []DecisionsHaveReceipts
<1>1. IInv => DecisionsHaveReceipts
  BY QuietIsSettled DEF IInv, AllSupported, Supported, DecisionsHaveReceipts
<1> QED BY <1>1, Invariance, PTL

(* If moreover no rewrite import fails half way, then no wording is lost    *)
(* that a rewriting has replaced: what a repair has written is taken back,  *)
(* and any other rewriting records the blocks that it supersedes.           *)
THEOREM WordingsKept ==
    ASSUME RewritingsEnd PROVE Spec => []SupersededIsKept
<1>1. IInv => SupersededIsKept
  BY QuietIsSettled DEF IInv, AllKept, Kept, SupersededIsKept
<1> QED BY <1>1, Invariance, PTL

(* A repair, a decision or a remediation of which a step fails gives back   *)
(* the lock with the files as it has found them, for any faults and deaths. *)
THEOREM NoTrace == Spec => FailuresLeaveNoTrace
<1>1. ASSUME IInv, NEW p \in Procs, Leave(p), op[p].failed,
             op[p].cmd.gate \notin {"draft", "rewrite"}
      PROVE  files = op[p].opened
  <2> DEFINE o == op[p]
  <2>1. o # Idle /\ Head(o.todo) = "leave"
    BY <1>1 DEF Leave, At
  <2>2. IsOperation(o)
    BY <1>1, <2>1 DEF IInv, Sections
  <2>3. o.opened # <<>>
    BY <1>1, <2>2 DEF IsOperation
  <2>4. Planned(o) /\ Progress(o, ledger, submissions, receipts)
    BY <1>1, <2>1, <2>3 DEF IInv, WorkIsPlanned, Working
  <2>5. o.todo = <<"leave">>
    BY <2>1, <2>4, ProgressHead
  <2>6. ledger = o.opened[1] /\ submissions = o.opened[2] /\ receipts = o.opened[3]
    <3>1. CASE o.cmd.gate \in Deciding
      BY <1>1, <2>4, <2>5, <3>1, Heads
         DEF Progress, DecisionProgress, Deciding, Rewriting, Remediating
    <3>2. CASE o.cmd.gate \in Rewriting \cup {"draft"}
      BY <1>1, <2>4, <2>5, <3>2, ImportEnds DEF Progress, Deciding, Rewriting, Remediating
    <3>3. CASE o.cmd.gate \in Remediating
      BY <1>1, <2>4, <2>5, <3>3, RemediationEnds
         DEF Progress, Deciding, Rewriting, Remediating
    <3> QED BY <2>4, <3>1, <3>2, <3>3 DEF Progress
  <2> QED BY <2>4, <2>6 DEF Planned, files
<1>2. IInv /\ [Next]_vars =>
        [\A p \in Procs :
            Leave(p) /\ op[p].failed /\ op[p].cmd.gate \notin {"draft", "rewrite"}
                => files = op[p].opened]_vars
  BY <1>1
<1> QED BY <1>2, Invariance, PTL DEF Spec, FailuresLeaveNoTrace

------------------------------------------------------------------------------
(* A draft is imported once *)

BlocksOf(content, d) == {i \in DOMAIN content : content[i].unit = d}

Once(content) == \A d \in Drafts : Cardinality(BlocksOf(content, d)) \in {0, Size}

(* A gate at work can only put in place what it has opened or previewed. *)
OnceInv ==
    /\ Once(ledger)
    /\ \A p \in Procs : Working(op[p]) => Once(op[p].opened[1]) /\ Once(op[p].next)

LEMMA SameUnits ==
    ASSUME Once(ledger), NEW content, DOMAIN content = DOMAIN ledger,
           \A i \in DOMAIN ledger : content[i].unit = ledger[i].unit
    PROVE  Once(content)
<1>1. \A d : BlocksOf(content, d) = BlocksOf(ledger, d)
  BY DEF BlocksOf
<1> QED BY <1>1 DEF Once

(* A draft that is not imported adds its blocks behind the others. *)
LEMMA DraftOnce ==
    ASSUME ledger \in Seq(Block), Once(ledger), NEW c, IsCommand(c), c.gate = "draft"
    PROVE  Once(Prospective(c))
<1>1. Prospective(c) = WithDraft(c.unit)
  BY DEF Prospective, Rewriting
<1>2. CASE Imported(c.unit)
  BY <1>1, <1>2 DEF WithDraft
<1>3. CASE ~Imported(c.unit)
  <2> DEFINE b == [unit |-> c.unit, body |-> 0, anchor |-> 0, status |-> "unreviewed"]
             new == [k \in 1..Size |-> b]
             next == ledger \o new
             len == Len(ledger)
  <2>1. b \in Block /\ b.unit = c.unit
    BY GateAssumption DEF Block, IsCommand, Anchors, Statuses
  <2> HIDE DEF b
  <2>2. Size \in Nat /\ Size > 0 /\ new \in Seq(Block) /\ Len(new) = Size
    BY <2>1, GateAssumption
  <2>3. \A k \in 1..Size : new[k] = b
    OBVIOUS
  <2> HIDE DEF new
  <2>4. /\ len \in Nat /\ DOMAIN ledger = 1..len
        /\ DOMAIN next = 1..(len + Size)
        /\ \A i \in 1..len : next[i] = ledger[i]
    BY <2>2
  <2>5. \A i \in 1..(len + Size) : i > len => next[i] = b
    BY <2>2, <2>3
  <2>6. Prospective(c) = next
    BY <1>1, <1>3 DEF WithDraft, new, b
  <2> HIDE DEF next, len
  <2>7. \A i \in DOMAIN ledger : ledger[i].unit # c.unit
    BY <1>3 DEF Imported
  <2> SUFFICES ASSUME NEW d \in Drafts
               PROVE  Cardinality(BlocksOf(next, d)) \in {0, Size}
    BY <2>6 DEF Once
  <2>8. CASE d # c.unit
    <3>1. BlocksOf(next, d) = BlocksOf(ledger, d)
      BY <2>1, <2>2, <2>4, <2>5, <2>8 DEF BlocksOf
    <3> QED BY <3>1 DEF Once
  <2>9. CASE d = c.unit
    <3>1. BlocksOf(next, d) = (len + 1)..(len + Size)
      BY <2>1, <2>2, <2>4, <2>5, <2>7, <2>9 DEF BlocksOf
    <3>2. Cardinality((len + 1)..(len + Size)) = Size
      <4>1. len + 1 \in Int /\ len + Size \in Int
        BY <2>2, <2>4
      <4>2. ~(len + 1 > len + Size) /\ (len + Size) - (len + 1) + 1 = Size
        BY <2>2, <2>4
      <4> QED BY <4>1, <4>2, FS_Interval
    <3> QED BY <3>1, <3>2
  <2> QED BY <2>8, <2>9
<1> QED BY <1>2, <1>3

(* Any other gate leaves the blocks in their units. *)
LEMMA PreviewOnce ==
    ASSUME ledger \in Seq(Block), Once(ledger), NEW c, IsCommand(c), c.ids \subseteq DOMAIN ledger
    PROVE  Once(Prospective(c))
<1>1. CASE c.gate = "draft"
  BY <1>1, DraftOnce
<1>2. CASE c.gate \in Rewriting
  <2> DEFINE f == [i \in DOMAIN ledger |->
                    IF i \in c.ids
                    THEN [ledger[i] EXCEPT !.body = c.body, !.status = "unreviewed"]
                    ELSE ledger[i]]
  <2>1. Prospective(c) = Revised(c)
    BY <1>2 DEF Prospective, Rewriting
  <2>2. Revised(c) = f
    BY DEF Revised, Changed
  <2>3. \A i \in DOMAIN ledger : f[i].unit = ledger[i].unit
    BY DEF Block
  <2>4. DOMAIN f = DOMAIN ledger
    OBVIOUS
  <2> HIDE DEF f
  <2> QED BY <2>1, <2>2, <2>3, <2>4, SameUnits
<1>3. CASE c.gate = "reanchor"
  <2> DEFINE f == [i \in DOMAIN ledger |->
                    IF i \in c.ids THEN [ledger[i] EXCEPT !.anchor = 1 - @] ELSE ledger[i]]
  <2>1. Prospective(c) = Reanchored(c)
    BY <1>3 DEF Prospective, Rewriting
  <2>2. Reanchored(c) = f
    BY DEF Reanchored, Changed
  <2>3. \A i \in DOMAIN ledger : f[i].unit = ledger[i].unit
    BY DEF Block
  <2>4. DOMAIN f = DOMAIN ledger
    OBVIOUS
  <2> HIDE DEF f
  <2> QED BY <2>1, <2>2, <2>3, <2>4, SameUnits
<1>4. CASE c.gate \in Deciding \cup {"remove"}
  <2> DEFINE f == [i \in DOMAIN ledger |->
                    IF i \in c.ids THEN [ledger[i] EXCEPT !.status = c.decision]
                    ELSE ledger[i]]
  <2>1. Prospective(c) = Decided(c)
    BY <1>4 DEF Prospective, Rewriting, Deciding
  <2>2. Decided(c) = f
    BY DEF Decided, Changed
  <2>3. \A i \in DOMAIN ledger : f[i].unit = ledger[i].unit
    BY DEF Block
  <2>4. DOMAIN f = DOMAIN ledger
    OBVIOUS
  <2> HIDE DEF f
  <2> QED BY <2>1, <2>2, <2>3, <2>4, SameUnits
<1> QED BY <1>1, <1>2, <1>3, <1>4 DEF IsCommand, Gates, Rewriting, Deciding

(* The steps that keep or put back what was opened or previewed. *)
LEMMA OnceStays ==
    ASSUME OnceInv,
           \/ ledger' = ledger
           \/ \E p \in Procs : Working(op[p]) /\ ledger' \in {op[p].opened[1], op[p].next},
           \A p \in Procs : Working(op'[p]) =>
                \/ /\ Working(op[p])
                   /\ op'[p].opened = op[p].opened /\ op'[p].next = op[p].next
                \/ op'[p].opened[1] = ledger /\ Once(op'[p].next)
    PROVE  OnceInv'
<1>1. Once(ledger')
  BY DEF OnceInv
<1>2. ASSUME NEW p \in Procs, Working(op'[p])
      PROVE  Once(op'[p].opened[1]) /\ Once(op'[p].next)
  BY <1>2 DEF OnceInv
<1> QED BY <1>1, <1>2 DEF OnceInv, Once, BlocksOf

(* A step of one gate that keeps what it has opened and previewed. *)
LEMMA OnceStep ==
    ASSUME IInv, OnceInv, NEW p \in Procs, NEW q, op' = [op EXCEPT ![p] = q],
           Working(q) => /\ Working(op[p])
                         /\ q.opened = op[p].opened /\ q.next = op[p].next,
           \/ ledger' = ledger
           \/ Working(op[p]) /\ ledger' \in {op[p].opened[1], op[p].next}
    PROVE  OnceInv'
<1>1. op = [r \in Procs |-> op[r]]
  BY DEF IInv, Sections
<1>2. op'[p] = q /\ \A r \in Procs \ {p} : op'[r] = op[r]
  BY <1>1
<1> QED BY <1>2, OnceStays

(* What is left to do, the number and the failure do not matter. *)
LEMMA OnceWith ==
    ASSUME IInv, OnceInv, NEW p \in Procs, IsOperation(op[p]), NEW x, NEW n, NEW failed,
           op' = [op EXCEPT ![p] = With(op[p], x, n, failed)],
           \/ ledger' = ledger
           \/ Working(op[p]) /\ ledger' \in {op[p].opened[1], op[p].next}
    PROVE  OnceInv'
<1> DEFINE q == With(op[p], x, n, failed)
<1>1. q.opened = op[p].opened /\ q.next = op[p].next
  BY DEF With
<1>2. Working(q) => Working(op[p])
  BY <1>1 DEF Working, IsOperation, Idle
<1> HIDE DEF q
<1>3. op' = [op EXCEPT ![p] = q]
  BY DEF q
<1> QED BY <1>1, <1>2, <1>3, OnceStep

LEMMA OnceAdvances ==
    ASSUME IInv, OnceInv, NEW p \in Procs, op[p] # Idle, Advance(p),
           \/ ledger' = ledger
           \/ Working(op[p]) /\ ledger' \in {op[p].opened[1], op[p].next}
    PROVE  OnceInv'
<1> DEFINE o == op[p]
           x == Tail(o.todo)
<1>1. IsOperation(o) /\ op = [r \in Procs |-> op[r]]
  BY DEF IInv, Sections
<1>2. op' = [op EXCEPT ![p].todo = x]
  BY DEF Advance
<1> HIDE DEF x
<1>3. op' = [op EXCEPT ![p] = With(o, x, o.ord, o.failed)]
  BY <1>1, <1>2, TodoIsWith, Zenon
<1> QED BY <1>1, <1>3, OnceWith

LEMMA OncePrepared ==
    ASSUME IInv, OnceInv, NEW p \in Procs, Prepare(p) PROVE OnceInv'
<1> DEFINE o == op[p]
<1>1. o # Idle /\ Head(o.todo) = "prepare"
  BY DEF Prepare, At
<1>2. /\ IsOperation(o) /\ IsCommand(o.cmd) /\ ledger' = ledger
      /\ op = [r \in Procs |-> op[r]] /\ ledger \in Seq(Block)
  BY <1>1, BeforeWork DEF Prepare, IsOperation, files, IInv, Sections, TypeOK
<1>3. CASE Accepts(o.cmd)
  <2> DEFINE q == Previewed(o)
  <2>1. op' = [op EXCEPT ![p] = q]
    <3>1. op' = [op EXCEPT ![p] = [o EXCEPT !.todo = Plan(o.cmd.gate), !.opened = files,
                    !.next = Prospective(o.cmd), !.cmd.ids = AppliedIds(o.cmd)]]
      BY <1>3 DEF Prepare
    <3>2. [o EXCEPT !.todo = Plan(o.cmd.gate), !.opened = files,
                    !.next = Prospective(o.cmd), !.cmd.ids = AppliedIds(o.cmd)] = q
      BY <1>2, PreviewedIsExcept, Zenon
    <3> QED BY <3>1, <3>2
  <2>2. q.opened = <<ledger, submissions, receipts>> /\ q.next = Prospective(o.cmd)
    BY DEF Previewed, files
  <2> HIDE DEF q
  <2>3. Once(q.next)
    BY <1>2, <1>3, <2>2, PreviewOnce DEF Accepts, OnceInv
  <2>4. q.opened[1] = ledger
    BY <2>2
  <2>5. op'[p] = q /\ \A r \in Procs \ {p} : op'[r] = op[r]
    BY <1>2, <2>1
  <2> QED BY <1>2, <2>3, <2>4, <2>5, OnceStays
<1>4. CASE ~Accepts(o.cmd)
  <2> DEFINE x == <<"leave">>
  <2>1. op' = [op EXCEPT ![p].todo = x]
    BY <1>4 DEF Prepare
  <2> HIDE DEF x
  <2>2. op' = [op EXCEPT ![p] = With(o, x, o.ord, o.failed)]
    BY <1>2, <2>1, TodoIsWith, Zenon
  <2> QED BY <1>2, <2>2, OnceWith
<1> QED BY <1>3, <1>4

LEMMA OnceNumbered ==
    ASSUME IInv, OnceInv, NEW p \in Procs, TakeNumber(p) PROVE OnceInv'
<1> DEFINE o == op[p]
           x == Tail(o.todo)
<1>1. IsOperation(o) /\ op = [r \in Procs |-> op[r]] /\ ledger' = ledger
  BY DEF IInv, Sections, TakeNumber, At, files
<1>2. PICK n \in 1..(Cardinality(submissions) + MaxCommands) :
            op' = [op EXCEPT ![p].todo = x, ![p].ord = n]
  BY DEF TakeNumber
<1> HIDE DEF x
<1>3. op' = [op EXCEPT ![p] = With(o, x, n, o.failed)]
  BY <1>1, <1>2, NumberIsWith, Zenon
<1> QED BY <1>1, <1>3, OnceWith

LEMMA OnceFailed ==
    ASSUME IInv, OnceInv, NEW p \in Procs, Fail(p) PROVE OnceInv'
<1> DEFINE o == op[p]
           x == Undo(o.cmd.gate, Head(o.todo))
<1>1. IsOperation(o) /\ op = [r \in Procs |-> op[r]] /\ ledger' = ledger
  BY DEF IInv, Sections, Fail, files
<1>2. op' = [op EXCEPT ![p].failed = TRUE, ![p].todo = x]
  BY DEF Fail
<1> HIDE DEF x
<1>3. op' = [op EXCEPT ![p] = With(o, x, o.ord, TRUE)]
  BY <1>1, <1>2, FailureIsWith, Zenon
<1> QED BY <1>1, <1>3, OnceWith

LEMMA OnceKeeps ==
    ASSUME IInv, OnceInv, [Next]_vars PROVE OnceInv'
<1>1. CASE UNCHANGED vars
  <2>1. ledger' = ledger /\ op' = op
    BY <1>1 DEF vars, files
  <2> QED BY <2>1, OnceStays
<1>2. ASSUME NEW p \in Procs, Start(p) PROVE OnceInv'
  <2>1. PICK c : Begin(p, c)
    BY <1>2 DEF Start
  <2> DEFINE q == [cmd |-> c, todo |-> <<"enter", "prepare">>, ord |-> 0,
                   next |-> <<>>, opened |-> <<>>, failed |-> FALSE]
  <2>2. op' = [op EXCEPT ![p] = q] /\ ledger' = ledger
    BY <2>1 DEF Begin, files
  <2>3. ~Working(q)
    BY DEF Working
  <2> HIDE DEF q
  <2> QED BY <2>2, <2>3, OnceStep
<1>3. ASSUME NEW p \in Procs, WriteLedger(p) \/ RestoreLedger(p) PROVE OnceInv'
  <2>1. /\ op[p] # Idle /\ Head(op[p].todo) \in {"ledger", "restoreLedger"} /\ Advance(p)
        /\ ledger' \in {op[p].opened[1], op[p].next}
    BY <1>3 DEF WriteLedger, RestoreLedger, At
  <2>2. Working(op[p])
    BY <2>1, AtWork DEF IInv
  <2> QED BY <2>1, <2>2, OnceAdvances
<1>4. ASSUME NEW p \in Procs,
             \/ Enter(p) \/ WriteRecord(p) \/ WriteReceipt(p) \/ Reread(p)
             \/ DropReceipt(p) \/ DropRecord(p)
      PROVE  OnceInv'
  <2>1. op[p] # Idle /\ Advance(p) /\ ledger' = ledger
    BY <1>4 DEF Enter, WriteRecord, WriteReceipt, Reread, DropReceipt, DropRecord, At, files
  <2> QED BY <2>1, OnceAdvances
<1>5. ASSUME NEW p \in Procs, Leave(p) \/ Die(p) PROVE OnceInv'
  <2>1. op' = [op EXCEPT ![p] = Idle] /\ ledger' = ledger
    BY <1>5 DEF Leave, Die, files
  <2> QED BY <2>1, OnceStep DEF Working
<1>6. ASSUME NEW p \in Procs, Proceed(p) PROVE OnceInv'
  BY <1>3, <1>4, <1>5, <1>6, OncePrepared, OnceNumbered DEF Proceed
<1> QED BY <1>1, <1>2, <1>5, <1>6, OnceFailed DEF Next

(* A draft's blocks are in the ledger once or not at all, whatever fails    *)
(* and whoever dies, and whichever gates run beside the import: it writes   *)
(* the marker and the blocks with one rename, of a preview that it built    *)
(* inside the lock.                                                         *)
THEOREM DraftsOnce == Spec => []DraftsImportedOnce
<1>1. Init => OnceInv
  <2> SUFFICES ASSUME Init PROVE OnceInv
    OBVIOUS
  <2>1. PICK start \in Starts : ledger = start.ledger
    BY DEF Init
  <2>2. \A d \in Drafts : BlocksOf(ledger, d) = {}
    BY <2>1, StartAssumption DEF BlocksOf
  <2>3. Once(ledger)
    BY <2>2, FS_EmptySet DEF Once
  <2>4. \A p \in Procs : op[p] = Idle
    BY DEF Init
  <2> QED BY <2>3, <2>4 DEF OnceInv, Working
<1>2. OnceInv => DraftsImportedOnce
  BY DEF OnceInv, Once, BlocksOf, DraftsImportedOnce
<1>3. IInv /\ OnceInv /\ [Next]_vars => OnceInv'
  BY OnceKeeps
<1> QED BY <1>1, <1>2, <1>3, Invariance, PTL DEF Spec

------------------------------------------------------------------------------
(* Acceptances and repairs match the submissions that they name *)

(* Every nonempty set of numbers has a smallest one. *)
LEMMA HasSmallest ==
    ASSUME NEW T, T \subseteq Nat, T # {}
    PROVE  \E m \in T : \A k \in T : m <= k
<1> DEFINE R == {ss \in Nat \X Nat : ss[1] < ss[2]}
<1>1. \A k, m \in Nat : k < m => <<k, m>> \in R
  OBVIOUS
<1>2. IsWellFoundedOn(R, Nat)
  BY NatLessThanWellFounded, Zenon DEF OpToRel
<1> HIDE DEF R
<1>3. PICK m \in T : \A k \in T : <<k, m>> \notin R
  BY <1>2, WFMin
<1>4. ASSUME NEW k \in T PROVE m <= k
  <2>1. k \in Nat /\ m \in Nat /\ ~(k < m)
    BY <1>1, <1>3, <1>4
  <2> QED BY <2>1
<1> QED BY <1>4

(* A block that every link leaves its wording keeps it on the way. *)
LEMMA LeadsKeepsBody ==
    ASSUME NEW start, NEW target, NEW links, Leads(start, target, links),
           NEW i \in DOMAIN start,
           \A l \in links : i \in DOMAIN l.from =>
                i \in DOMAIN l.to /\ l.to[i].body = l.from[i].body
    PROVE  i \in DOMAIN target /\ target[i].body = start[i].body
<1> DEFINE Good(x) == i \in DOMAIN x /\ x[i].body = start[i].body
<1>1. PICK n \in 0..Cardinality(links) : \E path \in [1..n -> links] :
        /\ \A k \in 1..n : {l \in links \ {path[j] : j \in 1..(k - 1)} :
                l.from = IF k - 1 = 0 THEN start ELSE path[k - 1].to} = {path[k]}
        /\ target = IF n = 0 THEN start ELSE path[n].to
  BY DEF Leads
<1>2. PICK path \in [1..n -> links] :
        /\ \A k \in 1..n : {l \in links \ {path[j] : j \in 1..(k - 1)} :
                l.from = IF k - 1 = 0 THEN start ELSE path[k - 1].to} = {path[k]}
        /\ target = IF n = 0 THEN start ELSE path[n].to
  BY <1>1
<1>3. n \in Nat
  OBVIOUS
<1>4. ASSUME NEW k \in 1..n
      PROVE  path[k] \in links /\ path[k].from = IF k = 1 THEN start ELSE path[k - 1].to
  BY <1>2, <1>3, <1>4
<1> DEFINE T == {k \in 1..n : ~Good(path[k].to)}
<1>5. T = {}
  <2> SUFFICES ASSUME T # {} PROVE FALSE
    OBVIOUS
  <2>1. PICK m \in T : \A k \in T : m <= k
    <3>1. T \subseteq Nat
      BY <1>3
    <3> HIDE DEF T
    <3> QED BY <3>1, HasSmallest
  <2>2. m \in 1..n /\ ~Good(path[m].to)
    OBVIOUS
  <2>3. Good(path[m].from)
    <3>1. CASE m = 1
      BY <1>4, <2>2, <3>1
    <3>2. CASE m # 1
      <4>1. m - 1 \in 1..n /\ m - 1 \notin T
        BY <1>3, <2>1, <2>2, <3>2
      <4> QED BY <1>4, <2>2, <3>2, <4>1
    <3> QED BY <3>1, <3>2
  <2> QED BY <1>4, <2>2, <2>3
<1>6. CASE n = 0
  BY <1>2, <1>6
<1>7. CASE n # 0
  <2>1. n \in 1..n
    BY <1>3, <1>7
  <2> QED BY <1>2, <1>5, <1>7, <2>1
<1> QED BY <1>6, <1>7

(* What the records and the receipts say of the wordings: a submission      *)
(* rewords its own blocks only, a decision none, and those that name a      *)
(* submission are of the wordings that it has written.                      *)
RewordsItsOwn(s) ==
    \A i \in DOMAIN s.before :
        i \in DOMAIN s.after /\ (i \in s.ids \/ s.after[i].body = s.before[i].body)

RewordsNone(r) ==
    \A i \in DOMAIN r.before : i \in DOMAIN r.after /\ r.after[i].body = r.before[i].body

Matches(target, ids, content, records) ==
    \E s \in records :
        /\ s.ord = target
        /\ \A i \in ids : i \in s.ids /\ content[i].body = s.after[i].body

Traced(records, found) ==
    /\ \A s \in records : RewordsItsOwn(s)
    /\ \A r \in found : RewordsNone(r)
    /\ \A r \in found : r.gate = "acceptance" => Matches(r.target, r.ids, r.before, records)
    /\ \A m \in records : m.gate = "mend" => Matches(m.target, m.ids, m.before, records)

Matched(o) ==
    o.cmd.gate \in {"acceptance", "mend"} =>
        Matches(o.cmd.target, o.cmd.ids, o.opened[1], o.opened[2])

TraceInv ==
    /\ Settled => Traced(submissions, receipts)
    /\ \A p \in Procs : Working(op[p]) =>
        Matched(op[p]) /\ Traced(op[p].opened[2], op[p].opened[3])

(* Taking a review back leaves the wordings. *)
LEMMA UnreviewedReads ==
    ASSUME NEW content \in Seq(Block), NEW ids
    PROVE  /\ DOMAIN Unreviewed(content, ids) = DOMAIN content
           /\ \A i \in DOMAIN content : Unreviewed(content, ids)[i].body = content[i].body
<1> DEFINE f == [i \in DOMAIN content |->
                    IF i \in ids THEN [content[i] EXCEPT !.status = "unreviewed"]
                    ELSE content[i]]
<1>1. Unreviewed(content, ids) = f
  BY DEF Unreviewed, Changed
<1>2. \A i \in DOMAIN content : content[i] \in Block
  OBVIOUS
<1>3. \A i \in DOMAIN content : f[i].body = content[i].body
  BY <1>2 DEF Block
<1>4. DOMAIN f = DOMAIN content
  OBVIOUS
<1> HIDE DEF f
<1> QED BY <1>1, <1>3, <1>4

(* Receipts that are taken back lead to a ledger with the same wordings. *)
LEMMA BackKeepsBody ==
    ASSUME NEW found, ReceiptsTyped(found), NEW start, NEW target,
           Leads(start, target, Back(found)), NEW i \in DOMAIN start
    PROVE  i \in DOMAIN target /\ target[i].body = start[i].body
<1> SUFFICES ASSUME NEW l \in Back(found), i \in DOMAIN l.from
             PROVE  i \in DOMAIN l.to /\ l.to[i].body = l.from[i].body
  BY LeadsKeepsBody
<1>1. PICK r \in found :
        /\ Unreviewed(r.after, r.ids) = r.before
        /\ l = [by |-> r.name, from |-> r.after, to |-> r.before]
  BY DEF Back
<1>2. r.after \in Seq(Block)
  BY DEF ReceiptsTyped
<1>3. DOMAIN r.before = DOMAIN r.after
      /\ \A j \in DOMAIN r.after : r.before[j].body = r.after[j].body
  BY <1>1, <1>2, UnreviewedReads
<1> QED BY <1>1, <1>3

LEMMA ChainedReads ==
    ASSUME IInv, NEW now, NEW target, NEW ids, Chained(now, target, ids), NEW i \in DOMAIN now
    PROVE  i \in DOMAIN target /\ target[i].body = now[i].body
<1> DEFINE found == {r \in Reviews : r.ids \cap ids = {}}
<1>1. ReceiptsTyped(found)
  BY DEF IInv, TypeOK, ReceiptsTyped, Reviews
<1>2. Leads(now, target, Back(found))
  BY DEF Chained
<1> HIDE DEF found
<1> QED BY <1>1, <1>2, BackKeepsBody

LEMMA AcceptedSinceReads ==
    ASSUME IInv, NEW target, NEW ids, AcceptedSince(target, ids), NEW i \in DOMAIN ledger
    PROVE  i \in DOMAIN target /\ target[i].body = ledger[i].body
<1> DEFINE found == {r \in receipts : r.gate = "acceptance" /\ r.ids \cap ids = {}}
<1>1. ReceiptsTyped(found)
  BY DEF IInv, TypeOK, ReceiptsTyped
<1>2. Leads(ledger, target, Back(found))
  BY DEF AcceptedSince
<1> HIDE DEF found
<1> QED BY <1>1, <1>2, BackKeepsBody

(* Rewritings of other blocks lead to a ledger that words these as before. *)
LEMMA SucceededReads ==
    ASSUME \A s \in submissions : RewordsItsOwn(s), NEW start, NEW target, NEW ids,
           Succeeded(start, target, ids), NEW i \in DOMAIN start \cap ids
    PROVE  i \in DOMAIN target /\ target[i].body = start[i].body
<1> DEFINE links == {[by |-> s.ord, from |-> s.before, to |-> s.after] :
                s \in {t \in submissions : t.gate \in Rewriting /\ t.ids \cap ids = {}}}
<1>1. ASSUME NEW l \in links, i \in DOMAIN l.from
      PROVE  i \in DOMAIN l.to /\ l.to[i].body = l.from[i].body
  <2>1. PICK s \in submissions :
            s.ids \cap ids = {} /\ l = [by |-> s.ord, from |-> s.before, to |-> s.after]
    OBVIOUS
  <2> QED BY <1>1, <2>1 DEF RewordsItsOwn
<1>2. Leads(start, target, links)
  BY DEF Succeeded
<1> HIDE DEF links
<1> QED BY <1>1, <1>2, LeadsKeepsBody

(* An acceptance or a repair that is not refused names a submission whose   *)
(* wordings the ledger has.                                                 *)
LEMMA AcceptedMatches ==
    ASSUME IInv, Traced(submissions, receipts), NEW c, c.gate \in {"acceptance", "mend"},
           Accepts(c)
    PROVE  Matches(c.target, c.ids, ledger, submissions)
<1>1. c.ids \subseteq DOMAIN ledger /\ ledger \in Seq(Block)
  BY DEF Accepts, IInv, TypeOK
<1>2. CASE c.gate = "acceptance"
  <2>1. AcceptsPart(c)
    BY <1>2 DEF Accepts, AcceptsDecision, Deciding, Remediating, Rewriting
  <2>2. PICK s \in submissions :
            SubmissionFor(c, s) /\ c.ids \subseteq s.ids /\ Chained(ledger, s.after, c.ids)
    BY <2>1 DEF AcceptsPart
  <2>3. \A i \in c.ids : ledger[i].body = s.after[i].body
    BY <1>1, <2>2, ChainedReads
  <2> QED BY <2>2, <2>3 DEF Matches, SubmissionFor
<1>3. CASE c.gate = "mend"
  <2>1. NotAccepted(c)
    BY <1>3 DEF Accepts, Deciding, Remediating, Rewriting
  <2>2. PICK s \in submissions, r \in receipts :
            SubmissionFor(c, s) /\ (RejectedWhole(c, s, r) \/ LeftOut(c, s, r))
    BY <2>1 DEF NotAccepted
  <2>3. CASE RejectedWhole(c, s, r)
    <3>1. /\ c.ids \subseteq s.ids
          /\ Succeeded(s.after, r.before, s.ids) /\ AcceptedSince(r.after, s.ids)
      BY <2>3 DEF RejectedWhole
    <3>2. s.ids \subseteq DOMAIN s.after
      BY DEF IInv, TypeOK
    <3>3. ASSUME NEW i \in c.ids PROVE ledger[i].body = s.after[i].body
      <4>1. i \in DOMAIN s.after \cap s.ids
        BY <3>1, <3>2
      <4>2. i \in DOMAIN r.before /\ r.before[i].body = s.after[i].body
        BY <3>1, <4>1, SucceededReads DEF Traced
      <4>3. r.after[i].body = r.before[i].body
        BY <4>2 DEF Traced, RewordsNone
      <4>4. r.after[i].body = ledger[i].body
        BY <1>1, <3>1, AcceptedSinceReads
      <4> QED BY <4>2, <4>3, <4>4
    <3> QED BY <2>2, <3>1, <3>3 DEF Matches, SubmissionFor
  <2>4. CASE LeftOut(c, s, r)
    <3> DEFINE left == s.ids \ r.ids
               rejected == {i \in left : ledger[i].status = "rejected"}
               asLeft == Unreviewed(ledger, rejected)
               asSubmitted == Unreviewed(asLeft, r.ids)
    <3>1. c.ids \subseteq left /\ Chained(asSubmitted, s.after, r.ids)
      BY <2>4 DEF LeftOut
    <3>2. /\ DOMAIN asLeft = DOMAIN ledger
          /\ \A i \in DOMAIN ledger : asLeft[i].body = ledger[i].body
      <4> HIDE DEF rejected
      <4> QED BY <1>1, UnreviewedReads
    <3>3. asLeft \in Seq(Block)
      <4> DEFINE f == [i \in DOMAIN ledger |->
                        IF i \in rejected THEN [ledger[i] EXCEPT !.status = "unreviewed"]
                        ELSE ledger[i]]
      <4> HIDE DEF rejected
      <4>1. asLeft = f
        BY DEF Unreviewed, Changed
      <4>2. \A i \in DOMAIN ledger : ledger[i] \in Block
        BY <1>1
      <4>3. \A i \in DOMAIN ledger : f[i] \in Block
        BY <4>2 DEF Block, Statuses
      <4>4. f \in Seq(Block)
        BY <1>1, <4>3, ChangedIsSequence
      <4> QED BY <4>1, <4>4
    <3>4. /\ DOMAIN asSubmitted = DOMAIN asLeft
          /\ \A i \in DOMAIN asLeft : asSubmitted[i].body = asLeft[i].body
      <4> HIDE DEF asLeft
      <4> QED BY <3>3, UnreviewedReads
    <3> HIDE DEF asLeft, asSubmitted
    <3>5. ASSUME NEW i \in c.ids PROVE ledger[i].body = s.after[i].body
      BY <1>1, <3>1, <3>2, <3>4, ChainedReads
    <3>6. c.ids \subseteq s.ids
      BY <3>1
    <3> QED BY <2>2, <3>5, <3>6 DEF Matches, SubmissionFor
  <2> QED BY <2>2, <2>3, <2>4
<1> QED BY <1>2, <1>3

(* What a gate has written so far is as its preview says. *)
LEMMA ProgressFiles ==
    ASSUME NEW o, NEW content, NEW records, NEW found, Progress(o, content, records, found)
    PROVE  /\ records = o.opened[2] \/ Recorded(o, records)
           /\ \/ found = o.opened[3]
              \/ Receipted(o, found) /\ o.cmd.gate \in Deciding \cup Remediating
BY DEF Progress, DecisionProgress, ImportProgress, RemediationProgress

LEMMA TracedInWork ==
    ASSUME NEW o, NEW content, NEW records, NEW found,
           Planned(o), Progress(o, content, records, found),
           Matched(o), Traced(o.opened[2], o.opened[3])
    PROVE  Traced(records, found)
<1>1. records = o.opened[2] \/ Recorded(o, records)
  BY ProgressFiles
<1>2. \/ found = o.opened[3]
      \/ Receipted(o, found) /\ o.cmd.gate \in Deciding \cup Remediating
  BY ProgressFiles
<1>3. \A i \in DOMAIN o.opened[1] :
        /\ i \in DOMAIN o.next
        /\ o.next[i].body # o.opened[1][i].body => o.cmd.gate \in Rewriting /\ i \in o.cmd.ids
  BY DEF Planned
<1>4. o.opened[2] \subseteq records
  BY <1>1 DEF Recorded
<1>5. ASSUME NEW s \in records
      PROVE  RewordsItsOwn(s) /\ (s.gate = "mend" => Matches(s.target, s.ids, s.before, records))
  <2>1. CASE s \in o.opened[2]
    BY <1>4, <2>1 DEF Traced, Matches
  <2>2. CASE s \notin o.opened[2]
    <3>1. /\ s.gate = o.cmd.gate /\ s.ids = o.cmd.ids /\ s.target = o.cmd.target
          /\ s.before = o.opened[1] /\ s.after = o.next
      BY <1>1, <2>2 DEF Recorded
    <3>2. RewordsItsOwn(s)
      BY <1>3, <3>1 DEF RewordsItsOwn
    <3>3. ASSUME s.gate = "mend" PROVE Matches(s.target, s.ids, s.before, records)
      BY <1>4, <3>1, <3>3 DEF Matched, Matches
    <3> QED BY <3>2, <3>3
  <2> QED BY <2>1, <2>2
<1>6. ASSUME NEW r \in found
      PROVE  /\ RewordsNone(r)
             /\ r.gate = "acceptance" => Matches(r.target, r.ids, r.before, records)
  <2>1. CASE r \in o.opened[3]
    BY <1>4, <2>1 DEF Traced, Matches
  <2>2. CASE r \notin o.opened[3]
    <3>1. /\ r.gate = o.cmd.gate /\ r.ids = o.cmd.ids /\ r.target = o.cmd.target
          /\ r.before = o.opened[1] /\ r.after = o.next
          /\ o.cmd.gate \in Deciding \cup Remediating
      BY <1>2, <2>2 DEF Receipted
    <3>2. RewordsNone(r)
      BY <1>3, <3>1 DEF RewordsNone, Deciding, Remediating, Rewriting
    <3>3. ASSUME r.gate = "acceptance" PROVE Matches(r.target, r.ids, r.before, records)
      BY <1>4, <3>1, <3>3 DEF Matched, Matches
    <3> QED BY <3>2, <3>3
  <2> QED BY <2>1, <2>2
<1> QED BY <1>5, <1>6 DEF Traced

(* The files are always such, also while a gate is at work. *)
LEMMA FilesTraced ==
    ASSUME IInv, TraceInv PROVE Traced(submissions, receipts)
<1>1. CASE Settled
  BY <1>1 DEF TraceInv
<1>2. CASE ~Settled
  <2>1. PICK p \in Procs : Working(op[p])
    BY <1>2 DEF Settled
  <2> DEFINE o == op[p]
  <2>2. /\ Planned(o) /\ Progress(o, ledger, submissions, receipts)
        /\ Matched(o) /\ Traced(o.opened[2], o.opened[3])
    BY <2>1 DEF IInv, WorkIsPlanned, TraceInv
  <2> HIDE DEF o
  <2> QED BY <2>2, TracedInWork
<1> QED BY <1>1, <1>2

(* A step in which nobody opens the files, and that leaves them if nobody   *)
(* is at work after it.                                                     *)
LEMMA TraceStays ==
    ASSUME IInv, TraceInv, Settled' => UNCHANGED <<submissions, receipts>>,
           \A p \in Procs : Working(op'[p]) =>
                \/ /\ Working(op[p])
                   /\ op'[p].opened = op[p].opened /\ op'[p].cmd = op[p].cmd
                \/ /\ Matched(op'[p])
                   /\ op'[p].opened[2] = submissions /\ op'[p].opened[3] = receipts
    PROVE  TraceInv'
<1>1. Traced(submissions, receipts)
  BY FilesTraced
<1>2. Settled' => Traced(submissions', receipts')
  BY <1>1
<1>3. ASSUME NEW p \in Procs, Working(op'[p])
      PROVE  Matched(op'[p]) /\ Traced(op'[p].opened[2], op'[p].opened[3])
  BY <1>1, <1>3 DEF TraceInv, Matched
<1>4. (Settled' => Traced(submissions', receipts')) /\
      \A p \in Procs : Working(op'[p]) =>
        Matched(op'[p]) /\ Traced(op'[p].opened[2], op'[p].opened[3])
  BY <1>2, <1>3
<1> QED BY <1>4 DEF TraceInv, Settled, Traced, Matched, Matches, RewordsItsOwn, RewordsNone, Working

(* A step of one gate that keeps its command and what it has opened. *)
LEMMA TraceStep ==
    ASSUME IInv, TraceInv, NEW p \in Procs, NEW q, op' = [op EXCEPT ![p] = q],
           Working(q) => /\ Working(op[p])
                         /\ q.opened = op[p].opened /\ q.cmd = op[p].cmd,
           Working(q) \/ UNCHANGED <<submissions, receipts>>
    PROVE  TraceInv'
<1>1. op = [r \in Procs |-> op[r]]
  BY DEF IInv, Sections
<1>2. op'[p] = q /\ \A r \in Procs \ {p} : op'[r] = op[r]
  BY <1>1
<1>3. Settled' => UNCHANGED <<submissions, receipts>>
  BY <1>2 DEF Settled
<1> QED BY <1>2, <1>3, TraceStays

LEMMA TraceWith ==
    ASSUME IInv, TraceInv, NEW p \in Procs, IsOperation(op[p]), NEW x, NEW n, NEW failed,
           op' = [op EXCEPT ![p] = With(op[p], x, n, failed)],
           Working(op[p]) \/ UNCHANGED <<submissions, receipts>>
    PROVE  TraceInv'
<1> DEFINE q == With(op[p], x, n, failed)
<1>1. q.opened = op[p].opened /\ q.cmd = op[p].cmd /\ q # Idle
  BY DEF With, Idle
<1>2. Working(q) <=> Working(op[p])
  BY <1>1 DEF Working, IsOperation, Idle
<1> HIDE DEF q
<1>3. op' = [op EXCEPT ![p] = q]
  BY DEF q
<1> QED BY <1>1, <1>2, <1>3, TraceStep

LEMMA TraceAdvances ==
    ASSUME IInv, TraceInv, NEW p \in Procs, op[p] # Idle, Advance(p),
           Working(op[p]) \/ UNCHANGED <<submissions, receipts>>
    PROVE  TraceInv'
<1> DEFINE o == op[p]
           x == Tail(o.todo)
<1>1. IsOperation(o) /\ op = [r \in Procs |-> op[r]]
  BY DEF IInv, Sections
<1>2. op' = [op EXCEPT ![p].todo = x]
  BY DEF Advance
<1> HIDE DEF x
<1>3. op' = [op EXCEPT ![p] = With(o, x, o.ord, o.failed)]
  BY <1>1, <1>2, TodoIsWith, Zenon
<1> QED BY <1>1, <1>3, TraceWith

LEMMA TracePrepared ==
    ASSUME IInv, TraceInv, NEW p \in Procs, Prepare(p) PROVE TraceInv'
<1> DEFINE o == op[p]
<1>1. o # Idle /\ Head(o.todo) = "prepare"
  BY DEF Prepare, At
<1>2. /\ IsOperation(o) /\ IsCommand(o.cmd) /\ UNCHANGED <<submissions, receipts>>
      /\ op = [r \in Procs |-> op[r]]
  BY <1>1, BeforeWork DEF Prepare, IsOperation, files, IInv, Sections
<1>3. CASE Accepts(o.cmd)
  <2> DEFINE q == Previewed(o)
  <2>1. op' = [op EXCEPT ![p] = q]
    <3>1. op' = [op EXCEPT ![p] = [o EXCEPT !.todo = Plan(o.cmd.gate), !.opened = files,
                    !.next = Prospective(o.cmd), !.cmd.ids = AppliedIds(o.cmd)]]
      BY <1>3 DEF Prepare
    <3>2. [o EXCEPT !.todo = Plan(o.cmd.gate), !.opened = files,
                    !.next = Prospective(o.cmd), !.cmd.ids = AppliedIds(o.cmd)] = q
      BY <1>2, PreviewedIsExcept, Zenon
    <3> QED BY <3>1, <3>2
  <2>2. /\ q.opened = <<ledger, submissions, receipts>>
        /\ q.cmd = [o.cmd EXCEPT !.ids = AppliedIds(o.cmd)]
    BY DEF Previewed, files
  <2> HIDE DEF q
  <2>3. /\ q.cmd.gate = o.cmd.gate /\ q.cmd.target = o.cmd.target
        /\ q.cmd.ids = AppliedIds(o.cmd)
    BY <1>2, <2>2 DEF IsCommand
  <2>4. q.opened[1] = ledger /\ q.opened[2] = submissions /\ q.opened[3] = receipts
    BY <2>2
  <2>5. Matched(q)
    <3> SUFFICES ASSUME o.cmd.gate \in {"acceptance", "mend"}
                 PROVE  Matches(o.cmd.target, o.cmd.ids, ledger, submissions)
      BY <2>3, <2>4 DEF Matched, AppliedIds
    <3> QED BY <1>3, FilesTraced, AcceptedMatches
  <2>6. op'[p] = q /\ \A r \in Procs \ {p} : op'[r] = op[r]
    BY <1>2, <2>1
  <2> QED BY <1>2, <2>4, <2>5, <2>6, TraceStays
<1>4. CASE ~Accepts(o.cmd)
  <2> DEFINE x == <<"leave">>
  <2>1. op' = [op EXCEPT ![p].todo = x]
    BY <1>4 DEF Prepare
  <2> HIDE DEF x
  <2>2. op' = [op EXCEPT ![p] = With(o, x, o.ord, o.failed)]
    BY <1>2, <2>1, TodoIsWith, Zenon
  <2> QED BY <1>2, <2>2, TraceWith
<1> QED BY <1>3, <1>4

LEMMA TraceNumbered ==
    ASSUME IInv, TraceInv, NEW p \in Procs, TakeNumber(p) PROVE TraceInv'
<1> DEFINE o == op[p]
           x == Tail(o.todo)
<1>1. IsOperation(o) /\ op = [r \in Procs |-> op[r]]
  BY DEF IInv, Sections, TakeNumber, At
<1>2. PICK n \in 1..(Cardinality(submissions) + MaxCommands) :
            op' = [op EXCEPT ![p].todo = x, ![p].ord = n]
  BY DEF TakeNumber
<1> HIDE DEF x
<1>3. op' = [op EXCEPT ![p] = With(o, x, n, o.failed)]
  BY <1>1, <1>2, NumberIsWith, Zenon
<1>4. UNCHANGED <<submissions, receipts>>
  BY DEF TakeNumber, files
<1> QED BY <1>1, <1>3, <1>4, TraceWith

LEMMA TraceFailed ==
    ASSUME IInv, TraceInv, NEW p \in Procs, Fail(p) PROVE TraceInv'
<1> DEFINE o == op[p]
           x == Undo(o.cmd.gate, Head(o.todo))
<1>1. /\ IsOperation(o) /\ op = [r \in Procs |-> op[r]]
      /\ UNCHANGED <<submissions, receipts>>
  BY DEF IInv, Sections, Fail, files
<1>2. op' = [op EXCEPT ![p].failed = TRUE, ![p].todo = x]
  BY DEF Fail
<1> HIDE DEF x
<1>3. op' = [op EXCEPT ![p] = With(o, x, o.ord, TRUE)]
  BY <1>1, <1>2, FailureIsWith, Zenon
<1> QED BY <1>1, <1>3, TraceWith

LEMMA TraceKeeps ==
    ASSUME IInv, TraceInv, [Next]_vars PROVE TraceInv'
<1>1. CASE UNCHANGED vars
  <2>1. UNCHANGED <<submissions, receipts, op>>
    BY <1>1 DEF vars, files
  <2> QED BY <2>1, TraceStays
<1>2. ASSUME NEW p \in Procs, Start(p) PROVE TraceInv'
  <2>1. PICK c : Begin(p, c)
    BY <1>2 DEF Start
  <2> DEFINE q == [cmd |-> c, todo |-> <<"enter", "prepare">>, ord |-> 0,
                   next |-> <<>>, opened |-> <<>>, failed |-> FALSE]
  <2>2. op' = [op EXCEPT ![p] = q] /\ UNCHANGED <<submissions, receipts>>
    BY <2>1 DEF Begin, files
  <2>3. ~Working(q)
    BY DEF Working
  <2> HIDE DEF q
  <2> QED BY <2>2, <2>3, TraceStep
<1>3. ASSUME NEW p \in Procs,
             \/ WriteLedger(p) \/ RestoreLedger(p) \/ WriteRecord(p) \/ WriteReceipt(p)
             \/ Reread(p) \/ DropReceipt(p) \/ DropRecord(p)
      PROVE  TraceInv'
  <2>1. /\ op[p] # Idle /\ Advance(p)
        /\ Head(op[p].todo) \in {"ledger", "restoreLedger", "record", "receipt", "reread",
                                 "dropReceipt", "dropRecord"}
    BY <1>3 DEF WriteLedger, RestoreLedger, WriteRecord, WriteReceipt, Reread, DropReceipt,
       DropRecord, At
  <2>2. Working(op[p])
    BY <2>1, AtWork DEF IInv
  <2> QED BY <2>1, <2>2, TraceAdvances
<1>4. ASSUME NEW p \in Procs, Enter(p) PROVE TraceInv'
  <2>1. op[p] # Idle /\ Advance(p) /\ UNCHANGED <<submissions, receipts>>
    BY <1>4 DEF Enter, At, files
  <2> QED BY <2>1, TraceAdvances
<1>5. ASSUME NEW p \in Procs, Leave(p) \/ Die(p) PROVE TraceInv'
  <2>1. op' = [op EXCEPT ![p] = Idle] /\ UNCHANGED <<submissions, receipts>>
    BY <1>5 DEF Leave, Die, files
  <2> QED BY <2>1, TraceStep DEF Working
<1>6. ASSUME NEW p \in Procs, Proceed(p) PROVE TraceInv'
  BY <1>3, <1>4, <1>5, <1>6, TracePrepared, TraceNumbered DEF Proceed
<1> QED BY <1>1, <1>2, <1>5, <1>6, TraceFailed DEF Next

(* An acceptance is of the wordings that the submission it names has        *)
(* written, and a repair replaces these and no later ones: however many     *)
(* reviews and rewritings of other blocks the chains of receipts and        *)
(* submissions lead over, none of their links can change such a wording.    *)
(* Whatever fails and whoever dies.                                         *)
THEOREM DecisionsMatch == Spec => []DecisionsMatchSubmission
<1>1. Init => TraceInv
  <2> SUFFICES ASSUME Init PROVE TraceInv
    OBVIOUS
  <2>1. PICK start \in Starts : submissions = start.submissions
    BY DEF Init
  <2>2. receipts = {} /\ \A p \in Procs : ~Working(op[p])
    BY DEF Init, Working
  <2>3. Traced(submissions, receipts)
    BY <2>1, <2>2, StartAssumption DEF Traced, RewordsItsOwn
  <2> QED BY <2>2, <2>3 DEF TraceInv
<1>2. IInv /\ TraceInv => DecisionsMatchSubmission
  BY FilesTraced DEF Traced, Matches, DecisionsMatchSubmission
<1>3. IInv /\ TraceInv /\ [Next]_vars => TraceInv'
  BY TraceKeeps
<1> QED BY <1>1, <1>2, <1>3, Invariance, PTL DEF Spec

==============================================================================
