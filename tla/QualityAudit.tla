------------------------------ MODULE QualityAudit ------------------------------
(***************************************************************************)
(* The quality audit of one dialogue, from its unit audits to the accepted *)
(* manifest: a preview binds the ledger, the protocol and the audits; a    *)
(* provider samples that preview; a passing sample lets an operator accept *)
(* it, or supersede the accepted manifest once the ledger has changed; a   *)
(* failing one lets him reject the failed blocks.                          *)
(*                                                                         *)
(* Files are named by what they contain wherever the code names them by a  *)
(* hash, so that one path never has two contents.  A command writes its    *)
(* files one after the other, and a fault or a crash can come between two. *)
(***************************************************************************)
EXTENDS Naturals, Sequences, FiniteSets

CONSTANTS
    Procs,          \* the processes that run commands
    Blocks,         \* the blocks of the ledger, each an audit unit
    Words,          \* the wordings of a block
    Days,           \* the dates that operators give as reviewed_on
    MaxCommands,    \* bound: commands that operators start
    MaxEdits,       \* bound: what happens around the commands, deaths included
    None            \* no command, and what a file says that is only there or not

Kinds == {"sample", "accept", "supersede", "reject", "refresh"}
Statuses == {"unreviewed", "accepted", "rejected"}
Texts == 0..2       \* outputs of the audit of a unit; 0 did not pass
Artifacts == <<"execution", "output", "state">>

ASSUME AuditAssumption ==
    /\ MaxCommands \in Nat /\ MaxEdits \in Nat
    /\ IsFiniteSet(Blocks) /\ IsFiniteSet(Days)

VARIABLES
    ledger,         \* wiki/commentary/<dialogue>.md: the wording and status of a block
    protocol,       \* docs/commentary-protocol.md, of which only the hash is bound
    audits,         \* audits[b]: the audit output and state of the unit in scratch
    disk,           \* the other files, from their path to what they contain
    inside,         \* inside[p]: the paths that p has locked
    op,             \* op[p]: the command of p, with what it has left to do
    commands, edits

around == <<protocol, audits>>
bounds == <<commands, edits>>
vars == <<ledger, around, disk, inside, op, bounds>>

Locks == INSTANCE ExclusiveSections WITH Targets <- {"manifest", "ledger"}

------------------------------------------------------------------------------
(* Files *)

Exists(path) == path \in DOMAIN disk

Holds(path, content) == Exists(path) /\ disk[path] = content

Written(files, path, content) ==
    [x \in DOMAIN files \cup {path} |-> IF x = path THEN content ELSE files[x]]

Without(files, paths) == [x \in DOMAIN files \ paths |-> files[x]]

Pending == <<"pending">>        \* scratch/commentary/audit-manifests/<dialogue>.json
Canonical == <<"manifest">>     \* wiki/commentary-audits/<dialogue>.json

------------------------------------------------------------------------------
(* An accepted manifest is bound to its review note, and the note of a     *)
(* supersede to the manifest before it: each stands for all of them, the   *)
(* oldest first.  What is accepted is a manifest, on a day, on a sample.   *)

Entry(m, day, evidence) == [m |-> m, day |-> day, evidence |-> evidence]

Accepted == IF Exists(Canonical) THEN disk[Canonical] ELSE <<>>

Upto(chain, n) == [i \in 1..n |-> chain[i]]

Newest(chain) == chain[Len(chain)]

Before(chain) == Upto(chain, Len(chain) - 1)

Note(chain) == [evidence |-> Newest(chain).evidence, past |-> Before(chain)]

(* The note is there, and it binds a passing sample of this very manifest. *)
Bound(chain) ==
    LET new == Newest(chain)
    IN  /\ Holds(<<"note", new.day>>, Note(chain))
        /\ Exists(<<"evidence", new.evidence>>)
        /\ new.evidence.m = new.m
        /\ new.evidence.answer.failed = {}

(* The copies that a supersede keeps of its predecessor. *)
Kept(chain) ==
    /\ Exists(<<"history-manifest", chain>>)
    /\ Exists(<<"history-note", Note(chain)>>)
    /\ Exists(<<"history-ledger", Newest(chain).m.ledger>>)

(* validateAcceptedCommentaryQualityAuditProvenance replays the whole chain. *)
Provenance(chain) ==
    \A n \in DOMAIN chain :
        Bound(Upto(chain, n)) /\ (n < Len(chain) => Kept(Upto(chain, n)))

------------------------------------------------------------------------------
(* The preview of a manifest *)

Active(content) == {b \in Blocks : content[b].status = "accepted"}

AuditIsCurrent(b) == audits[b].word = ledger[b].word

(* The accepted manifest lends its outputs while its own provenance holds,  *)
(* which replays its sample on the units of now: as long as every block is  *)
(* sampled, all of them must be active and read as they did.                *)
Reusable ==
    /\ Accepted # <<>>
    /\ Provenance(Accepted)
    /\ Active(Newest(Accepted).m.ledger) = Active(ledger)
    /\ \A b \in Active(ledger) : Newest(Accepted).m.ledger[b].word = ledger[b].word

(* The verdict of the scratch audit is looked at before what it is bound to: *)
(* one that did not pass is never passed over, not even once it is stale.    *)
HasOutput(b) == audits[b].text # 0 /\ (AuditIsCurrent(b) \/ Reusable)

Output(b) == IF AuditIsCurrent(b) THEN audits[b].text ELSE Newest(Accepted).m.output[b]

HasPreview ==
    /\ Active(ledger) # {}
    /\ \A b \in Blocks : ledger[b].status # "unreviewed"
    /\ \A b \in Active(ledger) : HasOutput(b)

(* buildCommentaryQualityAuditManifestPreview *)
Preview == [ledger |-> ledger, protocol |-> protocol,
            output |-> [b \in Active(ledger) |-> Output(b)]]

------------------------------------------------------------------------------
(* The sample of a preview: every active block, as long as there are few.  *)

Given(m) == {i \in DOMAIN Artifacts : Exists(<<Artifacts[i], m>>)}

(* inspectJob: the three artifacts are there together, say the same, and   *)
(* belong to the pending manifest that is there.                           *)
Sampled(m) ==
    IF Given(m) = {} THEN "pending"
    ELSE IF /\ Given(m) = DOMAIN Artifacts
            /\ \A i \in DOMAIN Artifacts :
                disk[<<Artifacts[i], m>>] = disk[<<"output", m>>]
            /\ Holds(Pending, m)
         THEN IF disk[<<"output", m>>].failed = {} THEN "passed" ELSE "failed"
         ELSE "malformed"

(* buildCommentaryAuditSampleEvidenceBundle *)
Evidence(m) == [m |-> m, answer |-> disk[<<"output", m>>]]

HasSample(verdict) == HasPreview /\ Sampled(Preview) = verdict

------------------------------------------------------------------------------
(* Commands.  A command's plan is a sequence of steps, each with what it     *)
(* does, the path it does it to, and the content.                           *)

Step(do, path, content) == [do |-> do, path |-> path, content |-> content]

(* Mutant: the artifact is renamed into place without a look at what is there. *)
ScratchBlind(path, content) == <<Step("put", path, content)>>

(* atomicWrite: what is there must be the same, and nothing may have come   *)
(* between that look and the rename.                                        *)
Scratch(path, content) ==
    <<Step("look", path, content), Step("look-again", path, content),
      Step("put", path, content)>>

(* generateReview writes the preview, then the artifacts. *)
SampleSteps(m, answer) ==
    Scratch(Pending, m) \o Scratch(<<"execution", m>>, answer)
        \o Scratch(<<"output", m>>, answer) \o Scratch(<<"state", m>>, answer)

New(path, content) == Step("new", path, content)

AcceptSteps(chain) ==
    <<New(<<"evidence", Newest(chain).evidence>>, None),
      New(<<"note", Newest(chain).day>>, Note(chain)),
      Step("validate", Canonical, chain), New(Canonical, chain)>>

(* Mutant: the manifest is replaced before its predecessor is kept. *)
SupersedeStepsEarly(chain) ==
    LET pred == Before(chain)
    IN  <<New(<<"evidence", Newest(chain).evidence>>, None),
          New(<<"note", Newest(chain).day>>, Note(chain)),
          Step("replace", Canonical, chain),
          New(<<"history-manifest", pred>>, None), New(<<"history-note", Note(pred)>>, None),
          New(<<"history-ledger", Newest(pred).m.ledger>>, None),
          Step("validate", Canonical, chain)>>

(* The predecessor is kept before the manifest takes its place. *)
SupersedeSteps(chain) ==
    LET pred == Before(chain)
    IN  <<New(<<"evidence", Newest(chain).evidence>>, None),
          New(<<"note", Newest(chain).day>>, Note(chain)),
          New(<<"history-manifest", pred>>, None), New(<<"history-note", Note(pred)>>, None),
          New(<<"history-ledger", Newest(pred).m.ledger>>, None),
          Step("validate", Canonical, chain), Step("replace", Canonical, chain)>>

(* Mutant: the status is written in the words of the verdict. *)
RejectedAsFailed(content, failed) ==
    [b \in Blocks |-> IF b \in failed THEN [content[b] EXCEPT !.status = "failed"]
                      ELSE content[b]]

Rejected(content, failed) ==
    [b \in Blocks |-> IF b \in failed THEN [content[b] EXCEPT !.status = "rejected"]
                      ELSE content[b]]

(* Mutant: the ledger is replaced before the evidence is written. *)
RejectStepsLedgerFirst(e, day) ==
    <<Step("ledger", <<"ledger">>, Rejected(e.m.ledger, e.answer.failed)),
      New(<<"evidence", e>>, None), New(<<"receipt", e, day>>, None),
      New(<<"submission", e, day>>, None)>>

(* The step after the ledger only fails for the tests that inject a fault. *)
RejectSteps(e, day) ==
    <<New(<<"evidence", e>>, None), New(<<"receipt", e, day>>, None),
      New(<<"submission", e, day>>, None),
      Step("ledger", <<"ledger">>, Rejected(e.m.ledger, e.answer.failed)),
      Step("report", <<"ledger">>, None)>>

Scope(kind) == IF kind = "reject" THEN {"ledger"} ELSE {"manifest"}

(* The files that a command creates may not be there. *)
Fresh(steps) == \A i \in DOMAIN steps : steps[i].do = "new" => ~Exists(steps[i].path)

(* The preview, with its sample, accepted after what was accepted before. *)
Extended(chain, day) == Append(chain, Entry(Preview, day, Evidence(Preview)))

(* applyCommentaryQualityAuditAcceptance, up to its first write. *)
AcceptPlan(day) ==
    IF HasSample("passed") /\ Fresh(AcceptSteps(Extended(<<>>, day)))
    THEN AcceptSteps(Extended(<<>>, day)) ELSE <<>>

LedgerChanged(pred) == Newest(pred).m.ledger # ledger

(* buildSupersedePreview; the reviewer is named after the manifest. *)
SupersedePlan(day) ==
    LET pred == Accepted
    IN  IF /\ pred # <<>> /\ Provenance(pred) /\ LedgerChanged(pred)
           /\ HasSample("passed") /\ Preview # Newest(pred).m
           /\ Fresh(SupersedeSteps(Extended(pred, day)))
        THEN SupersedeSteps(Extended(pred, day)) ELSE <<>>

(* applyCommentarySampleFailureRejection, up to its first write. *)
RejectPlan(day) ==
    IF HasSample("failed") /\ Fresh(RejectSteps(Evidence(Preview), day))
    THEN RejectSteps(Evidence(Preview), day) ELSE <<>>

(* validateCommentaryQualityAuditManifest, of an accepted manifest: it is    *)
(* current, and so is the sample that it is bound to.                        *)
Valid(chain) ==
    /\ Newest(chain).m.ledger = ledger /\ Newest(chain).m.protocol = protocol
    /\ \A b \in Blocks : ledger[b].status # "unreviewed"
    /\ Provenance(chain)

(* buildCommentaryQualityAuditManifestRefresh *)
Refreshed == [Accepted EXCEPT ![Len(Accepted)].m = Preview]

RefreshPlan ==
    IF /\ Accepted # <<>> /\ Newest(Accepted).m.ledger = ledger
       /\ HasPreview /\ Valid(Refreshed)
    THEN <<Step("put", Canonical, Refreshed)>> ELSE <<>>

Plan(kind, day) ==
    CASE kind = "accept" -> AcceptPlan(day)
      [] kind = "supersede" -> SupersedePlan(day)
      [] kind = "reject" -> RejectPlan(day)
      [] kind = "refresh" -> RefreshPlan

------------------------------------------------------------------------------
(* The steps of a command *)

Idle(p) == op[p] = None

Now(p) == op[p].plan[op[p].at]

At(p, do) == ~Idle(p) /\ ~op[p].failed /\ op[p].at <= Len(op[p].plan) /\ Now(p).do = do

Work(kind, day, plan) == [kind |-> kind, day |-> day, plan |-> plan, at |-> 1,
                          made |-> {}, opened |-> ledger, failed |-> FALSE]

(* runCommentaryAuditSamplePlan finds the sample of the preview pending and *)
(* asks the provider; the preview on disk is the current one or not there.  *)
Ask(p) ==
    /\ Idle(p)
    /\ commands < MaxCommands
    /\ commands' = commands + 1
    /\ HasPreview
    /\ Exists(Pending) => Holds(Pending, Preview)
    /\ Sampled(Preview) = "pending"
    /\ op' = [op EXCEPT ![p] = Work("sample", commands', <<Step("answer", Pending, Preview)>>)]
    /\ UNCHANGED <<ledger, around, disk, inside, edits>>

(* rebuildCurrentJob *)
StillCurrent(m) == HasPreview /\ Preview = m

(* The provider answers, and the job must still be the current one; what it *)
(* answered otherwise is kept as a failure.  Two answers are never the same. *)
Answer(p) ==
    /\ At(p, "answer")
    /\ LET m == Now(p).content IN
        \/ /\ StillCurrent(m)
           /\ \E failed \in SUBSET Active(m.ledger) :
                op' = [op EXCEPT ![p].plan =
                    SampleSteps(m, [no |-> op[p].day, failed |-> failed])]
        \/ op' = [op EXCEPT ![p].plan = <<>>]
    /\ UNCHANGED <<ledger, around, disk, inside, bounds>>

(* A command takes its lock and builds its preview once more inside it; one *)
(* that would be refused at once is left out.                               *)
Begin(p, kind, day) ==
    /\ Idle(p)
    /\ commands < MaxCommands
    /\ Plan(kind, day) # <<>>
    /\ Locks!Enter(p, Scope(kind))
    /\ commands' = commands + 1
    /\ op' = [op EXCEPT ![p] = Work(kind, day, Plan(kind, day))]
    /\ UNCHANGED <<ledger, around, disk, edits>>

(* Mutant: the evidence is left when an acceptance fails. *)
UndoOrderButEvidence(kind) ==
    CASE kind = "accept" -> <<"note">>
      [] kind = "supersede" -> <<"note", "history-note", "history-ledger", "history-manifest">>
      [] kind = "reject" -> <<"ledger", "submission", "receipt", "evidence">>
      [] OTHER -> <<>>

(* The order in which a command takes back what it has created. *)
UndoOrder(kind) ==
    CASE kind = "accept" -> <<"note", "evidence">>
      [] kind = "supersede" ->
            <<"note", "history-note", "history-ledger", "history-manifest", "evidence">>
      [] kind = "reject" -> <<"ledger", "submission", "receipt", "evidence">>
      [] OTHER -> <<>>

Done(o) == o.at > Len(IF o.failed THEN UndoOrder(o.kind) ELSE o.plan)

(* A command gives back its lock when it has done, or undone, all its steps. *)
Leave(p) ==
    /\ ~Idle(p)
    /\ Done(op[p])
    /\ IF inside[p] = {} THEN UNCHANGED inside ELSE Locks!Leave(p)
    /\ op' = [op EXCEPT ![p] = None]
    /\ UNCHANGED <<ledger, around, disk, bounds>>

Advance(p) == op' = [op EXCEPT ![p].at = @ + 1]

(* From here on the command takes back what it made. *)
Abort(p) == op' = [op EXCEPT ![p].failed = TRUE, ![p].at = 1]

(* atomicWrite looks: what is there already is not written again. *)
Look(p) ==
    /\ At(p, "look")
    /\ IF ~Exists(Now(p).path) THEN Advance(p)
       ELSE IF Holds(Now(p).path, Now(p).content)
            THEN op' = [op EXCEPT ![p].at = @ + 3]
            ELSE Abort(p)
    /\ UNCHANGED <<ledger, around, disk, inside, bounds>>

LookAgain(p) ==
    /\ At(p, "look-again")
    /\ IF Exists(Now(p).path) THEN Abort(p) ELSE Advance(p)
    /\ UNCHANGED <<ledger, around, disk, inside, bounds>>

(* A rename, which takes the place of whatever is there. *)
Put(p) ==
    /\ At(p, "put")
    /\ disk' = Written(disk, Now(p).path, Now(p).content)
    /\ Advance(p)
    /\ UNCHANGED <<ledger, around, inside, bounds>>

Made(p) == op' = [op EXCEPT ![p].at = @ + 1, ![p].made = @ \cup {Now(p).path}]

(* renameNewCanonicalFile, under the lock of the command. *)
WriteNew(p) ==
    /\ At(p, "new")
    /\ IF Exists(Now(p).path) THEN Abort(p) /\ UNCHANGED disk
       ELSE Made(p) /\ disk' = Written(disk, Now(p).path, Now(p).content)
    /\ UNCHANGED <<ledger, around, inside, bounds>>

Validate(p) ==
    /\ At(p, "validate")
    /\ IF Valid(Now(p).content) THEN Advance(p) ELSE Abort(p)
    /\ UNCHANGED <<ledger, around, disk, inside, bounds>>

(* replaceCanonicalFile: the manifest must be the predecessor still. *)
Replace(p) ==
    /\ At(p, "replace")
    /\ IF Accepted = Before(Now(p).content)
       THEN Advance(p) /\ disk' = Written(disk, Canonical, Now(p).content)
       ELSE Abort(p) /\ UNCHANGED disk
    /\ UNCHANGED <<ledger, around, inside, bounds>>

(* replaceLedger: the ledger must be the one the sample was taken of. *)
ReplaceLedger(p) ==
    /\ At(p, "ledger")
    /\ IF ledger = op[p].opened THEN Made(p) /\ ledger' = Now(p).content
       ELSE Abort(p) /\ UNCHANGED ledger
    /\ UNCHANGED <<around, disk, inside, bounds>>

Report(p) ==
    /\ At(p, "report")
    /\ Advance(p)
    /\ UNCHANGED <<ledger, around, disk, inside, bounds>>

(* What the command made of what is to be taken back next. *)
Left(p) == {path \in op[p].made : path[1] = UndoOrder(op[p].kind)[op[p].at]}

(* removeCanonicalFileIfCreated; the ledger is put back as it was opened. *)
TakeBack(p) ==
    /\ ~Idle(p)
    /\ op[p].failed
    /\ ~Done(op[p])
    /\ ledger' = IF <<"ledger">> \in Left(p) THEN op[p].opened ELSE ledger
    /\ disk' = Without(disk, Left(p))
    /\ Advance(p)
    /\ UNCHANGED <<around, inside, bounds>>

(* A call of the file system fails; what takes the work back does not. *)
Fail(p) ==
    /\ \E do \in {"new", "put", "validate", "replace", "ledger", "report"} : At(p, do)
    /\ Abort(p)
    /\ UNCHANGED <<ledger, around, disk, inside, bounds>>

(* The process dies; its lock is freed when it is old enough. *)
Die(p) ==
    /\ ~Idle(p)
    /\ edits < MaxEdits
    /\ edits' = edits + 1
    /\ IF inside[p] = {} THEN UNCHANGED inside ELSE Locks!Leave(p)
    /\ op' = [op EXCEPT ![p] = None]
    /\ UNCHANGED <<ledger, around, disk, commands>>

------------------------------------------------------------------------------
(* What happens around the commands *)

Edit == edits < MaxEdits /\ edits' = edits + 1 /\ UNCHANGED <<commands, op, inside>>

LedgerIsFree == \A p \in Procs : "ledger" \notin inside[p]

(* Another gate words a block anew, or decides on it, under the ledger's lock. *)
EditLedger ==
    /\ Edit
    /\ LedgerIsFree
    /\ \E b \in Blocks :
        \/ \E w \in Words \ {ledger[b].word} :
            ledger' = [ledger EXCEPT ![b] = [word |-> w, status |-> "unreviewed"]]
        \/ /\ ledger[b].status # "accepted"
           /\ ledger' = [ledger EXCEPT ![b].status = "accepted"]
    /\ UNCHANGED <<around, disk>>

(* The protocol is edited where the briefs do not quote it. *)
EditProtocol ==
    /\ Edit
    /\ protocol' = protocol + 1
    /\ UNCHANGED <<ledger, audits, disk>>

(* The campaign audits a block whose audit is not current, or once more. *)
Audit ==
    /\ Edit
    /\ \E b \in Blocks, text \in Texts :
        /\ audits[b] # [word |-> ledger[b].word, text |-> text]
        /\ audits' = [audits EXCEPT ![b] = [word |-> ledger[b].word, text |-> text]]
    /\ UNCHANGED <<ledger, protocol, disk>>

(* writeCommentaryQualityAuditManifestPreview takes no lock. *)
WritePreview ==
    /\ HasPreview
    /\ ~Holds(Pending, Preview)
    /\ disk' = Written(disk, Pending, Preview)
    /\ UNCHANGED <<ledger, around, inside, op, bounds>>

------------------------------------------------------------------------------
(* What the repository begins with: a ledger that is decided and audited,   *)
(* the sample of its preview, if one was taken, and the audit that was       *)
(* accepted for another wording of it, if one was.                           *)

Clean(word) == [b \in Blocks |-> [word |-> word, status |-> "accepted"]]

Manifest(word) ==
    [ledger |-> Clean(word), protocol |-> 0, output |-> [b \in Blocks |-> 1]]

Judged(m, failed) ==
    [path \in {<<Artifacts[i], m>> : i \in DOMAIN Artifacts} |-> [no |-> 0, failed |-> failed]]

AcceptanceOf(m, day) ==
    LET e == [m |-> m, answer |-> [no |-> 0, failed |-> {}]]
        chain == <<Entry(m, day, e)>>
        paths == {<<"evidence", e>>, <<"note", day>>, Canonical}
    IN  [path \in paths |->
            CASE path = Canonical -> chain
              [] path = <<"note", day>> -> Note(chain)
              [] OTHER -> None]

Union(f, g) == [x \in DOMAIN f \cup DOMAIN g |-> IF x \in DOMAIN f THEN f[x] ELSE g[x]]

Init ==
    /\ \E word, other \in Words :
        /\ word # other
        /\ ledger = Clean(word)
        /\ \E sample \in {<<>>} \cup
                {Written(Judged(Manifest(word), failed), Pending, Manifest(word)) :
                    failed \in SUBSET Blocks},
              accepted \in {<<>>} \cup
                {Union(AcceptanceOf(Manifest(other), day), Judged(Manifest(other), {})) :
                    day \in Days} :
            disk = Union(sample, accepted)
    /\ protocol = 0
    /\ audits = [b \in Blocks |-> [word |-> ledger[b].word, text |-> 1]]
    /\ Locks!Init
    /\ op = [p \in Procs |-> None]
    /\ commands = 0 /\ edits = 0

Proceed(p) ==
    \/ Answer(p) \/ Look(p) \/ LookAgain(p) \/ Put(p) \/ WriteNew(p) \/ Validate(p)
    \/ Replace(p) \/ ReplaceLedger(p) \/ Report(p) \/ TakeBack(p) \/ Leave(p)

Around == EditLedger \/ EditProtocol \/ Audit \/ WritePreview

Next ==
    \/ \E p \in Procs : Ask(p) \/ Proceed(p) \/ Fail(p) \/ Die(p)
    \/ \E p \in Procs, kind \in Kinds \ {"sample"}, day \in Days : Begin(p, kind, day)
    \/ Around

Spec == Init /\ [][Next]_vars

------------------------------------------------------------------------------
(* Properties *)

(* Every variable has its type; a file has a content of its kind. *)
TypeOK ==
    /\ ledger \in [Blocks -> [word : Words, status : Statuses]]
    /\ protocol \in 0..MaxEdits
    /\ audits \in [Blocks -> [word : Words, text : Texts]]
    /\ \A path \in DOMAIN disk : path[1] \in {"execution", "output", "state"} =>
        disk[path].failed \subseteq Active(path[2].ledger)
    /\ Locks!TypeOK
    /\ \A p \in Procs : Idle(p) \/ op[p].kind \in Kinds
    /\ commands \in 0..MaxCommands /\ edits \in 0..MaxEdits

(* Accepted audits form a chain: a supersede follows an acceptance of other  *)
(* ledger bytes and keeps all of it, each audit has a passing sample of its  *)
(* very manifest, and the chain never shrinks, whatever fails, dies or edits *)
(* in between ("validation replays the predecessor chain").                  *)
Chain ==
    IF Provenance(Accepted)
    THEN [i \in DOMAIN Accepted |-> [ledger |-> Accepted[i].m.ledger,
                                     failed |-> Accepted[i].evidence.answer.failed]]
    ELSE <<[ledger |-> None, failed |-> Blocks]>>

AuditsOf == [ledger : [Blocks -> [word : Words, status : Statuses]], failed : SUBSET Blocks]

AuditChain == INSTANCE AuditChain WITH
    chain <- Chain, Audits <- AuditsOf,
    Start <- {<<>>} \cup {<<[ledger |-> Clean(word), failed |-> {}]>> : word \in Words}

ImplementsAuditChain == AuditChain!Spec

(* A command of which a step failed has removed every file it created, and   *)
(* a rejection has put back the ledger, when it gives back its lock.         *)
FailuresLeaveNoTrace ==
    [][\A p \in Procs : Leave(p) /\ op[p].failed /\ op[p].kind # "sample" =>
        /\ \A path \in op[p].made : ~Exists(path)
        /\ op[p].kind = "reject" => ledger = op[p].opened]_vars

(* One preview has one verdict: what was accepted or rejected of a manifest  *)
(* is what a complete set of artifacts in scratch still says of it, although *)
(* several runs may ask the provider about it at a time and none takes a     *)
(* lock.                                                                     *)
OneVerdict ==
    \A path \in DOMAIN disk : path[1] = "evidence" =>
        (Sampled(path[2].m) \in {"passed", "failed"} => Evidence(path[2].m) = path[2])

(* A block is rejected here only with evidence kept of a sample that failed  *)
(* this very wording, also when the rejection fails or dies half way.        *)
RejectedHaveEvidence ==
    \A b \in Blocks : ledger[b].status = "rejected" =>
        \E path \in DOMAIN disk :
            /\ path[1] = "evidence"
            /\ b \in path[2].answer.failed
            /\ path[2].m.ledger[b].word = ledger[b].word
==============================================================================
