--------------------------- MODULE OntologyAudit ---------------------------
(***************************************************************************)
(* The ontology audit of packages/harness/src/wiki/ontology-audit*.ts: a   *)
(* package of partitions (source reviews, findings, record and graph       *)
(* units, adjudications), a manifest with the hashes of the partitions and *)
(* an acceptance with the hash of the manifest.  Two reviewers read a      *)
(* source, a third one reconciles them, and close binds the package to the *)
(* corpus, regenerates everything derived from it twice, writes a receipt  *)
(* and accepts.  The commands take no lock; they are run one after the     *)
(* other.  A step is one write, so that a command can fail or die between  *)
(* any two, and the corpus can be edited between any two.                  *)
(*                                                                         *)
(* A hash is the value that it is the hash of.  One source unit, one       *)
(* record unit and one graph unit stand for the thousands; the concept     *)
(* partition, which is treated like the records, is left out.              *)
(***************************************************************************)
EXTENDS Naturals

CONSTANTS
    Reviewers,    \* who reads a source, and who reconciles two readings
    Words,        \* what a record or an edge can say
    Leaks,        \* the words that closure evidence objects to
    Baseline,     \* the frozen corpus that the package was generated from
    Corpora,      \* the corpora that edits lead to
    Readings,     \* what one reading may find: sets of [target, action]
    None,
    MaxCommands,  \* bound: commands started
    MaxEdits,     \* bound: edits of the corpus and of its protocol, and
                  \* decisions on final adjustments
    MaxFaults     \* bound: commands that fail or die

Parts   == {"records", "graphs"}
Targets == Parts \cup {"source"}
Passes  == {"primary", "independent"}

ASSUME CorpusAssumption ==
    /\ None \notin Words
    /\ Leaks \subseteq Words
    /\ Corpora \subseteq [Parts -> Words \cup {None}]
    /\ Baseline \in Corpora

ASSUME ReadingAssumption ==
    \A found \in Readings :
        found \subseteq [target: {"records", "source"}, action: {"add", "revise", "retire"}]

ASSUME BoundAssumption == {MaxCommands, MaxEdits, MaxFaults} \subseteq Nat

VARIABLES
    live,      \* the corpus in the worktree
    protocol,  \* the version of the audit's code and protocol
    artifact,  \* the final adjustments on disk, or None
    hasty,     \* whether adjustments were written while a command ran, a history
    disk,      \* the files of the package, and the closure receipt
    proc,      \* the command that runs
    commands,
    edits,
    faults

vars == <<live, protocol, artifact, hasty, disk, proc, commands, edits, faults>>

-----------------------------------------------------------------------------
(* Files.                                                                  *)

Content(d) == [sources |-> d.sources, findings |-> d.findings,
               parts |-> d.parts, adjudications |-> d.adjudications]

\* A manifest describes the partitions that are on disk.
Described(d, audit, adjustments) ==
    [audit |-> audit, partitions |-> Content(d), adjustments |-> adjustments,
     protocol |-> protocol]

(* Mutant: the digest outlives the acceptance that it was accepted with.   *)
PendingWithDigest(acceptance) ==
    [acceptance EXCEPT !.state = "pending", !.receipt = None, !.regeneration = None]

Pending(acceptance) ==
    [state |-> "pending", manifest |-> acceptance.manifest, digest |-> None,
     receipt |-> None, regeneration |-> None, adjustments |-> acceptance.adjustments]

Pass(reviewer, found) == [reviewer |-> reviewer, found |-> found]

Open == [state |-> "pending", action |-> None, findings |-> {}, by |-> None]

Row(p, final, done) == [baseline |-> Baseline[p], final |-> final, done |-> done]

Generated ==
    LET partitions ==
            [sources |-> [primary |-> None, independent |-> None, reconciliation |-> None],
             findings |-> {},
             parts |-> [p \in Parts |->
                           IF Baseline[p] = None THEN None ELSE Row(p, Baseline[p], FALSE)],
             adjudications |-> [t \in Targets |->
                           IF t \in Parts /\ Baseline[t] # None THEN Open ELSE None]]
        manifest == [audit |-> "pending", partitions |-> partitions,
                     adjustments |-> None, protocol |-> 0]
    IN  [sources |-> partitions.sources, findings |-> partitions.findings,
         parts |-> partitions.parts, adjudications |-> partitions.adjudications,
         manifest |-> manifest,
         acceptance |-> [state |-> "pending", manifest |-> manifest, digest |-> None,
                         receipt |-> None, regeneration |-> None, adjustments |-> None],
         regeneration |-> None, evidence |-> None, receipt |-> None]

\* Both files state the adjustments; a requirement in either one holds.
Conflict(d) == /\ d.acceptance.adjustments # None
               /\ d.manifest.adjustments # None
               /\ d.acceptance.adjustments # d.manifest.adjustments

Required(d) == IF d.acceptance.adjustments # None THEN d.acceptance.adjustments
                                                  ELSE d.manifest.adjustments

AdjustmentsProved(d) == /\ ~Conflict(d)
                        /\ Required(d) \in {None, artifact}

-----------------------------------------------------------------------------
(* Source reviews.                                                         *)

Found(pass, entry) == {[pass |-> pass, target |-> f.target, action |-> f.action] :
                          f \in entry.found}

Reported(d) == UNION {Found(pass, d.sources[pass]) :
                         pass \in {q \in Passes : d.sources[q] # None}}

Complete(d) == \A pass \in Passes : d.sources[pass] # None

Agreed(d) == d.sources.primary.found = d.sources.independent.found

\* A completed pass is never replaced by a different one.
ImportAllowed(d, pass, entry) == d.sources[pass] \in {None, entry}

\* A disagreement is routed to the adjudications of what was found; those of
\* records exist, that of a source is made here.  Where there is none, the code
\* falls back on the records that overlap the source: the one record unit, which
\* then has no adjudication either.
Routed(d) ==
    IF Agreed(d) THEN d.adjudications
    ELSE [t \in Targets |->
            LET about == {f \in Reported(d) : f.target = t}
                old   == IF t = "source" /\ about # {} /\ d.adjudications[t] = None
                         THEN Open ELSE d.adjudications[t]
            IN  IF old = None THEN None
                ELSE [old EXCEPT !.findings = @ \cup about]]

Reconciliation(d, reviewer) ==
    [reviewer |-> reviewer,
     agreed   |-> Agreed(d),
     routed   |-> IF Agreed(d) THEN {}
                  ELSE {t \in Targets : /\ Routed(d)[t] # None
                                        /\ \E f \in Reported(d) : f.target = t}]

ReconcileAllowed(d, reviewer) ==
    /\ Complete(d)
    /\ d.sources.primary.reviewer # d.sources.independent.reviewer
    /\ reviewer \notin {d.sources[pass].reviewer : pass \in Passes}
    /\ Agreed(d) \/ Reconciliation(d, reviewer).routed # {}
    /\ d.sources.reconciliation \in {None, Reconciliation(d, reviewer)}

-----------------------------------------------------------------------------
(* Binding the package to the corpus.                                      *)

Change(baseline, final) == IF baseline = final THEN "unchanged"
                           ELSE IF baseline = None THEN "added"
                           ELSE IF final = None THEN "removed" ELSE "modified"

\* Every unit of the baseline or of the corpus; only the corpus has finals.
Merged(d, corpus) ==
    [p \in Parts |-> IF Baseline[p] = None /\ corpus[p] = None THEN None
                     ELSE Row(p, corpus[p], TRUE)]

Final(row) == IF row = None THEN None ELSE row.final

StrongestAction(proposed, change) ==
    IF change = "removed" \/ "retire" \in proposed THEN "retire"
    ELSE IF "revise" \in proposed THEN "revise"
    ELSE IF change = "added" THEN "add"
    ELSE IF change = "modified" THEN "revise" ELSE "valid_as_is"

Decided(d, p) == artifact # None /\ p \in DOMAIN artifact.decisions

TerminalAdjudication(d, rows, t) ==
    LET about    == {f \in d.findings : f.target = t}
        proposed == {f.action : f \in about}
        old      == d.adjudications[t]
        Terminal(action, findings, by) ==
            [state |-> "complete", action |-> action, findings |-> findings, by |-> by]
    IN  IF t = "source"
        THEN IF old # None /\ old.state = "pending"
             THEN Terminal(IF "add" \in proposed THEN "add" ELSE "revise", about, "review")
             ELSE old
        ELSE IF rows[t] = None THEN None
        ELSE IF Decided(d, t)
        THEN Terminal(artifact.decisions[t].action,
                      IF old = None THEN {} ELSE old.findings, "adjustment")
        ELSE Terminal(StrongestAction(proposed, Change(rows[t].baseline, rows[t].final)),
                      about, "review")

ExpectedAction(prior, final) == IF prior = final THEN None
                                ELSE IF prior = None THEN "add"
                                ELSE IF final = None THEN "retire" ELSE "revise"

\* Units whose change from what is bound has to be decided on before bind.
Deltas(d, rows)   == {p \in Parts : Final(d.parts[p]) # Final(rows[p])}

AlreadyApplied(d, rows, p) ==
    LET decision == artifact.decisions[p]
        old      == d.adjudications[p]
    IN  /\ d.parts[p] # None
        /\ decision.expected = Final(d.parts[p])
        /\ decision.expected = Final(rows[p])
        /\ old # None
        /\ old.state = "complete"
        /\ old.findings = IF decision.superseded = None THEN {} ELSE decision.superseded.findings
        /\ old.action = decision.action
        /\ old.by = "adjustment"

\* The exact state before the adjustments, with every change decided on, or
\* the exact state after them; nothing in between.
Covered(d, rows) ==
    LET decided == DOMAIN artifact.decisions
        deltas  == Deltas(d, rows)
    IN  \/ /\ deltas # {}
           /\ deltas = decided
           /\ \A p \in deltas :
                LET decision == artifact.decisions[p]
                IN  /\ decision.action = ExpectedAction(Final(d.parts[p]), Final(rows[p]))
                    /\ decision.prior = Final(d.parts[p])
                    /\ decision.expected = Final(rows[p])
                    /\ decision.superseded = d.adjudications[p]
           /\ d.acceptance = artifact.acceptance \/ d.acceptance.state = "pending"
           /\ d.parts = artifact.acceptance.manifest.partitions.parts
           /\ d.adjudications = artifact.acceptance.manifest.partitions.adjudications
        \/ /\ deltas = {}
           /\ \A p \in decided : AlreadyApplied(d, rows, p)

(* Mutant: a unit that the corpus no longer has goes unnoticed.            *)
LiveFinalOfLive(parts, corpus) ==
    \A p \in Parts : corpus[p] # None => Final(parts[p]) = corpus[p]

LiveFinal(parts, corpus) == \A p \in Parts : Final(parts[p]) = corpus[p]

\* No decision is left over: a unit that the corpus had gained and lost again is
\* not of the package, and nothing can be decided on it.
BindAllowed(d, corpus) ==
    /\ AdjustmentsProved(d)
    /\ artifact # None =>
          /\ Covered(d, Merged(d, corpus))
          /\ \A p \in DOMAIN artifact.decisions : Merged(d, corpus)[p] # None

(* Mutant: the manifest keeps the state that an interrupted acceptance has  *)
(* left it in.                                                             *)
BindCandidateAsIs(d, corpus) ==
    LET rows == Merged(d, corpus)
        adjustments == IF artifact # None THEN artifact ELSE Required(d)
        e == [d EXCEPT !.parts = rows,
                       !.adjudications =
                            [t \in Targets |-> TerminalAdjudication(d, rows, t)]]
        manifest == Described(e, d.manifest.audit, adjustments)
    IN  [e EXCEPT !.manifest = manifest,
                  !.acceptance = [Pending(d.acceptance) EXCEPT !.manifest = manifest,
                                                               !.adjustments = adjustments]]

\* The partitions, the manifest and the pending acceptance that bind stages.
BindCandidate(d, corpus) ==
    LET rows == Merged(d, corpus)
        adjustments == IF artifact # None THEN artifact ELSE Required(d)
        e == [d EXCEPT !.parts = rows,
                       !.adjudications =
                            [t \in Targets |-> TerminalAdjudication(d, rows, t)]]
        manifest == Described(e, "pending", adjustments)
    IN  [e EXCEPT !.manifest = manifest,
                  !.acceptance = [Pending(d.acceptance) EXCEPT !.manifest = manifest,
                                                               !.adjustments = adjustments]]

-----------------------------------------------------------------------------
(* Verification.                                                           *)

Evidence(corpus) == {p \in Parts : corpus[p] \in Leaks}

PassesReviewed(d) ==
    /\ \A f \in d.findings : d.sources[f.pass] # None
                             /\ f \in Found(f.pass, d.sources[f.pass])
    /\ Reported(d) \subseteq d.findings
    /\ IF Complete(d)
       THEN LET r == d.sources.reconciliation
            IN  /\ d.sources.primary.reviewer # d.sources.independent.reviewer
                /\ r # None
                /\ r.reviewer \notin {d.sources[pass].reviewer : pass \in Passes}
                /\ r.agreed => Agreed(d)
                /\ ~r.agreed => /\ r.routed # {}
                                /\ \A t \in r.routed : d.adjudications[t] # None
       ELSE d.sources.reconciliation = None

\* A finding and the adjudication of its target cite one another.
FindingsCited(d) ==
    /\ \A f \in d.findings : d.adjudications[f.target] # None
                             /\ f \in d.adjudications[f.target].findings
    /\ \A t \in Targets : d.adjudications[t] # None =>
          \A f \in d.adjudications[t].findings : f \in d.findings /\ f.target = t

AdjustmentsReflected(d) ==
    artifact # None =>
        \A p \in DOMAIN artifact.decisions :
            /\ d.parts[p] # None
            /\ d.adjudications[p] # None
            /\ d.adjudications[p].action = artifact.decisions[p].action
            /\ d.adjudications[p].by = "adjustment"
            /\ d.parts[p].final = artifact.decisions[p].expected

\* What every scope of the verification checks of the package d, with the
\* acceptance a in the place of the one on disk.
Sound(d, a, corpus) ==
    /\ a.manifest = d.manifest
    /\ d.manifest.partitions = Content(d)
    /\ \A p \in Parts : d.parts[p] # None => d.adjudications[p] # None
    /\ a.adjustments = d.manifest.adjustments
    /\ a.adjustments = artifact
    /\ AdjustmentsReflected(d)
    /\ d.manifest.protocol = protocol
    /\ LiveFinal(d.parts, corpus)
    /\ PassesReviewed(d)
    /\ FindingsCited(d)

WorkComplete(d) ==
    /\ \A p \in Parts : d.parts[p] # None => d.parts[p].done
    /\ Complete(d)
    /\ d.sources.reconciliation # None
    /\ \A t \in Targets : d.adjudications[t] # None => d.adjudications[t].state = "complete"

FinalBindingVerified(d, corpus) ==
    /\ Sound(d, d.acceptance, corpus)
    /\ d.acceptance.state = "pending"
    /\ d.manifest.audit = "pending"
    /\ d.acceptance.receipt = None
    /\ d.acceptance.digest = None

EvidenceVerified(d, corpus) == d.evidence = Evidence(corpus) /\ d.evidence = {}

PreacceptanceVerified(d, corpus) ==
    /\ Sound(d, d.acceptance, corpus)
    /\ EvidenceVerified(d, corpus)
    /\ WorkComplete(d)

CandidateVerified(d, a, corpus) ==
    /\ Sound(d, a, corpus)
    /\ EvidenceVerified(d, corpus)
    /\ WorkComplete(d)
    /\ d.manifest.audit = "accepted"
    /\ a.digest = corpus
    /\ a.receipt # None
    /\ a.receipt = d.receipt
    /\ a.receipt.regeneration = d.regeneration
    /\ a.receipt.evidence = d.evidence
    /\ a.receipt.adjustments = artifact
    /\ a.regeneration = d.regeneration

-----------------------------------------------------------------------------
(* Acceptance.                                                             *)

AcceptAllowed(d, corpus) ==
    /\ WorkComplete(d)
    /\ d.receipt # None
    /\ LiveFinal(d.parts, corpus)

AcceptCandidate(d, corpus, regeneration) ==
    LET manifest == Described(d, "accepted", d.manifest.adjustments)
    IN  [d EXCEPT !.manifest = manifest,
                  !.acceptance = [state |-> "accepted", manifest |-> manifest,
                                  digest |-> corpus, receipt |-> d.receipt,
                                  regeneration |-> regeneration,
                                  adjustments |-> d.acceptance.adjustments]]
-----------------------------------------------------------------------------
(* Commands.                                                               *)

Idle == [pc |-> "idle", cmd |-> None, input |-> None, staged |-> None,
         before |-> None, run |-> None]

Init ==
    /\ live = Baseline
    /\ protocol = 0
    /\ artifact = None
    /\ hasty = FALSE
    /\ disk = Generated
    /\ proc = Idle
    /\ commands = 0
    /\ edits = 0
    /\ faults = 0

Start(cmd, input, pc) ==
    /\ proc = Idle
    /\ commands < MaxCommands
    /\ proc' = [Idle EXCEPT !.cmd = cmd, !.input = input, !.pc = pc]
    /\ commands' = commands + 1
    /\ UNCHANGED <<live, protocol, artifact, hasty, disk, edits, faults>>

At(pc) == proc.pc = pc

\* The command goes on at pc, or is done.
Continue(pc) == IF pc = "done" THEN Idle ELSE [proc EXCEPT !.pc = pc]

Write(d, pc) ==
    /\ disk' = d
    /\ proc' = Continue(pc)
    /\ UNCHANGED <<live, protocol, artifact, hasty, commands, edits, faults>>

StartImport(pass, entry) ==
    /\ ImportAllowed(disk, pass, entry)
    /\ Start("import", [pass |-> pass, entry |-> entry], "sources")

StartReconcile(reviewer) ==
    /\ ReconcileAllowed(disk, reviewer)
    /\ Start("reconcile", reviewer, "sources")

StartBind       == Start("bind-final", None, "bind")
StartRegenerate == Start("regenerate", None, "begin")
StartClose      == Start("close", None, "begin")

ImportSources ==
    /\ At("sources") /\ proc.cmd = "import"
    /\ Write([disk EXCEPT !.sources[proc.input.pass] = proc.input.entry], "findings")

ImportFindings ==
    /\ At("findings")
    /\ Write([disk EXCEPT !.findings = @ \cup Found(proc.input.pass, proc.input.entry)],
             "rebind-manifest")

ReconcileSources ==
    /\ At("sources") /\ proc.cmd = "reconcile"
    /\ Write([disk EXCEPT !.sources.reconciliation = Reconciliation(disk, proc.input)],
             "adjudications")

ReconcileAdjudications ==
    /\ At("adjudications")
    /\ Write([disk EXCEPT !.adjudications = Routed(disk)], "rebind-manifest")

\* refreshOntologyAuditBindings: whatever the state of the package is, it stays.
RebindManifest ==
    /\ At("rebind-manifest")
    /\ ~Conflict(disk)
    /\ Write([disk EXCEPT !.manifest = Described(disk, @.audit, Required(disk))],
             "rebind-acceptance")

RebindAcceptance ==
    /\ At("rebind-acceptance")
    /\ Write([disk EXCEPT !.acceptance.manifest = disk.manifest,
                          !.acceptance.adjustments = disk.manifest.adjustments], "done")

\* An accepted package is made pending before anything of it is changed.
Begin ==
    /\ At("begin")
    /\ AdjustmentsProved(disk)
    /\ Write([disk EXCEPT !.acceptance = IF @.state = "accepted" THEN Pending(@) ELSE @],
             IF proc.cmd = "close" THEN "bind" ELSE "regenerate-one")

Stage(d, pc) ==
    /\ proc' = [proc EXCEPT !.pc = pc, !.staged = d, !.before = Pending(disk.acceptance)]
    /\ UNCHANGED <<live, protocol, artifact, hasty, disk, commands, edits, faults>>

StageBind ==
    /\ At("bind")
    /\ BindAllowed(disk, live)
    /\ Stage(BindCandidate(disk, live), "bind-transition")

StageAccept ==
    /\ At("accept")
    /\ AcceptAllowed(disk, live)
    /\ Stage(AcceptCandidate(disk, live, proc.run), "accept-transition")

\* What is renamed, in this order: the acceptance is the last.
BindOrder == <<"bind-transition", "bind-records", "bind-graphs", "bind-adjudications",
               "bind-manifest", "bind-acceptance", "bind-verify">>

AcceptOrder == <<"accept-transition", "accept-manifest", "accept-verify",
                 "accept-acceptance", "accept-published">>

Published(pc) ==
    CASE pc \in {"bind-transition", "accept-transition"} ->
            [disk EXCEPT !.acceptance = proc.before]
      [] pc = "bind-records" ->
            [disk EXCEPT !.parts["records"] = proc.staged.parts["records"]]
      [] pc = "bind-graphs" ->
            [disk EXCEPT !.parts["graphs"] = proc.staged.parts["graphs"]]
      [] pc = "bind-adjudications" ->
            [disk EXCEPT !.adjudications = proc.staged.adjudications]
      [] pc \in {"bind-manifest", "accept-manifest"} ->
            [disk EXCEPT !.manifest = proc.staged.manifest]
      [] pc \in {"bind-acceptance", "accept-acceptance"} ->
            [disk EXCEPT !.acceptance = proc.staged.acceptance]

PublishBind ==
    \E i \in 1..6 : /\ At(BindOrder[i])
                    /\ Write(Published(proc.pc), BindOrder[i + 1])

BindVerify ==
    /\ At("bind-verify")
    /\ FinalBindingVerified(disk, live)
    /\ Write(disk, IF proc.cmd = "close" THEN "regenerate-one" ELSE "done")

\* A worker rebuilds everything derived from the corpus and writes what is
\* left to object to; before the first one, the package is made pending again.
Regenerate ==
    \/ /\ At("regenerate-one")
       /\ AdjustmentsProved(disk)
       /\ Write([disk EXCEPT !.evidence = Evidence(live)], "prove-one")
    \/ /\ At("regenerate-two")
       /\ Write([disk EXCEPT !.evidence = Evidence(live)], "prove-two")

\* It then verifies the package and reports the digest of what it has built.
ProveRun ==
    /\ proc.pc \in {"prove-one", "prove-two"}
    /\ PreacceptanceVerified(disk, live)
    /\ At("prove-two") => proc.run = live
    /\ proc' = [proc EXCEPT !.run = live,
                            !.pc = IF @ = "prove-one" THEN "regenerate-two" ELSE "regeneration"]
    /\ UNCHANGED <<live, protocol, artifact, hasty, disk, commands, edits, faults>>

WriteRegeneration ==
    /\ At("regeneration")
    /\ EvidenceVerified(disk, live)
    /\ Write([disk EXCEPT !.regeneration = proc.run],
             IF proc.cmd = "close" THEN "receipt" ELSE "done")

WriteReceipt ==
    /\ At("receipt")
    /\ EvidenceVerified(disk, live)
    /\ Write([disk EXCEPT !.receipt = [regeneration |-> disk.regeneration,
                                       evidence |-> disk.evidence,
                                       adjustments |-> artifact]], "accept")

PublishAccept ==
    \/ \E i \in {1, 2} : /\ At(AcceptOrder[i])
                         /\ Write(Published(proc.pc), AcceptOrder[i + 1])
    \/ /\ At("accept-verify")
       /\ CandidateVerified(disk, proc.staged.acceptance, live)
       /\ Write(disk, "accept-acceptance")
    \/ /\ At("accept-acceptance")
       /\ Write(Published("accept-acceptance"), "accept-published")
    \/ /\ At("accept-published")
       /\ Content(disk) = Content(proc.staged)
       /\ disk.manifest = proc.staged.manifest
       /\ disk.acceptance = proc.staged.acceptance
       /\ disk.receipt = proc.staged.receipt
       /\ Write(disk, "done")

\* A check refuses, or a call throws: once the acceptance has been made
\* pending, it is made pending again before the command ends.
InTransition == proc.pc \in {BindOrder[i] : i \in 2..7} \cup {AcceptOrder[i] : i \in 2..5}

Stop(d) ==
    /\ proc # Idle
    /\ faults < MaxFaults
    /\ disk' = d
    /\ proc' = Idle
    /\ faults' = faults + 1
    /\ UNCHANGED <<live, protocol, artifact, hasty, commands, edits>>

Fail == Stop(IF InTransition THEN [disk EXCEPT !.acceptance = proc.before] ELSE disk)

Die  == Stop(disk)

-----------------------------------------------------------------------------
(* What happens around the commands.                                       *)

Edit ==
    /\ edits < MaxEdits
    /\ edits' = edits + 1
    /\ UNCHANGED <<disk, proc, commands, faults>>

EditCorpus ==
    /\ live' \in Corpora \ {live}
    /\ Edit /\ UNCHANGED <<protocol, artifact, hasty>>

EditProtocol ==
    /\ protocol' = protocol + 1
    /\ Edit /\ UNCHANGED <<live, artifact, hasty>>

\* Decisions on changes of the corpus since it was accepted; the accepted
\* package is preserved with them.
AuthorAdjustments ==
    /\ artifact = None
    /\ disk.acceptance.state = "accepted"
    /\ \E decided \in (SUBSET {p \in Parts : Final(disk.parts[p]) # live[p]}) \ {{}} :
          artifact' = [acceptance |-> disk.acceptance,
                       decisions  |-> [p \in decided |->
                            [action     |-> ExpectedAction(Final(disk.parts[p]), live[p]),
                             prior      |-> Final(disk.parts[p]),
                             expected   |-> live[p],
                             superseded |-> disk.adjudications[p]]]]
    /\ hasty' = (hasty \/ proc # Idle)
    /\ Edit /\ UNCHANGED <<live, protocol>>

RemoveAdjustments ==
    /\ artifact # None
    /\ artifact' = None
    /\ UNCHANGED <<live, protocol, hasty, disk, proc, commands, edits, faults>>

Next ==
    \/ \E pass \in Passes, reviewer \in Reviewers, found \in Readings :
          StartImport(pass, Pass(reviewer, found))
    \/ \E reviewer \in Reviewers : StartReconcile(reviewer)
    \/ StartBind \/ StartRegenerate \/ StartClose
    \/ ImportSources \/ ImportFindings
    \/ ReconcileSources \/ ReconcileAdjudications
    \/ RebindManifest \/ RebindAcceptance
    \/ Begin \/ StageBind \/ PublishBind \/ BindVerify
    \/ Regenerate \/ ProveRun \/ WriteRegeneration \/ WriteReceipt
    \/ StageAccept \/ PublishAccept
    \/ Fail \/ Die
    \/ EditCorpus \/ EditProtocol \/ AuthorAdjustments \/ RemoveAdjustments

Spec == Init /\ [][Next]_vars

-----------------------------------------------------------------------------
(* Properties.                                                             *)

PassEntries == {None} \cup [reviewer: Reviewers, found: Readings]

\* The files hold what their readers expect, and only an accepted acceptance
\* has a digest, a receipt and a regeneration.
TypeOK ==
    /\ live \in Corpora
    /\ protocol \in 0..MaxEdits
    /\ hasty \in BOOLEAN
    /\ commands \in 0..MaxCommands
    /\ edits \in 0..MaxEdits
    /\ faults \in 0..MaxFaults
    /\ \A pass \in Passes : disk.sources[pass] \in PassEntries
    /\ disk.findings \subseteq [pass: Passes, target: Targets, action: {"add", "revise", "retire"}]
    /\ disk.parts \in [Parts -> {None} \cup [baseline: Words \cup {None},
                                             final: Words \cup {None}, done: BOOLEAN]]
    /\ disk.evidence \in {None} \cup SUBSET Parts
    /\ disk.regeneration \in {None} \cup Corpora
    /\ disk.manifest.audit \in {"pending", "accepted"}
    /\ disk.acceptance.state = "pending" =>
          {disk.acceptance.digest, disk.acceptance.receipt, disk.acceptance.regeneration} = {None}
    /\ disk.acceptance.state = "accepted" => disk.acceptance.digest \in Corpora

\* What an accepted package has on disk is what its acceptance binds. A
\* re-import that is interrupted may leave a manifest that names a newer
\* protocol, and nothing else.
Backed(d) ==
    /\ d.acceptance.manifest.partitions = Content(d)
    /\ d.manifest.partitions = Content(d)
    /\ d.manifest.audit = "accepted"
    /\ d.acceptance.adjustments = d.manifest.adjustments
    /\ d.acceptance.receipt = d.receipt
    /\ d.receipt.regeneration = d.regeneration
    /\ d.receipt.evidence = d.evidence
    /\ d.receipt.adjustments = d.acceptance.adjustments
    /\ d.evidence = {}
    /\ d.acceptance.regeneration = d.regeneration

\* Three people have looked at the source, and all that they found was decided.
Reviewed(d) ==
    /\ WorkComplete(d)
    /\ PassesReviewed(d)
    /\ FindingsCited(d)

\* The units are those of one corpus, the one of the digest, and a unit that
\* is gone was retired.
OneCorpus(d) ==
    /\ \A p \in Parts : Final(d.parts[p]) = d.acceptance.digest[p]
    /\ \A p \in Parts : d.parts[p] # None =>
          /\ d.parts[p].baseline = Baseline[p]
          /\ d.parts[p].final = None => d.adjudications[p].action = "retire"

\* Under adjustments, the corpus is the one that was accepted before, with the
\* decided changes and no other (ontology-audit-finalization.ts:952-954).
Authorised(d) ==
    d.acceptance.adjustments # None =>
        LET a == d.acceptance.adjustments
        IN  \A p \in Parts : Final(d.parts[p]) =
                IF p \in DOMAIN a.decisions THEN a.decisions[p].expected
                ELSE Final(a.acceptance.manifest.partitions.parts[p])

\* However commands fail, die and are repeated, and whatever is edited under
\* them, a package that is marked accepted has earned it.  That every change was
\* decided on is claimed as long as adjustments are written between commands
\* (ontology-audit-finalization.ts:301-368, ontology-vnext-closure.ts:656-658).
AuthorityIsEarned ==
    disk.acceptance.state = "accepted" =>
        /\ Backed(disk) /\ Reviewed(disk) /\ OneCorpus(disk)
        /\ ~hasty => Authorised(disk)

\* The package after the two imports, the reconciliation and close are run
\* again on d, with nothing going wrong.
Redone(d) == LET e == [d EXCEPT !.findings = @ \cup Reported(d)]
             IN  [e EXCEPT !.adjudications = Routed(e)]

Evidenced(d)   == [d EXCEPT !.evidence = Evidence(live)]
Regenerated(d) == [Evidenced(d) EXCEPT !.regeneration = live,
                                       !.receipt = [regeneration |-> live,
                                                    evidence |-> Evidence(live),
                                                    adjustments |-> artifact]]

CloseSucceeds(d) ==
    LET bound  == BindCandidate(d, live)
        ready  == Regenerated(bound)
        closed == AcceptCandidate(ready, live, live)
    IN  /\ FinalBindingVerified(bound, live)
        /\ PreacceptanceVerified(Evidenced(bound), live)
        /\ AcceptAllowed(ready, live)
        /\ CandidateVerified([closed EXCEPT !.acceptance = ready.acceptance],
                             closed.acceptance, live)

\* Two reviewers who find the same omission of the source agree, and then
\* nothing makes the adjudication that would have to cite what they found.
AgreedOmission(d) == Agreed(d) /\ \E f \in Reported(d) : f.target = "source"

\* Wherever a command fails or dies, the same commands run again bring a
\* reviewed package to its acceptance: no half-written state is refused for
\* good, adjustments that were half applied apart, which bind refuses
\* (ontology-audit-finalization.ts:952-957).
CanBeClosed ==
    LET d == Redone(disk)
    IN  /\ proc = Idle
        /\ Complete(disk)
        /\ disk.sources.reconciliation # None
        /\ ~AgreedOmission(disk)
        /\ Evidence(live) = {}
        /\ \/ artifact = None /\ Required(disk) = None
           \/ BindAllowed(d, live)
        => /\ ReconcileAllowed(d, disk.sources.reconciliation.reviewer)
           /\ BindAllowed(d, live)
           /\ CloseSucceeds(d)
=============================================================================
