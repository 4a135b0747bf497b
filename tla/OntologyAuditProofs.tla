------------------------ MODULE OntologyAuditProofs ------------------------
(***************************************************************************)
(* What holds of OntologyAudit for every corpus, every reading and any     *)
(* number of commands, edits and failures.                                 *)
(*                                                                         *)
(* The invariant is in three parts: the files and the command have the     *)
(* fields that their readers expect (Files, Command); the adjustments are  *)
(* decisions on changes (Decisions); and what a command has established,   *)
(* or staged, when it is at one of its writes still holds there (Writing). *)
(* The last part is what an accepted package rests on: the steps that go   *)
(* from one check to the next are the only ones that write.                *)
(***************************************************************************)
EXTENDS OntologyAudit, TLAPS

-----------------------------------------------------------------------------
(* The files and the command.                                              *)

IsSources(s) == s = [primary |-> s.primary, independent |-> s.independent,
                     reconciliation |-> s.reconciliation]

IsAcceptance(a) ==
    a = [state |-> a.state, manifest |-> a.manifest, digest |-> a.digest,
         receipt |-> a.receipt, regeneration |-> a.regeneration,
         adjustments |-> a.adjustments]

IsAdjudication(x) == x = [state |-> x.state, action |-> x.action,
                          findings |-> x.findings, by |-> x.by]

IsAdjudications(x) ==
    /\ x = [t \in Targets |-> x[t]]
    /\ \A t \in Targets : x[t] = None \/ IsAdjudication(x[t])

Package(s, f, p, x, m, a, r, e, c) ==
    [sources |-> s, findings |-> f, parts |-> p, adjudications |-> x, manifest |-> m,
     acceptance |-> a, regeneration |-> r, evidence |-> e, receipt |-> c]

IsPackage(d) ==
    d = Package(d.sources, d.findings, d.parts, d.adjudications, d.manifest,
                d.acceptance, d.regeneration, d.evidence, d.receipt)

Entries  == [reviewer: Reviewers, found: Readings]
Findings == [pass: Passes, target: Targets, action: {"add", "revise", "retire"}]
Rows     == [baseline: Words \cup {None}, final: Words \cup {None}, done: BOOLEAN]

\* Every row has the baseline that the package was generated from.
IsParts(parts) ==
    /\ parts \in [Parts -> {None} \cup Rows]
    /\ \A p \in Parts : parts[p] # None => parts[p].baseline = Baseline[p]

Unaccepted(a) == /\ IsAcceptance(a)
                 /\ a.state = "pending"
                 /\ a.digest = None /\ a.receipt = None /\ a.regeneration = None

Accepted(a) == IsAcceptance(a) /\ a.state = "accepted" /\ a.digest \in Corpora

Files(d) ==
    /\ IsPackage(d)
    /\ IsSources(d.sources)
    /\ \A pass \in Passes : d.sources[pass] \in PassEntries
    /\ d.findings \subseteq Findings
    /\ IsParts(d.parts)
    /\ IsAdjudications(d.adjudications)
    /\ d.manifest.audit \in {"pending", "accepted"}
    /\ Unaccepted(d.acceptance) \/ Accepted(d.acceptance)
    /\ d.regeneration \in {None} \cup Corpora
    /\ d.evidence \in {None} \cup SUBSET Parts

Counters ==
    /\ live \in Corpora
    /\ commands \in 0..MaxCommands
    /\ edits \in 0..MaxEdits
    /\ protocol \in 0..edits
    /\ faults \in 0..MaxFaults

Command == proc = [pc |-> proc.pc, cmd |-> proc.cmd, input |-> proc.input,
                   staged |-> proc.staged, before |-> proc.before, run |-> proc.run]

\* Adjustments decide on changes, and say what a change is.
Decisions ==
    artifact # None =>
        /\ DOMAIN artifact.decisions \subseteq Parts
        /\ DOMAIN artifact.decisions # {}
        /\ \A p \in DOMAIN artifact.decisions :
              LET decision == artifact.decisions[p]
              IN  /\ decision.action = ExpectedAction(decision.prior, decision.expected)
                  /\ decision.prior # decision.expected

-----------------------------------------------------------------------------
(* What a command has established.                                         *)

\* A unit that is gone was retired.
Retired(parts, adjudications) ==
    \A p \in Parts : parts[p] # None /\ parts[p].final = None =>
                        adjudications[p].action = "retire"

Earned(d) == Backed(d) /\ Reviewed(d) /\ OneCorpus(d)

AcceptedIsEarned ==
    disk.acceptance.state = "accepted" => Backed(disk) /\ Reviewed(disk) /\ OneCorpus(disk)

ChangesAreAuthorised == disk.acceptance.state = "accepted" => Authorised(disk)

\* The package with the acceptance that is staged.
ToAccept == [disk EXCEPT !.acceptance = proc.staged.acceptance]

BindSteps   == {"bind-transition", "bind-records", "bind-graphs", "bind-adjudications",
                "bind-manifest", "bind-acceptance"}
ProofSteps  == {"regenerate-one", "prove-one", "regenerate-two", "prove-two",
                "regeneration"}
AcceptSteps == {"accept-transition", "accept-manifest", "accept-verify",
                "accept-acceptance"}

\* Where the package has been made pending.
PendingSteps == (BindSteps \ {"bind-transition"}) \cup {"bind-verify"} \cup ProofSteps
                    \cup {"receipt", "accept"} \cup AcceptSteps

\* Where bind has published its partitions and nothing but close goes on.
BoundSteps == {"bind-manifest", "bind-acceptance", "bind-verify", "receipt", "accept"}
                  \cup AcceptSteps

StagedBind(d) ==
    /\ IsParts(d.parts)
    /\ IsAdjudications(d.adjudications)
    /\ Retired(d.parts, d.adjudications)
    /\ d.manifest.audit = "pending"
    /\ Unaccepted(d.acceptance)

StagedAccept(d) == d.manifest.audit = "accepted" /\ Accepted(d.acceptance)

Published1 == {"bind-graphs", "bind-adjudications"}

Importing ==
    /\ At("sources") /\ proc.cmd = "import" =>
          /\ proc.input.pass \in Passes
          /\ proc.input.entry \in Entries
          /\ ImportAllowed(disk, proc.input.pass, proc.input.entry)
    /\ At("findings") =>
          /\ proc.input.pass \in Passes
          /\ proc.input.entry \in Entries
          /\ disk.sources[proc.input.pass] = proc.input.entry

Reconciling == At("sources") /\ proc.cmd = "reconcile" => ReconcileAllowed(disk, proc.input)

Publishing ==
    /\ proc.pc \in PendingSteps => Unaccepted(disk.acceptance)
    /\ proc.pc \in BindSteps \cup {"bind-verify"} \cup AcceptSteps \cup {"accept-published"}
          => Unaccepted(proc.before)
    /\ proc.pc \in BindSteps => StagedBind(proc.staged)
    /\ proc.pc \in AcceptSteps => StagedAccept(proc.staged)

Binding ==
    /\ proc.pc \in Published1 => disk.parts["records"] = proc.staged.parts["records"]
    /\ At("bind-adjudications") => disk.parts["graphs"] = proc.staged.parts["graphs"]
    /\ proc.pc \in BoundSteps \/ (proc.pc \in ProofSteps /\ proc.cmd = "close")
          => Retired(disk.parts, disk.adjudications)

Proving ==
    /\ proc.pc \in {"regenerate-two", "prove-two", "regeneration", "receipt", "accept"}
          => proc.run \in Corpora
    /\ At("accept-acceptance") => Earned(ToAccept)

Writing == Importing /\ Reconciling /\ Publishing /\ Binding /\ Proving

Inv == /\ Counters
       /\ Files(disk)
       /\ Command
       /\ Decisions
       /\ Writing
       /\ AcceptedIsEarned

-----------------------------------------------------------------------------
(* What final adjustments leave alone.                                     *)

\* The finals of the units that the adjustments a do not decide on are those of
\* the package that was accepted before.
Kept(parts, a) ==
    \A p \in Parts \ DOMAIN a.decisions :
        Final(parts[p]) = Final(a.acceptance.manifest.partitions.parts[p])

Adjusted(d) == \E p \in Parts : d.adjudications[p] # None
                                /\ d.adjudications[p].by = "adjustment"

\* Where the partitions are those that bind has published.
AfterBind == proc.pc \in BoundSteps \/ (proc.pc \in ProofSteps /\ proc.cmd = "close")

Untouched ==
    /\ artifact # None =>
          /\ Adjusted(disk) => Kept(disk.parts, artifact)
          /\ proc.pc \in BindSteps => /\ Kept(disk.parts, artifact)
                                      /\ Kept(proc.staged.parts, artifact)
          /\ AfterBind => Kept(disk.parts, artifact)
    /\ At("accept-acceptance") => Authorised(ToAccept)

AInv == Inv /\ Untouched /\ ChangesAreAuthorised

\* What holds until adjustments are written under a command, and what holds then.
IInv == Inv /\ (~hasty => AInv)

-----------------------------------------------------------------------------
(* The files, one field at a time.                                         *)

LEMMA PackageFields ==
    ASSUME NEW d, IsPackage(d), NEW v
    PROVE  /\ [d EXCEPT !.sources = v] =
                 Package(v, d.findings, d.parts, d.adjudications,
                         d.manifest, d.acceptance, d.regeneration, d.evidence, d.receipt)
           /\ [d EXCEPT !.findings = v] =
                 Package(d.sources, v, d.parts, d.adjudications,
                         d.manifest, d.acceptance, d.regeneration, d.evidence, d.receipt)
           /\ [d EXCEPT !.parts = v] =
                 Package(d.sources, d.findings, v, d.adjudications,
                         d.manifest, d.acceptance, d.regeneration, d.evidence, d.receipt)
           /\ [d EXCEPT !.adjudications = v] =
                 Package(d.sources, d.findings, d.parts, v,
                         d.manifest, d.acceptance, d.regeneration, d.evidence, d.receipt)
           /\ [d EXCEPT !.manifest = v] =
                 Package(d.sources, d.findings, d.parts, d.adjudications,
                         v, d.acceptance, d.regeneration, d.evidence, d.receipt)
           /\ [d EXCEPT !.acceptance = v] =
                 Package(d.sources, d.findings, d.parts, d.adjudications,
                         d.manifest, v, d.regeneration, d.evidence, d.receipt)
           /\ [d EXCEPT !.regeneration = v] =
                 Package(d.sources, d.findings, d.parts, d.adjudications,
                         d.manifest, d.acceptance, v, d.evidence, d.receipt)
           /\ [d EXCEPT !.evidence = v] =
                 Package(d.sources, d.findings, d.parts, d.adjudications,
                         d.manifest, d.acceptance, d.regeneration, v, d.receipt)
           /\ [d EXCEPT !.receipt = v] =
                 Package(d.sources, d.findings, d.parts, d.adjudications,
                         d.manifest, d.acceptance, d.regeneration, d.evidence, v)
BY SMT DEF IsPackage, Package

LEMMA FilesOf ==
    ASSUME NEW s, IsSources(s), \A pass \in Passes : s[pass] \in PassEntries,
           NEW f, f \subseteq Findings, NEW p, IsParts(p), NEW x, IsAdjudications(x),
           NEW m, m.audit \in {"pending", "accepted"},
           NEW a, Unaccepted(a) \/ Accepted(a), NEW r, r \in {None} \cup Corpora,
           NEW e, e \in {None} \cup SUBSET Parts, NEW c
    PROVE  Files(Package(s, f, p, x, m, a, r, e, c))
BY DEF Files, IsPackage, Package

\* Each field of the package, when one of them is written.
LEMMA FilesFields ==
    ASSUME NEW d, Files(d), NEW v
    PROVE  /\ /\ IsSources(v)
              /\ \A pass \in Passes : v[pass] \in PassEntries
              => Files([d EXCEPT !.sources = v])
           /\ v \subseteq Findings => Files([d EXCEPT !.findings = v])
           /\ IsParts(v) => Files([d EXCEPT !.parts = v])
           /\ IsAdjudications(v) => Files([d EXCEPT !.adjudications = v])
           /\ v.audit \in {"pending", "accepted"} => Files([d EXCEPT !.manifest = v])
           /\ Unaccepted(v) \/ Accepted(v) => Files([d EXCEPT !.acceptance = v])
           /\ v \in {None} \cup Corpora => Files([d EXCEPT !.regeneration = v])
           /\ v \in {None} \cup SUBSET Parts => Files([d EXCEPT !.evidence = v])
           /\ Files([d EXCEPT !.receipt = v])
<1>1. IsPackage(d)
  BY DEF Files
<1>2. /\ IsSources(d.sources) /\ \A pass \in Passes : d.sources[pass] \in PassEntries
      /\ d.findings \subseteq Findings /\ IsParts(d.parts) /\ IsAdjudications(d.adjudications)
      /\ d.manifest.audit \in {"pending", "accepted"}
      /\ Unaccepted(d.acceptance) \/ Accepted(d.acceptance)
      /\ d.regeneration \in {None} \cup Corpora /\ d.evidence \in {None} \cup SUBSET Parts
  BY DEF Files
<1>3. /\ IsSources(v)
      /\ \A pass \in Passes : v[pass] \in PassEntries
      => Files([d EXCEPT !.sources = v])
  <2>1. [d EXCEPT !.sources = v] =
            Package(v, d.findings, d.parts, d.adjudications,
                    d.manifest, d.acceptance, d.regeneration, d.evidence, d.receipt)
    BY <1>1, PackageFields, Zenon
  <2> QED BY <1>2, <2>1, FilesOf
<1>4. v \subseteq Findings => Files([d EXCEPT !.findings = v])
  <2>1. [d EXCEPT !.findings = v] =
            Package(d.sources, v, d.parts, d.adjudications,
                    d.manifest, d.acceptance, d.regeneration, d.evidence, d.receipt)
    BY <1>1, PackageFields, Zenon
  <2> QED BY <1>2, <2>1, FilesOf
<1>5. IsParts(v) => Files([d EXCEPT !.parts = v])
  <2>1. [d EXCEPT !.parts = v] =
            Package(d.sources, d.findings, v, d.adjudications,
                    d.manifest, d.acceptance, d.regeneration, d.evidence, d.receipt)
    BY <1>1, PackageFields, Zenon
  <2> QED BY <1>2, <2>1, FilesOf
<1>6. IsAdjudications(v) => Files([d EXCEPT !.adjudications = v])
  <2>1. [d EXCEPT !.adjudications = v] =
            Package(d.sources, d.findings, d.parts, v,
                    d.manifest, d.acceptance, d.regeneration, d.evidence, d.receipt)
    BY <1>1, PackageFields, Zenon
  <2> QED BY <1>2, <2>1, FilesOf
<1>7. v.audit \in {"pending", "accepted"} => Files([d EXCEPT !.manifest = v])
  <2>1. [d EXCEPT !.manifest = v] =
            Package(d.sources, d.findings, d.parts, d.adjudications,
                    v, d.acceptance, d.regeneration, d.evidence, d.receipt)
    BY <1>1, PackageFields, Zenon
  <2> QED BY <1>2, <2>1, FilesOf
<1>8. Unaccepted(v) \/ Accepted(v) => Files([d EXCEPT !.acceptance = v])
  <2>1. [d EXCEPT !.acceptance = v] =
            Package(d.sources, d.findings, d.parts, d.adjudications,
                    d.manifest, v, d.regeneration, d.evidence, d.receipt)
    BY <1>1, PackageFields, Zenon
  <2> QED BY <1>2, <2>1, FilesOf
<1>9. v \in {None} \cup Corpora => Files([d EXCEPT !.regeneration = v])
  <2>1. [d EXCEPT !.regeneration = v] =
            Package(d.sources, d.findings, d.parts, d.adjudications,
                    d.manifest, d.acceptance, v, d.evidence, d.receipt)
    BY <1>1, PackageFields, Zenon
  <2> QED BY <1>2, <2>1, FilesOf
<1>10. v \in {None} \cup SUBSET Parts => Files([d EXCEPT !.evidence = v])
  <2>1. [d EXCEPT !.evidence = v] =
            Package(d.sources, d.findings, d.parts, d.adjudications,
                    d.manifest, d.acceptance, d.regeneration, v, d.receipt)
    BY <1>1, PackageFields, Zenon
  <2> QED BY <1>2, <2>1, FilesOf
<1>11. Files([d EXCEPT !.receipt = v])
  <2>1. [d EXCEPT !.receipt = v] =
            Package(d.sources, d.findings, d.parts, d.adjudications,
                    d.manifest, d.acceptance, d.regeneration, d.evidence, v)
    BY <1>1, PackageFields, Zenon
  <2> QED BY <1>2, <2>1, FilesOf
<1> QED BY <1>3, <1>4, <1>5, <1>6, <1>7, <1>8, <1>9, <1>10, <1>11

\* A write of a command, whatever it writes.
LEMMA Writes ==
    ASSUME Inv, NEW d, NEW pc, Write(d, pc)
    PROVE  /\ Counters' /\ Command' /\ Decisions'
           /\ disk' = d
           /\ UNCHANGED <<live, protocol, artifact>>
           /\ proc'.pc = IF pc = "done" THEN "idle" ELSE pc
           /\ pc # "done" => /\ proc'.cmd = proc.cmd
                             /\ proc'.input = proc.input
                             /\ proc'.staged = proc.staged
                             /\ proc'.before = proc.before
                             /\ proc'.run = proc.run
<1> DEFINE going == [proc EXCEPT !.pc = pc]
<1>1. going = [pc |-> pc, cmd |-> proc.cmd, input |-> proc.input, staged |-> proc.staged,
               before |-> proc.before, run |-> proc.run]
  BY DEF Inv, Command
<1>2. Counters' /\ Decisions' /\ disk' = d /\ UNCHANGED <<live, protocol, artifact>>
  BY DEF Write, Inv, Counters, Decisions, ExpectedAction
<1>3. proc' = IF pc = "done" THEN Idle ELSE going
  BY DEF Write, Continue
<1> HIDE DEF going
<1>4. CASE pc = "done"
  <2>1. proc' = Idle
    BY <1>3, <1>4
  <2>2. Command'
    BY <2>1 DEF Command, Idle
  <2> QED BY <1>2, <1>4, <2>1, <2>2 DEF Idle
<1>5. CASE pc # "done"
  <2>1. proc' = going
    BY <1>3, <1>5
  <2>2. Command'
    BY <2>1, <1>1 DEF Command
  <2> QED BY <1>1, <1>2, <1>5, <2>1, <2>2
<1> QED BY <1>4, <1>5

\* A command that has ended has nothing left to keep.
LEMMA EndedWrites ==
    ASSUME proc'.pc \in {"idle", "bind", "begin", "rebind-manifest", "rebind-acceptance",
                         "adjudications"}
    PROVE  Writing'
BY DEF Writing, Importing, Reconciling, Publishing, Binding, Proving, At, BindSteps,
       ProofSteps, AcceptSteps, PendingSteps, BoundSteps, Published1

LEMMA PendingIsUnearned ==
    ASSUME Unaccepted(disk'.acceptance)
    PROVE  AcceptedIsEarned'
BY DEF Unaccepted, AcceptedIsEarned

\* Nothing but the counters, the corpus, the protocol and the adjustments.
LEMMA AroundCommands ==
    ASSUME Inv, UNCHANGED <<disk, proc>>
    PROVE  Files(disk)' /\ Command' /\ Writing' /\ AcceptedIsEarned'
<1>1. Files(disk)' /\ Command' /\ AcceptedIsEarned'
  BY DEF Inv, Command, AcceptedIsEarned
<1>2. Writing'
  BY DEF Inv, Writing, Importing, Reconciling, Publishing, Binding, Proving, At, ToAccept
<1> QED BY <1>1, <1>2

-----------------------------------------------------------------------------
(* One lemma for every action.                                             *)

LEMMA StartInv ==
    ASSUME Inv, NEW cmd, NEW input, NEW pc \in {"sources", "bind", "begin"},
           Start(cmd, input, pc),
           pc = "sources" /\ cmd = "import" =>
               /\ input.pass \in Passes
               /\ input.entry \in Entries
               /\ ImportAllowed(disk, input.pass, input.entry),
           pc = "sources" /\ cmd = "reconcile" => ReconcileAllowed(disk, input)
    PROVE  Inv'
<1>1. proc' = [pc |-> pc, cmd |-> cmd, input |-> input, staged |-> None,
               before |-> None, run |-> None]
  BY DEF Start, Idle
<1>2. disk' = disk /\ artifact' = artifact /\ Counters'
  BY BoundAssumption DEF Start, Inv, Counters
<1>3. Files(disk)' /\ Command' /\ Decisions' /\ AcceptedIsEarned'
  BY <1>1, <1>2 DEF Inv, Command, Decisions, AcceptedIsEarned
<1>4. proc'.pc = pc /\ proc'.cmd = cmd /\ proc'.input = input
  BY <1>1
<1>5. Writing'
  <2>1. CASE pc = "sources"
    <3>1. Importing' /\ Reconciling'
      BY <1>2, <1>4, <2>1 DEF Importing, Reconciling, At
    <3>2. Publishing' /\ Binding' /\ Proving'
      BY <1>4, <2>1 DEF Publishing, Binding, Proving, At, BindSteps, ProofSteps,
                        AcceptSteps, PendingSteps, BoundSteps, Published1
    <3> QED BY <3>1, <3>2 DEF Writing
  <2>2. CASE pc # "sources"
    BY <1>4, <2>2, EndedWrites
  <2> QED BY <2>1, <2>2
<1> QED BY <1>2, <1>3, <1>5 DEF Inv

LEMMA StartImportInv ==
    ASSUME Inv, NEW pass \in Passes, NEW reviewer \in Reviewers, NEW found \in Readings,
           StartImport(pass, Pass(reviewer, found))
    PROVE  Inv'
<1> DEFINE input == [pass |-> pass, entry |-> Pass(reviewer, found)]
<1>1. ImportAllowed(disk, pass, Pass(reviewer, found)) /\ Start("import", input, "sources")
  BY DEF StartImport
<1>2. input.pass = pass /\ input.entry = Pass(reviewer, found)
  OBVIOUS
<1>3. Pass(reviewer, found) \in Entries
  BY DEF Pass, Entries
<1> HIDE DEF input
<1> QED BY <1>1, <1>2, <1>3, StartInv

LEMMA OtherStartsInv ==
    ASSUME Inv,
           \/ \E reviewer \in Reviewers : StartReconcile(reviewer)
           \/ StartBind \/ StartRegenerate \/ StartClose
    PROVE  Inv'
<1>1. ASSUME NEW reviewer \in Reviewers, StartReconcile(reviewer) PROVE Inv'
  BY <1>1, StartInv DEF StartReconcile
<1>2. CASE StartBind \/ StartRegenerate \/ StartClose
  BY <1>2, StartInv DEF StartBind, StartRegenerate, StartClose
<1> QED BY <1>1, <1>2

\* What was read is a finding.
LEMMA FoundIsTyped ==
    ASSUME NEW pass \in Passes, NEW entry \in Entries
    PROVE  Found(pass, entry) \subseteq Findings
BY ReadingAssumption DEF Found, Entries, Findings, Targets, Parts

\* Where the package is accepted, both passes are there, and all that they
\* found is a finding that is cited.
LEMMA AcceptedIsReviewed ==
    ASSUME Files(disk), AcceptedIsEarned, ~Unaccepted(disk.acceptance)
    PROVE  /\ Earned(disk) /\ disk.acceptance.state = "accepted"
           /\ \A pass \in Passes : disk.sources[pass] # None
           /\ disk.sources.reconciliation # None
           /\ Reported(disk) \subseteq disk.findings
BY DEF Files, Accepted, AcceptedIsEarned, Earned, Reviewed, WorkComplete, Complete,
       PassesReviewed

\* A write that changes nothing leaves an accepted package accepted.
LEMMA SameIsEarned ==
    ASSUME AcceptedIsEarned, disk' = disk
    PROVE  AcceptedIsEarned'
BY DEF AcceptedIsEarned

LEMMA SourcesWith ==
    ASSUME NEW s, IsSources(s), NEW pass \in Passes, NEW v
    PROVE  /\ IsSources([s EXCEPT ![pass] = v])
           /\ [s EXCEPT ![pass] = v][pass] = v
           /\ \A q \in Passes \ {pass} : [s EXCEPT ![pass] = v][q] = s[q]
           /\ s[pass] = v => [s EXCEPT ![pass] = v] = s
<1>1. CASE pass = "primary"
  <2>1. [s EXCEPT !.primary = v] = [primary |-> v, independent |-> s.independent,
                                   reconciliation |-> s.reconciliation]
    BY DEF IsSources
  <2>2. [s EXCEPT ![pass] = v] = [s EXCEPT !.primary = v]
    BY <1>1
  <2> QED BY <1>1, <2>1, <2>2 DEF IsSources, Passes
<1>2. CASE pass = "independent"
  <2>1. [s EXCEPT !.independent = v] = [primary |-> s.primary, independent |-> v,
                                   reconciliation |-> s.reconciliation]
    BY DEF IsSources
  <2>2. [s EXCEPT ![pass] = v] = [s EXCEPT !.independent = v]
    BY <1>2
  <2> QED BY <1>2, <2>1, <2>2 DEF IsSources, Passes
<1> QED BY <1>1, <1>2 DEF Passes

LEMMA ImportSourcesInv ==
    ASSUME Inv, ImportSources
    PROVE  Inv'
<1> DEFINE pass  == proc.input.pass
           entry == proc.input.entry
           s     == [disk.sources EXCEPT ![pass] = entry]
<1>1. /\ pass \in Passes /\ entry \in Entries /\ ImportAllowed(disk, pass, entry)
      /\ Write([disk EXCEPT !.sources = s], "findings")
  BY DEF ImportSources, Inv, Writing, Importing
<1>2. Files(disk) /\ IsPackage(disk) /\ IsSources(disk.sources) /\ AcceptedIsEarned
  BY DEF Inv, Files
<1> HIDE DEF pass, entry
<1>3. /\ IsSources(s) /\ s[pass] = entry
      /\ \A q \in Passes \ {pass} : s[q] = disk.sources[q]
      /\ disk.sources[pass] = entry => s = disk.sources
  BY <1>1, <1>2, SourcesWith
<1> HIDE DEF s
<1>4. \A q \in Passes : s[q] \in PassEntries
  BY <1>1, <1>2, <1>3 DEF Files, PassEntries, Entries
<1>5. /\ Counters' /\ Command' /\ Decisions' /\ disk' = [disk EXCEPT !.sources = s]
      /\ proc'.pc = "findings" /\ proc'.input = proc.input
  BY <1>1, Writes
<1>6. disk' = Package(s, disk.findings, disk.parts, disk.adjudications, disk.manifest,
                      disk.acceptance, disk.regeneration, disk.evidence, disk.receipt)
  BY <1>2, <1>5, PackageFields, Zenon
<1>7. Files(disk')
  BY <1>2, <1>3, <1>4, <1>5, FilesFields
<1>8. Writing'
  BY <1>1, <1>3, <1>5, <1>6
     DEF pass, entry, Package, Writing, Importing, Reconciling, Publishing, Binding, Proving,
         At, BindSteps, ProofSteps, AcceptSteps, PendingSteps, BoundSteps, Published1
<1>9. AcceptedIsEarned'
  <2>1. CASE Unaccepted(disk.acceptance)
    BY <1>6, <2>1, PendingIsUnearned DEF Package
  <2>2. CASE ~Unaccepted(disk.acceptance)
    <3>1. disk.sources[pass] # None
      BY <1>1, <1>2, <2>2, AcceptedIsReviewed
    <3>2. s = disk.sources
      BY <1>1, <1>3, <3>1 DEF ImportAllowed
    <3>3. disk' = disk
      BY <1>2, <1>6, <3>2 DEF IsPackage
    <3> QED BY <1>2, <3>3, SameIsEarned
  <2> QED BY <2>1, <2>2
<1> QED BY <1>5, <1>7, <1>8, <1>9 DEF Inv

LEMMA ImportFindingsInv ==
    ASSUME Inv, ImportFindings
    PROVE  Inv'
<1> DEFINE pass  == proc.input.pass
           entry == proc.input.entry
           f     == disk.findings \cup Found(pass, entry)
<1>1. /\ pass \in Passes /\ entry \in Entries /\ disk.sources[pass] = entry
      /\ Write([disk EXCEPT !.findings = f], "rebind-manifest")
  BY DEF ImportFindings, Inv, Writing, Importing
<1>2. Files(disk) /\ IsPackage(disk) /\ AcceptedIsEarned
  BY DEF Inv, Files
<1> HIDE DEF pass, entry
<1>3. f \subseteq Findings
  BY <1>1, <1>2, FoundIsTyped DEF Files
<1> HIDE DEF f
<1>4. /\ Counters' /\ Command' /\ Decisions' /\ disk' = [disk EXCEPT !.findings = f]
      /\ proc'.pc = "rebind-manifest"
  BY <1>1, Writes
<1>5. disk' = Package(disk.sources, f, disk.parts, disk.adjudications, disk.manifest,
                      disk.acceptance, disk.regeneration, disk.evidence, disk.receipt)
  BY <1>2, <1>4, PackageFields, Zenon
<1>6. Files(disk')
  BY <1>2, <1>3, <1>4, FilesFields
<1>7. Writing'
  BY <1>4, EndedWrites
<1>8. AcceptedIsEarned'
  <2>1. CASE Unaccepted(disk.acceptance)
    BY <1>5, <2>1, PendingIsUnearned DEF Package
  <2>2. CASE ~Unaccepted(disk.acceptance)
    <3>1. disk.sources[pass] # None /\ Reported(disk) \subseteq disk.findings
      BY <1>1, <1>2, <2>2, AcceptedIsReviewed
    <3>2. Found(pass, entry) \subseteq Reported(disk)
      BY <1>1, <3>1 DEF Reported
    <3>3. f = disk.findings
      BY <3>1, <3>2 DEF f
    <3>4. disk' = disk
      BY <1>2, <1>5, <3>3 DEF IsPackage
    <3> QED BY <1>2, <3>4, SameIsEarned
  <2> QED BY <2>1, <2>2
<1> QED BY <1>4, <1>6, <1>7, <1>8 DEF Inv

LEMMA ReconcileSourcesInv ==
    ASSUME Inv, ReconcileSources
    PROVE  Inv'
<1> DEFINE r == Reconciliation(disk, proc.input)
           s == [disk.sources EXCEPT !.reconciliation = r]
<1>1. /\ disk.sources.reconciliation \in {None, r}
      /\ Write([disk EXCEPT !.sources = s], "adjudications")
  BY DEF ReconcileSources, Inv, Writing, Reconciling, ReconcileAllowed
<1>2. Files(disk) /\ IsPackage(disk) /\ AcceptedIsEarned
  BY DEF Inv, Files
<1> HIDE DEF r
<1>3. s = [primary |-> disk.sources.primary, independent |-> disk.sources.independent,
           reconciliation |-> r]
  BY <1>2 DEF Files, IsSources
<1> HIDE DEF s
<1>4. IsSources(s) /\ \A q \in Passes : s[q] \in PassEntries
  BY <1>2, <1>3 DEF Files, IsSources, Passes
<1>5. /\ Counters' /\ Command' /\ Decisions' /\ disk' = [disk EXCEPT !.sources = s]
      /\ proc'.pc = "adjudications"
  BY <1>1, Writes
<1>6. disk' = Package(s, disk.findings, disk.parts, disk.adjudications, disk.manifest,
                      disk.acceptance, disk.regeneration, disk.evidence, disk.receipt)
  BY <1>2, <1>5, PackageFields, Zenon
<1>7. Files(disk')
  BY <1>2, <1>4, <1>5, FilesFields
<1>8. Writing'
  BY <1>5, EndedWrites
<1>9. AcceptedIsEarned'
  <2>1. CASE Unaccepted(disk.acceptance)
    BY <1>6, <2>1, PendingIsUnearned DEF Package
  <2>2. CASE ~Unaccepted(disk.acceptance)
    <3>1. disk.sources.reconciliation = r
      BY <1>1, <1>2, <2>2, AcceptedIsReviewed
    <3>2. s = disk.sources
      BY <1>2, <1>3, <3>1 DEF Files, IsSources
    <3>3. disk' = disk
      BY <1>2, <1>6, <3>2 DEF IsPackage
    <3> QED BY <1>2, <3>3, SameIsEarned
  <2> QED BY <2>1, <2>2
<1> QED BY <1>5, <1>7, <1>8, <1>9 DEF Inv

\* More findings on what was decided.
LEMMA MoreFindings ==
    ASSUME NEW x, IsAdjudication(x), NEW about
    PROVE  /\ IsAdjudication([x EXCEPT !.findings = @ \cup about])
           /\ [x EXCEPT !.findings = @ \cup about].by = x.by
           /\ [x EXCEPT !.findings = @ \cup about].action = x.action
           /\ about \subseteq x.findings => [x EXCEPT !.findings = @ \cup about] = x
<1> DEFINE more == x.findings \cup about
<1>1. [x EXCEPT !.findings = @ \cup about] =
          [state |-> x.state, action |-> x.action, findings |-> more, by |-> x.by]
  BY DEF IsAdjudication
<1>2. about \subseteq x.findings => more = x.findings
  OBVIOUS
<1> HIDE DEF more
<1> QED BY <1>1, <1>2 DEF IsAdjudication

\* Routing keeps the decisions on records and edges.
LEMMA RoutedIs ==
    ASSUME NEW d, IsAdjudications(d.adjudications)
    PROVE  /\ IsAdjudications(Routed(d))
           /\ \A p \in Parts : Routed(d)[p] # None =>
                  /\ d.adjudications[p] # None
                  /\ Routed(d)[p].by = d.adjudications[p].by
<1> DEFINE about(t) == {f \in Reported(d) : f.target = t}
           old(t)   == IF t = "source" /\ about(t) # {} /\ d.adjudications[t] = None
                       THEN Open ELSE d.adjudications[t]
           new(t)   == IF old(t) = None THEN None
                       ELSE [old(t) EXCEPT !.findings = @ \cup about(t)]
<1>1. CASE Agreed(d)
  BY <1>1 DEF Routed
<1>2. CASE ~Agreed(d)
  <2>1. Routed(d) = [t \in Targets |-> new(t)]
    BY <1>2 DEF Routed
  <2>2. \A t \in Targets : old(t) = None \/ IsAdjudication(old(t))
    BY DEF IsAdjudications, IsAdjudication, Open
  <2>3. \A p \in Parts : p \in Targets /\ old(p) = d.adjudications[p]
    BY DEF Parts, Targets
  <2> HIDE DEF old, about
  <2>4. \A t \in Targets : Routed(d)[t] = new(t)
    BY <2>1
  <2>5. \A t \in Targets : new(t) = None \/ IsAdjudication(new(t))
    BY <2>2, MoreFindings
  <2>6. \A p \in Parts : new(p) # None => old(p) # None /\ new(p).by = old(p).by
    BY <2>2, <2>3, MoreFindings
  <2> HIDE DEF new
  <2> QED BY <2>1, <2>3, <2>4, <2>5, <2>6 DEF IsAdjudications
<1> QED BY <1>1, <1>2

\* Nothing is left to route once every finding is cited.
LEMMA RoutedSame ==
    ASSUME NEW d, IsAdjudications(d.adjudications), FindingsCited(d),
           Reported(d) \subseteq d.findings
    PROVE  Routed(d) = d.adjudications
<1> DEFINE about(t) == {f \in Reported(d) : f.target = t}
           old(t)   == IF t = "source" /\ about(t) # {} /\ d.adjudications[t] = None
                       THEN Open ELSE d.adjudications[t]
           new(t)   == IF old(t) = None THEN None
                       ELSE [old(t) EXCEPT !.findings = @ \cup about(t)]
<1>1. CASE Agreed(d)
  BY <1>1 DEF Routed
<1>2. CASE ~Agreed(d)
  <2>1. Routed(d) = [t \in Targets |-> new(t)]
    BY <1>2 DEF Routed
  <2>2. \A t \in Targets : \A f \in about(t) : d.adjudications[t] # None
                                               /\ f \in d.adjudications[t].findings
    BY DEF FindingsCited
  <2>3. \A t \in Targets : old(t) = d.adjudications[t]
    BY <2>2
  <2>4. \A t \in Targets : about(t) \subseteq d.adjudications[t].findings
    BY <2>2
  <2> HIDE DEF about, old
  <2>5. ASSUME NEW t \in Targets PROVE new(t) = d.adjudications[t]
    <3>1. old(t) = d.adjudications[t] /\ about(t) \subseteq d.adjudications[t].findings
      BY <2>3, <2>4
    <3>2. CASE d.adjudications[t] = None
      BY <3>1, <3>2
    <3>3. CASE d.adjudications[t] # None
      <4>1. IsAdjudication(d.adjudications[t])
        BY <3>3 DEF IsAdjudications
      <4>2. [d.adjudications[t] EXCEPT !.findings = @ \cup about(t)] = d.adjudications[t]
        BY <3>1, <4>1, MoreFindings
      <4> QED BY <3>1, <3>3, <4>2
    <3> QED BY <3>2, <3>3
  <2> HIDE DEF new
  <2> QED BY <2>1, <2>5 DEF IsAdjudications
<1> QED BY <1>1, <1>2

LEMMA ReconcileAdjudicationsInv ==
    ASSUME Inv, ReconcileAdjudications
    PROVE  Inv'
<1> DEFINE x == Routed(disk)
<1>1. Write([disk EXCEPT !.adjudications = x], "rebind-manifest")
  BY DEF ReconcileAdjudications
<1>2. Files(disk) /\ IsPackage(disk) /\ IsAdjudications(disk.adjudications) /\ AcceptedIsEarned
  BY DEF Inv, Files
<1>3. IsAdjudications(x)
  BY <1>2, RoutedIs
<1> HIDE DEF x
<1>4. /\ Counters' /\ Command' /\ Decisions' /\ disk' = [disk EXCEPT !.adjudications = x]
      /\ proc'.pc = "rebind-manifest"
  BY <1>1, Writes
<1>5. disk' = Package(disk.sources, disk.findings, disk.parts, x, disk.manifest,
                      disk.acceptance, disk.regeneration, disk.evidence, disk.receipt)
  BY <1>2, <1>4, PackageFields, Zenon
<1>6. Files(disk')
  BY <1>2, <1>3, <1>4, FilesFields
<1>7. Writing'
  BY <1>4, EndedWrites
<1>8. AcceptedIsEarned'
  <2>1. CASE Unaccepted(disk.acceptance)
    BY <1>5, <2>1, PendingIsUnearned DEF Package
  <2>2. CASE ~Unaccepted(disk.acceptance)
    <3>1. Reported(disk) \subseteq disk.findings /\ FindingsCited(disk)
      BY <1>2, <2>2, AcceptedIsReviewed DEF Earned, Reviewed
    <3>2. x = disk.adjudications
      BY <1>2, <3>1, RoutedSame DEF x
    <3>3. disk' = disk
      BY <1>2, <1>5, <3>2 DEF IsPackage
    <3> QED BY <1>2, <3>3, SameIsEarned
  <2> QED BY <2>1, <2>2
<1> QED BY <1>4, <1>6, <1>7, <1>8 DEF Inv

\* Whether a package is reviewed and of one corpus is a matter of its
\* partitions and of the digest.
LEMMA SamePartitions ==
    ASSUME NEW d, NEW e, e.sources = d.sources, e.findings = d.findings,
           e.parts = d.parts, e.adjudications = d.adjudications
    PROVE  /\ Content(e) = Content(d)
           /\ Reviewed(d) => Reviewed(e)
           /\ e.acceptance.digest = d.acceptance.digest /\ OneCorpus(d) => OneCorpus(e)
<1>1. Content(e) = Content(d)
  BY DEF Content
<1>2. WorkComplete(d) => WorkComplete(e)
  BY DEF WorkComplete, Complete
<1>3. Reported(e) = Reported(d) /\ (Complete(d) <=> Complete(e)) /\ (Agreed(d) <=> Agreed(e))
  BY DEF Reported, Complete, Agreed
<1>4. PassesReviewed(d) => PassesReviewed(e)
  BY <1>3 DEF PassesReviewed
<1>5. FindingsCited(d) => FindingsCited(e)
  BY DEF FindingsCited
<1>6. e.acceptance.digest = d.acceptance.digest /\ OneCorpus(d) => OneCorpus(e)
  BY DEF OneCorpus
<1> QED BY <1>1, <1>2, <1>4, <1>5, <1>6 DEF Reviewed

LEMMA RebindManifestInv ==
    ASSUME Inv, RebindManifest
    PROVE  Inv'
<1> DEFINE m == Described(disk, disk.manifest.audit, Required(disk))
<1>1. Write([disk EXCEPT !.manifest = m], "rebind-acceptance")
  BY DEF RebindManifest
<1>2. Files(disk) /\ IsPackage(disk) /\ AcceptedIsEarned
  BY DEF Inv, Files
<1>3. /\ m.audit = disk.manifest.audit /\ m.partitions = Content(disk)
      /\ m.adjustments = Required(disk)
  BY DEF Described
<1> HIDE DEF m
<1>4. /\ Counters' /\ Command' /\ Decisions' /\ disk' = [disk EXCEPT !.manifest = m]
      /\ proc'.pc = "rebind-acceptance"
  BY <1>1, Writes
<1>5. disk' = Package(disk.sources, disk.findings, disk.parts, disk.adjudications, m,
                      disk.acceptance, disk.regeneration, disk.evidence, disk.receipt)
  BY <1>2, <1>4, PackageFields, Zenon
<1>6. Files(disk')
  BY <1>2, <1>3, <1>4, FilesFields DEF Files
<1>7. Writing'
  BY <1>4, EndedWrites
<1>8. AcceptedIsEarned'
  <2>1. CASE Unaccepted(disk.acceptance)
    BY <1>5, <2>1, PendingIsUnearned DEF Package
  <2>2. CASE ~Unaccepted(disk.acceptance)
    <3>1. Earned(disk)
      BY <1>2, <2>2, AcceptedIsReviewed
    <3>2. /\ disk'.sources = disk.sources /\ disk'.findings = disk.findings
          /\ disk'.parts = disk.parts /\ disk'.adjudications = disk.adjudications
          /\ disk'.manifest = m /\ disk'.acceptance = disk.acceptance
          /\ disk'.regeneration = disk.regeneration /\ disk'.evidence = disk.evidence
          /\ disk'.receipt = disk.receipt
      BY <1>5 DEF Package
    <3>3. Content(disk') = Content(disk) /\ Reviewed(disk') /\ OneCorpus(disk')
      BY <3>1, <3>2, SamePartitions DEF Earned
    <3>4. Required(disk) = disk.acceptance.adjustments
      BY <3>1 DEF Earned, Backed, Required
    <3>5. Backed(disk')
      BY <1>3, <3>1, <3>2, <3>3, <3>4 DEF Earned, Backed
    <3> QED BY <3>3, <3>5 DEF AcceptedIsEarned
  <2> QED BY <2>1, <2>2
<1> QED BY <1>4, <1>6, <1>7, <1>8 DEF Inv

\* The acceptance, bound to another manifest.
LEMMA AcceptanceWith ==
    ASSUME NEW a, IsAcceptance(a), NEW m, NEW x
    PROVE  [a EXCEPT !.manifest = m, !.adjustments = x] =
               [state |-> a.state, manifest |-> m, digest |-> a.digest,
                receipt |-> a.receipt, regeneration |-> a.regeneration, adjustments |-> x]
<1> DEFINE b == [a EXCEPT !.manifest = m]
<1>1. b = [state |-> a.state, manifest |-> m, digest |-> a.digest, receipt |-> a.receipt,
           regeneration |-> a.regeneration, adjustments |-> a.adjustments]
  BY DEF IsAcceptance
<1> HIDE DEF b
<1>2. [b EXCEPT !.adjustments = x] =
               [state |-> a.state, manifest |-> m, digest |-> a.digest,
                receipt |-> a.receipt, regeneration |-> a.regeneration, adjustments |-> x]
  BY <1>1
<1> QED BY <1>2 DEF b

LEMMA RebindAcceptanceInv ==
    ASSUME Inv, RebindAcceptance
    PROVE  Inv'
<1> DEFINE a == [state |-> disk.acceptance.state, manifest |-> disk.manifest,
                 digest |-> disk.acceptance.digest, receipt |-> disk.acceptance.receipt,
                 regeneration |-> disk.acceptance.regeneration,
                 adjustments |-> disk.manifest.adjustments]
<1>1. Files(disk) /\ IsPackage(disk) /\ AcceptedIsEarned /\ IsAcceptance(disk.acceptance)
  BY DEF Inv, Files, Unaccepted, Accepted
<1>2. [disk.acceptance EXCEPT !.manifest = disk.manifest,
                              !.adjustments = disk.manifest.adjustments] = a
  BY <1>1, AcceptanceWith, Zenon
<1>3. Write([disk EXCEPT !.acceptance = a], "done")
  <2>1. [disk EXCEPT !.acceptance.manifest = disk.manifest,
                     !.acceptance.adjustments = disk.manifest.adjustments]
          = [disk EXCEPT !.acceptance = [disk.acceptance EXCEPT
                !.manifest = disk.manifest, !.adjustments = disk.manifest.adjustments]]
    BY <1>1 DEF IsPackage, Package
  <2> QED BY <1>2, <2>1 DEF RebindAcceptance
<1>4. Unaccepted(disk.acceptance) => Unaccepted(a)
  BY DEF Unaccepted, IsAcceptance
<1>5. Accepted(disk.acceptance) => Accepted(a)
  BY DEF Accepted, IsAcceptance
<1>6. /\ a.state = disk.acceptance.state /\ a.manifest = disk.manifest
      /\ a.digest = disk.acceptance.digest /\ a.receipt = disk.acceptance.receipt
      /\ a.regeneration = disk.acceptance.regeneration
      /\ a.adjustments = disk.manifest.adjustments
  OBVIOUS
<1> HIDE DEF a
<1>7. /\ Counters' /\ Command' /\ Decisions' /\ disk' = [disk EXCEPT !.acceptance = a]
      /\ proc'.pc = "idle"
  BY <1>3, Writes
<1>8. disk' = Package(disk.sources, disk.findings, disk.parts, disk.adjudications,
                      disk.manifest, a, disk.regeneration, disk.evidence, disk.receipt)
  BY <1>1, <1>7, PackageFields, Zenon
<1>9. Files(disk')
  BY <1>1, <1>4, <1>5, <1>7, FilesFields DEF Files
<1>10. Writing'
  BY <1>7, EndedWrites
<1>11. AcceptedIsEarned'
  <2>1. CASE Unaccepted(disk.acceptance)
    BY <1>4, <1>8, <2>1, PendingIsUnearned DEF Package
  <2>2. CASE ~Unaccepted(disk.acceptance)
    <3>1. Earned(disk)
      BY <1>1, <2>2, AcceptedIsReviewed
    <3>2. /\ disk'.sources = disk.sources /\ disk'.findings = disk.findings
          /\ disk'.parts = disk.parts /\ disk'.adjudications = disk.adjudications
          /\ disk'.manifest = disk.manifest /\ disk'.acceptance = a
          /\ disk'.regeneration = disk.regeneration /\ disk'.evidence = disk.evidence
          /\ disk'.receipt = disk.receipt
      BY <1>8 DEF Package
    <3>3. Content(disk') = Content(disk) /\ Reviewed(disk') /\ OneCorpus(disk')
      BY <1>6, <3>1, <3>2, SamePartitions DEF Earned
    <3>4. Backed(disk')
      BY <1>6, <3>1, <3>2, <3>3 DEF Earned, Backed
    <3> QED BY <3>3, <3>4 DEF AcceptedIsEarned
  <2> QED BY <2>1, <2>2
<1> QED BY <1>7, <1>9, <1>10, <1>11 DEF Inv

LEMMA PendingIsUnaccepted ==
    ASSUME NEW a
    PROVE  Unaccepted(Pending(a))
BY DEF Unaccepted, Pending, IsAcceptance

LEMMA BeginInv ==
    ASSUME Inv, Begin
    PROVE  Inv'
<1> DEFINE a  == IF disk.acceptance.state = "accepted" THEN Pending(disk.acceptance)
                                                       ELSE disk.acceptance
           pc == IF proc.cmd = "close" THEN "bind" ELSE "regenerate-one"
<1>1. Write([disk EXCEPT !.acceptance = a], pc)
  BY DEF Begin
<1>2. Files(disk) /\ IsPackage(disk)
  BY DEF Inv, Files
<1>3. Unaccepted(a)
  BY <1>2, PendingIsUnaccepted DEF Files, Accepted
<1>4. pc \in {"bind", "regenerate-one"} /\ (pc = "regenerate-one" => proc.cmd # "close")
  OBVIOUS
<1> HIDE DEF a, pc
<1>5. /\ Counters' /\ Command' /\ Decisions' /\ disk' = [disk EXCEPT !.acceptance = a]
      /\ proc'.pc = pc /\ proc'.cmd = proc.cmd
  BY <1>1, <1>4, Writes
<1>6. disk' = Package(disk.sources, disk.findings, disk.parts, disk.adjudications,
                      disk.manifest, a, disk.regeneration, disk.evidence, disk.receipt)
  BY <1>2, <1>5, PackageFields, Zenon
<1>7. Files(disk')
  BY <1>2, <1>3, <1>5, FilesFields
<1>8. Unaccepted(disk'.acceptance)
  BY <1>3, <1>6 DEF Package
<1>9. Writing'
  BY <1>4, <1>5, <1>8
     DEF Writing, Importing, Reconciling, Publishing, Binding, Proving, At, BindSteps,
         ProofSteps, AcceptSteps, PendingSteps, BoundSteps, Published1
<1>10. AcceptedIsEarned'
  BY <1>8, PendingIsUnearned
<1> QED BY <1>5, <1>7, <1>9, <1>10 DEF Inv

LEMMA MergedIs ==
    ASSUME NEW d, NEW corpus \in Corpora
    PROVE  /\ IsParts(Merged(d, corpus))
           /\ \A p \in Parts : Merged(d, corpus)[p] # None =>
                  Merged(d, corpus)[p] = Row(p, corpus[p], TRUE)
<1>1. \A p \in Parts : Baseline[p] \in Words \cup {None} /\ corpus[p] \in Words \cup {None}
  BY CorpusAssumption
<1>2. \A p \in Parts : /\ Row(p, corpus[p], TRUE) \in Rows
                       /\ Row(p, corpus[p], TRUE).baseline = Baseline[p]
  BY <1>1 DEF Row, Rows
<1> HIDE DEF Row
<1>3. \A p \in Parts : Merged(d, corpus)[p] \in {None, Row(p, corpus[p], TRUE)}
  BY DEF Merged
<1>4. Merged(d, corpus) \in [Parts -> {None} \cup Rows]
  BY <1>2 DEF Merged
<1> QED BY <1>2, <1>3, <1>4 DEF IsParts

\* What bind makes of the adjudications: a unit that the corpus no longer has
\* is retired, by the review or by the adjustments.
LEMMA TerminalIs ==
    ASSUME NEW d, Files(d), NEW corpus \in Corpora, Decisions, BindAllowed(d, corpus),
           NEW t \in Targets
    PROVE  LET rows == Merged(d, corpus)
               x    == TerminalAdjudication(d, rows, t)
           IN  /\ x = None \/ IsAdjudication(x)
               /\ t \in Parts /\ rows[t] # None /\ rows[t].final = None => x.action = "retire"
<1> DEFINE rows == Merged(d, corpus)
           x    == TerminalAdjudication(d, rows, t)
<1>1. x = None \/ IsAdjudication(x)
  <2>1. d.adjudications[t] = None \/ IsAdjudication(d.adjudications[t])
    BY DEF Files, IsAdjudications
  <2> HIDE DEF rows
  <2>2. \A action, findings, by :
            IsAdjudication([state |-> "complete", action |-> action, findings |-> findings,
                            by |-> by])
    BY DEF IsAdjudication
  <2> QED BY <2>1, <2>2, Zenon DEF TerminalAdjudication
<1>2. ASSUME t \in Parts, rows[t] # None, rows[t].final = None
      PROVE  x.action = "retire"
  <2>1. /\ rows[t].baseline = Baseline[t] /\ corpus[t] = None /\ Baseline[t] # None
        /\ Final(rows[t]) = None
    <3>1. rows[t] = Row(t, corpus[t], TRUE)
      BY <1>2, MergedIs
    <3>2. rows[t].baseline = Baseline[t] /\ rows[t].final = corpus[t]
      BY <3>1 DEF Row
    <3>3. ~(Baseline[t] = None /\ corpus[t] = None)
      BY <1>2 DEF Merged
    <3> QED BY <1>2, <3>2, <3>3 DEF Final
  <2>2. t # "source"
    BY <1>2 DEF Parts
  <2> HIDE DEF rows
  <2>3. CASE Decided(d, t)
    <3>1. x.action = artifact.decisions[t].action
      BY <1>2, <2>2, <2>3 DEF TerminalAdjudication
    <3>2. artifact # None /\ t \in DOMAIN artifact.decisions /\ Covered(d, rows)
      BY <2>3 DEF Decided, BindAllowed, rows
    <3>3. artifact.decisions[t].action = "retire"
      <4>1. CASE /\ Deltas(d, rows) = DOMAIN artifact.decisions
                 /\ artifact.decisions[t].action =
                        ExpectedAction(Final(d.parts[t]), Final(rows[t]))
        BY <2>1, <3>2, <4>1 DEF ExpectedAction, Deltas
      <4>2. CASE AlreadyApplied(d, rows, t)
        <5>1. artifact.decisions[t].expected = None
          BY <2>1, <4>2 DEF AlreadyApplied
        <5> QED BY <3>2, <5>1 DEF Decisions, ExpectedAction
      <4> QED BY <3>2, <4>1, <4>2 DEF Covered
    <3> QED BY <3>1, <3>3
  <2>4. CASE ~Decided(d, t)
    <3>1. Change(rows[t].baseline, rows[t].final) = "removed"
      BY <1>2, <2>1 DEF Change
    <3>2. \A proposed : StrongestAction(proposed, "removed") = "retire"
      BY DEF StrongestAction
    <3> QED BY <1>2, <2>2, <2>4, <3>1, <3>2 DEF TerminalAdjudication
  <2> QED BY <2>3, <2>4
<1> QED BY <1>1, <1>2

LEMMA BindCandidateIs ==
    ASSUME NEW d, Files(d), NEW corpus \in Corpora, Decisions, BindAllowed(d, corpus)
    PROVE  /\ StagedBind(BindCandidate(d, corpus))
           /\ BindCandidate(d, corpus).parts = Merged(d, corpus)
<1> DEFINE rows == Merged(d, corpus)
           x == [t \in Targets |-> TerminalAdjudication(d, rows, t)]
           adjustments == IF artifact # None THEN artifact ELSE Required(d)
           b == [d EXCEPT !.parts = rows]
           e == [b EXCEPT !.adjudications = x]
           m == Described(e, "pending", adjustments)
           a == [Pending(d.acceptance) EXCEPT !.manifest = m, !.adjustments = adjustments]
           f == [e EXCEPT !.manifest = m]
           c == [f EXCEPT !.acceptance = a]
<1>1. BindCandidate(d, corpus) = c
  BY DEF BindCandidate
<1>2. IsParts(rows)
  BY MergedIs
<1>3. \A t \in Targets : /\ x[t] = None \/ IsAdjudication(x[t])
                         /\ t \in Parts /\ rows[t] # None /\ rows[t].final = None
                                => x[t].action = "retire"
  BY TerminalIs
<1>4. x = [t \in Targets |-> x[t]]
  OBVIOUS
<1>5. m.audit = "pending"
  BY DEF Described
<1>6. Unaccepted(a)
  <2>1. Unaccepted(Pending(d.acceptance))
    BY PendingIsUnaccepted
  <2>2. a = [state |-> Pending(d.acceptance).state, manifest |-> m,
             digest |-> Pending(d.acceptance).digest,
             receipt |-> Pending(d.acceptance).receipt,
             regeneration |-> Pending(d.acceptance).regeneration,
             adjustments |-> adjustments]
    BY <2>1, AcceptanceWith, Zenon DEF Unaccepted
  <2> HIDE DEF a, m, adjustments
  <2> QED BY <2>1, <2>2 DEF Unaccepted, IsAcceptance
<1> HIDE DEF rows, x, m, a
<1>7. IsPackage(d)
  BY DEF Files
<1>8. b = Package(d.sources, d.findings, rows, d.adjudications, d.manifest, d.acceptance,
                  d.regeneration, d.evidence, d.receipt)
  BY <1>7, PackageFields, Zenon
<1> HIDE DEF b
<1>9. e = Package(d.sources, d.findings, rows, x, d.manifest, d.acceptance,
                  d.regeneration, d.evidence, d.receipt)
  BY <1>8 DEF Package
<1> HIDE DEF e
<1>10. f = Package(d.sources, d.findings, rows, x, m, d.acceptance,
                   d.regeneration, d.evidence, d.receipt)
  BY <1>9 DEF Package
<1> HIDE DEF f
<1>11. c = Package(d.sources, d.findings, rows, x, m, a,
                   d.regeneration, d.evidence, d.receipt)
  BY <1>10 DEF Package
<1> HIDE DEF c
<1>12. /\ c.parts = rows /\ c.adjudications = x /\ c.manifest = m /\ c.acceptance = a
  BY <1>11 DEF Package
<1>13. IsAdjudications(x)
  BY <1>3, <1>4 DEF IsAdjudications
<1>14. Retired(rows, x)
  BY <1>3 DEF Retired, Targets
<1>15. StagedBind(c)
  BY <1>2, <1>5, <1>6, <1>12, <1>13, <1>14 DEF StagedBind
<1> QED BY <1>1, <1>12, <1>15 DEF rows

\* Staging changes the command only.
LEMMA Stages ==
    ASSUME Inv, NEW d, NEW pc, Stage(d, pc)
    PROVE  /\ Counters' /\ Files(disk)' /\ Command' /\ Decisions' /\ AcceptedIsEarned'
           /\ UNCHANGED <<disk, artifact>>
           /\ proc'.pc = pc /\ proc'.cmd = proc.cmd /\ proc'.staged = d
           /\ Unaccepted(proc'.before)
<1> DEFINE before == Pending(disk.acceptance)
           p1 == [proc EXCEPT !.pc = pc]
           p2 == [p1 EXCEPT !.staged = d]
           p3 == [p2 EXCEPT !.before = before]
<1>1. proc' = p3 /\ UNCHANGED <<live, protocol, artifact, disk, commands, edits, faults>>
  BY DEF Stage
<1>2. Unaccepted(before)
  BY PendingIsUnaccepted
<1> HIDE DEF before
<1>3. p1 = [pc |-> pc, cmd |-> proc.cmd, input |-> proc.input, staged |-> proc.staged,
            before |-> proc.before, run |-> proc.run]
  BY DEF Inv, Command
<1> HIDE DEF p1
<1>4. p2 = [pc |-> pc, cmd |-> proc.cmd, input |-> proc.input, staged |-> d,
            before |-> proc.before, run |-> proc.run]
  BY <1>3
<1> HIDE DEF p2
<1>5. p3 = [pc |-> pc, cmd |-> proc.cmd, input |-> proc.input, staged |-> d,
            before |-> before, run |-> proc.run]
  BY <1>4
<1> HIDE DEF p3
<1>6. Command' /\ proc'.pc = pc /\ proc'.cmd = proc.cmd /\ proc'.staged = d
      /\ proc'.before = before
  BY <1>1, <1>5 DEF Command
<1>7. Counters' /\ Files(disk)' /\ Decisions' /\ AcceptedIsEarned'
  BY <1>1 DEF Inv, Counters, Decisions, AcceptedIsEarned, ExpectedAction
<1> QED BY <1>1, <1>2, <1>6, <1>7

LEMMA StageBindInv ==
    ASSUME Inv, StageBind
    PROVE  Inv'
<1> DEFINE c == BindCandidate(disk, live)
<1>1. Stage(c, "bind-transition") /\ BindAllowed(disk, live)
  BY DEF StageBind
<1>2. StagedBind(c)
  BY <1>1, BindCandidateIs DEF Inv, Counters
<1> HIDE DEF c
<1>3. /\ Counters' /\ Files(disk)' /\ Command' /\ Decisions' /\ AcceptedIsEarned'
      /\ proc'.pc = "bind-transition" /\ proc'.staged = c /\ Unaccepted(proc'.before)
  BY <1>1, Stages
<1>4. Writing'
  BY <1>2, <1>3
     DEF Writing, Importing, Reconciling, Publishing, Binding, Proving, At, BindSteps,
         ProofSteps, AcceptSteps, PendingSteps, BoundSteps, Published1
<1> QED BY <1>3, <1>4 DEF Inv

LEMMA PublishBindSteps ==
    ASSUME PublishBind
    PROVE  \/ /\ At("bind-transition")
              /\ Write([disk EXCEPT !.acceptance = proc.before], "bind-records")
           \/ /\ At("bind-records")
              /\ Write([disk EXCEPT !.parts["records"] = proc.staged.parts["records"]],
                       "bind-graphs")
           \/ /\ At("bind-graphs")
              /\ Write([disk EXCEPT !.parts["graphs"] = proc.staged.parts["graphs"]],
                       "bind-adjudications")
           \/ /\ At("bind-adjudications")
              /\ Write([disk EXCEPT !.adjudications = proc.staged.adjudications],
                       "bind-manifest")
           \/ /\ At("bind-manifest")
              /\ Write([disk EXCEPT !.manifest = proc.staged.manifest], "bind-acceptance")
           \/ /\ At("bind-acceptance")
              /\ Write([disk EXCEPT !.acceptance = proc.staged.acceptance], "bind-verify")
<1>1. PICK i \in 1..6 : At(BindOrder[i]) /\ Write(Published(proc.pc), BindOrder[i + 1])
  BY DEF PublishBind
<1>2. /\ BindOrder[1] = "bind-transition" /\ BindOrder[2] = "bind-records"
      /\ BindOrder[3] = "bind-graphs" /\ BindOrder[4] = "bind-adjudications"
      /\ BindOrder[5] = "bind-manifest" /\ BindOrder[6] = "bind-acceptance"
      /\ BindOrder[7] = "bind-verify"
  BY DEF BindOrder
<1>3. /\ At("bind-transition") => Published(proc.pc) = [disk EXCEPT !.acceptance = proc.before]
      /\ At("bind-records") => Published(proc.pc) =
            [disk EXCEPT !.parts["records"] = proc.staged.parts["records"]]
      /\ At("bind-graphs") => Published(proc.pc) =
            [disk EXCEPT !.parts["graphs"] = proc.staged.parts["graphs"]]
      /\ At("bind-adjudications") => Published(proc.pc) =
            [disk EXCEPT !.adjudications = proc.staged.adjudications]
      /\ At("bind-manifest") => Published(proc.pc) =
            [disk EXCEPT !.manifest = proc.staged.manifest]
      /\ At("bind-acceptance") => Published(proc.pc) =
            [disk EXCEPT !.acceptance = proc.staged.acceptance]
  BY DEF Published, At
<1>4. i = 1 \/ i = 2 \/ i = 3 \/ i = 4 \/ i = 5 \/ i = 6
  OBVIOUS
<1> QED BY <1>1, <1>2, <1>3, <1>4

\* A part that is published is the part that was staged.
LEMMA PartWith ==
    ASSUME NEW parts, IsParts(parts), NEW staged, IsParts(staged), NEW p \in Parts
    PROVE  /\ IsParts([parts EXCEPT ![p] = staged[p]])
           /\ [parts EXCEPT ![p] = staged[p]][p] = staged[p]
           /\ \A q \in Parts \ {p} : [parts EXCEPT ![p] = staged[p]][q] = parts[q]
BY DEF IsParts

\* One write of bind, once the package is pending.
LEMMA PublishPartInv ==
    ASSUME Inv, NEW p \in Parts, NEW pc,
           \/ p = "records" /\ At("bind-records") /\ pc = "bind-graphs"
           \/ p = "graphs" /\ At("bind-graphs") /\ pc = "bind-adjudications",
           Write([disk EXCEPT !.parts[p] = proc.staged.parts[p]], pc)
    PROVE  Inv'
<1> DEFINE parts == [disk.parts EXCEPT ![p] = proc.staged.parts[p]]
<1>1. Write([disk EXCEPT !.parts = parts], pc) /\ pc # "done"
  OBVIOUS
<1>2. /\ Files(disk) /\ IsPackage(disk) /\ IsParts(disk.parts)
      /\ StagedBind(proc.staged) /\ Unaccepted(disk.acceptance) /\ Unaccepted(proc.before)
      /\ p = "graphs" => disk.parts["records"] = proc.staged.parts["records"]
  BY DEF Inv, Files, Writing, Publishing, Binding, At, PendingSteps, BindSteps, Published1
<1>3. /\ IsParts(parts) /\ parts[p] = proc.staged.parts[p]
      /\ \A q \in Parts \ {p} : parts[q] = disk.parts[q]
  BY <1>2, PartWith DEF StagedBind
<1> HIDE DEF parts
<1>4. /\ Counters' /\ Command' /\ Decisions' /\ disk' = [disk EXCEPT !.parts = parts]
      /\ proc'.pc = pc /\ proc'.staged = proc.staged /\ proc'.before = proc.before
  BY <1>1, Writes
<1>5. disk' = Package(disk.sources, disk.findings, parts, disk.adjudications, disk.manifest,
                      disk.acceptance, disk.regeneration, disk.evidence, disk.receipt)
  BY <1>2, <1>4, PackageFields, Zenon
<1>6. Files(disk')
  BY <1>2, <1>3, <1>4, FilesFields
<1>7. disk'.parts = parts /\ Unaccepted(disk'.acceptance)
  BY <1>2, <1>5 DEF Package
<1>8. parts["records"] = proc.staged.parts["records"]
      /\ (p = "graphs" => parts["graphs"] = proc.staged.parts["graphs"])
  BY <1>2, <1>3 DEF Parts
<1>9. Writing'
  BY <1>2, <1>4, <1>7, <1>8
     DEF Writing, Importing, Reconciling, Publishing, Binding, Proving, At, BindSteps,
         ProofSteps, AcceptSteps, PendingSteps, BoundSteps, Published1
<1>10. AcceptedIsEarned'
  BY <1>7, PendingIsUnearned
<1> QED BY <1>4, <1>6, <1>9, <1>10 DEF Inv

LEMMA PublishBindInv ==
    ASSUME Inv, PublishBind
    PROVE  Inv'
<1>1. ASSUME At("bind-transition"),
             Write([disk EXCEPT !.acceptance = proc.before], "bind-records")
      PROVE  Inv'
  <2>1. /\ Files(disk) /\ IsPackage(disk) /\ StagedBind(proc.staged) /\ Unaccepted(proc.before)
    BY <1>1 DEF Inv, Files, Writing, Publishing, At, BindSteps
  <2>2. /\ Counters' /\ Command' /\ Decisions'
        /\ disk' = [disk EXCEPT !.acceptance = proc.before]
        /\ proc'.pc = "bind-records" /\ proc'.staged = proc.staged
        /\ proc'.before = proc.before
    BY <1>1, Writes
  <2>3. disk' = Package(disk.sources, disk.findings, disk.parts, disk.adjudications,
                        disk.manifest, proc.before, disk.regeneration, disk.evidence,
                        disk.receipt)
    BY <2>1, <2>2, PackageFields, Zenon
  <2>4. Files(disk')
    BY <2>1, <2>2, FilesFields
  <2>5. Unaccepted(disk'.acceptance)
    BY <2>1, <2>3 DEF Package
  <2>6. Writing'
    BY <2>1, <2>2, <2>5
       DEF Writing, Importing, Reconciling, Publishing, Binding, Proving, At, BindSteps,
           ProofSteps, AcceptSteps, PendingSteps, BoundSteps, Published1
  <2>7. AcceptedIsEarned'
    BY <2>5, PendingIsUnearned
  <2> QED BY <2>2, <2>4, <2>6, <2>7 DEF Inv
<1>2. ASSUME At("bind-records"),
             Write([disk EXCEPT !.parts["records"] = proc.staged.parts["records"]],
                   "bind-graphs")
      PROVE  Inv'
  BY <1>2, PublishPartInv DEF Parts
<1>3. ASSUME At("bind-graphs"),
             Write([disk EXCEPT !.parts["graphs"] = proc.staged.parts["graphs"]],
                   "bind-adjudications")
      PROVE  Inv'
  BY <1>3, PublishPartInv DEF Parts
<1>4. ASSUME At("bind-adjudications"),
             Write([disk EXCEPT !.adjudications = proc.staged.adjudications], "bind-manifest")
      PROVE  Inv'
  <2> DEFINE x == proc.staged.adjudications
  <2>1. /\ Files(disk) /\ IsPackage(disk) /\ StagedBind(proc.staged) /\ Unaccepted(proc.before)
        /\ Unaccepted(disk.acceptance)
        /\ disk.parts["records"] = proc.staged.parts["records"]
        /\ disk.parts["graphs"] = proc.staged.parts["graphs"]
    BY <1>4 DEF Inv, Files, Writing, Publishing, Binding, At, BindSteps, PendingSteps,
                Published1
  <2>2. IsAdjudications(x) /\ Retired(disk.parts, x)
    BY <2>1 DEF StagedBind, Retired, Parts
  <2> HIDE DEF x
  <2>3. /\ Counters' /\ Command' /\ Decisions' /\ disk' = [disk EXCEPT !.adjudications = x]
        /\ proc'.pc = "bind-manifest" /\ proc'.staged = proc.staged
        /\ proc'.before = proc.before
    BY <1>4, Writes DEF x
  <2>4. disk' = Package(disk.sources, disk.findings, disk.parts, x, disk.manifest,
                        disk.acceptance, disk.regeneration, disk.evidence, disk.receipt)
    BY <2>1, <2>3, PackageFields, Zenon
  <2>5. Files(disk')
    BY <2>1, <2>2, <2>3, FilesFields
  <2>6. disk'.parts = disk.parts /\ disk'.adjudications = x /\ Unaccepted(disk'.acceptance)
    BY <2>1, <2>4 DEF Package
  <2>7. Writing'
    BY <2>1, <2>2, <2>3, <2>6
       DEF Writing, Importing, Reconciling, Publishing, Binding, Proving, At, BindSteps,
           ProofSteps, AcceptSteps, PendingSteps, BoundSteps, Published1
  <2>8. AcceptedIsEarned'
    BY <2>6, PendingIsUnearned
  <2> QED BY <2>3, <2>5, <2>7, <2>8 DEF Inv
<1>5. ASSUME At("bind-manifest"),
             Write([disk EXCEPT !.manifest = proc.staged.manifest], "bind-acceptance")
      PROVE  Inv'
  <2> DEFINE m == proc.staged.manifest
  <2>1. /\ Files(disk) /\ IsPackage(disk) /\ StagedBind(proc.staged) /\ Unaccepted(proc.before)
        /\ Unaccepted(disk.acceptance) /\ Retired(disk.parts, disk.adjudications)
    BY <1>5 DEF Inv, Files, Writing, Publishing, Binding, At, BindSteps, PendingSteps,
                BoundSteps
  <2>2. m.audit \in {"pending", "accepted"}
    BY <2>1 DEF StagedBind
  <2> HIDE DEF m
  <2>3. /\ Counters' /\ Command' /\ Decisions' /\ disk' = [disk EXCEPT !.manifest = m]
        /\ proc'.pc = "bind-acceptance" /\ proc'.staged = proc.staged
        /\ proc'.before = proc.before
    BY <1>5, Writes DEF m
  <2>4. disk' = Package(disk.sources, disk.findings, disk.parts, disk.adjudications, m,
                        disk.acceptance, disk.regeneration, disk.evidence, disk.receipt)
    BY <2>1, <2>3, PackageFields, Zenon
  <2>5. Files(disk')
    BY <2>1, <2>2, <2>3, FilesFields
  <2>6. /\ disk'.parts = disk.parts /\ disk'.adjudications = disk.adjudications
        /\ Unaccepted(disk'.acceptance)
    BY <2>1, <2>4 DEF Package
  <2>7. Writing'
    BY <2>1, <2>3, <2>6
       DEF Writing, Importing, Reconciling, Publishing, Binding, Proving, At, BindSteps,
           ProofSteps, AcceptSteps, PendingSteps, BoundSteps, Published1
  <2>8. AcceptedIsEarned'
    BY <2>6, PendingIsUnearned
  <2> QED BY <2>3, <2>5, <2>7, <2>8 DEF Inv
<1>6. ASSUME At("bind-acceptance"),
             Write([disk EXCEPT !.acceptance = proc.staged.acceptance], "bind-verify")
      PROVE  Inv'
  <2> DEFINE a == proc.staged.acceptance
  <2>1. /\ Files(disk) /\ IsPackage(disk) /\ StagedBind(proc.staged) /\ Unaccepted(proc.before)
        /\ Retired(disk.parts, disk.adjudications)
    BY <1>6 DEF Inv, Files, Writing, Publishing, Binding, At, BindSteps, PendingSteps,
                BoundSteps
  <2>2. Unaccepted(a)
    BY <2>1 DEF StagedBind
  <2> HIDE DEF a
  <2>3. /\ Counters' /\ Command' /\ Decisions' /\ disk' = [disk EXCEPT !.acceptance = a]
        /\ proc'.pc = "bind-verify" /\ proc'.before = proc.before
    BY <1>6, Writes DEF a
  <2>4. disk' = Package(disk.sources, disk.findings, disk.parts, disk.adjudications,
                        disk.manifest, a, disk.regeneration, disk.evidence, disk.receipt)
    BY <2>1, <2>3, PackageFields, Zenon
  <2>5. Files(disk')
    BY <2>1, <2>2, <2>3, FilesFields
  <2>6. /\ disk'.parts = disk.parts /\ disk'.adjudications = disk.adjudications
        /\ Unaccepted(disk'.acceptance)
    BY <2>2, <2>4 DEF Package
  <2>7. Writing'
    BY <2>1, <2>3, <2>6
       DEF Writing, Importing, Reconciling, Publishing, Binding, Proving, At, BindSteps,
           ProofSteps, AcceptSteps, PendingSteps, BoundSteps, Published1
  <2>8. AcceptedIsEarned'
    BY <2>6, PendingIsUnearned
  <2> QED BY <2>3, <2>5, <2>7, <2>8 DEF Inv
<1> QED BY <1>1, <1>2, <1>3, <1>4, <1>5, <1>6, PublishBindSteps

\* A write between the binding and the acceptance changes what is derived from
\* the partitions, never the partitions or the acceptance.
LEMMA DerivedInv ==
    ASSUME Inv, NEW d, Files(d), NEW pc \in ProofSteps \cup {"receipt", "accept", "done"},
           proc.pc \in ProofSteps \cup {"bind-verify", "receipt"},
           d.parts = disk.parts, d.adjudications = disk.adjudications,
           d.acceptance = disk.acceptance,
           pc \in {"regenerate-two", "prove-two", "regeneration", "receipt", "accept"}
                => proc.run \in Corpora,
           pc \in {"receipt", "accept"} \/ (pc \in ProofSteps /\ proc.cmd = "close")
                => proc.pc \in {"bind-verify", "receipt"} \/ proc.cmd = "close",
           Write(d, pc)
    PROVE  Inv'
<1>1. /\ Counters' /\ Command' /\ Decisions' /\ disk' = d
      /\ proc'.pc = IF pc = "done" THEN "idle" ELSE pc
      /\ pc # "done" => proc'.cmd = proc.cmd /\ proc'.run = proc.run
  BY Writes
<1>2. Unaccepted(disk.acceptance)
  BY DEF Inv, Writing, Publishing, PendingSteps
<1>3. pc \in {"receipt", "accept"} \/ (pc \in ProofSteps /\ proc.cmd = "close")
         => Retired(disk.parts, disk.adjudications)
  BY DEF Inv, Writing, Binding, BoundSteps
<1>4. Writing'
  BY <1>1, <1>2, <1>3
     DEF Writing, Importing, Reconciling, Publishing, Binding, Proving, At, BindSteps,
         ProofSteps, AcceptSteps, PendingSteps, BoundSteps, Published1
<1>5. AcceptedIsEarned'
  BY <1>1, <1>2, PendingIsUnearned
<1> QED BY <1>1, <1>4, <1>5 DEF Inv

LEMMA BindVerifyInv ==
    ASSUME Inv, BindVerify
    PROVE  Inv'
<1> DEFINE pc == IF proc.cmd = "close" THEN "regenerate-one" ELSE "done"
<1>1. At("bind-verify") /\ Write(disk, pc) /\ Files(disk)
  BY DEF BindVerify, Inv
<1>2. pc \in {"regenerate-one", "done"}
  OBVIOUS
<1> HIDE DEF pc
<1> QED BY <1>1, <1>2, DerivedInv DEF At, ProofSteps

LEMMA RegenerateInv ==
    ASSUME Inv, Regenerate
    PROVE  Inv'
<1> DEFINE e == Evidence(live)
           d == [disk EXCEPT !.evidence = e]
<1>1. \/ At("regenerate-one") /\ Write(d, "prove-one")
      \/ At("regenerate-two") /\ Write(d, "prove-two")
  BY DEF Regenerate
<1>2. e \in {None} \cup SUBSET Parts
  BY DEF Evidence
<1> HIDE DEF e
<1>3. Files(disk) /\ IsPackage(disk)
  BY DEF Inv, Files
<1>4. d = Package(disk.sources, disk.findings, disk.parts, disk.adjudications,
                  disk.manifest, disk.acceptance, disk.regeneration, e, disk.receipt)
  BY <1>3, PackageFields, Zenon
<1>5. Files(d)
  BY <1>2, <1>3, FilesFields
<1> HIDE DEF d
<1>6. /\ d.parts = disk.parts /\ d.adjudications = disk.adjudications
      /\ d.acceptance = disk.acceptance
  BY <1>4 DEF Package
<1>7. At("regenerate-two") => proc.run \in Corpora
  BY DEF Inv, Writing, Proving, At
<1>8. CASE At("regenerate-one") /\ Write(d, "prove-one")
  BY <1>5, <1>6, <1>8, DerivedInv DEF At, ProofSteps
<1>9. CASE At("regenerate-two") /\ Write(d, "prove-two")
  BY <1>5, <1>6, <1>7, <1>9, DerivedInv DEF At, ProofSteps
<1> QED BY <1>1, <1>8, <1>9

LEMMA ProveRunInv ==
    ASSUME Inv, ProveRun
    PROVE  Inv'
<1> DEFINE pc == IF At("prove-one") THEN "regenerate-two" ELSE "regeneration"
           p1 == [proc EXCEPT !.run = live]
           p2 == [p1 EXCEPT !.pc = pc]
<1>1. /\ proc.pc \in {"prove-one", "prove-two"} /\ proc' = p2
      /\ UNCHANGED <<live, protocol, artifact, disk, commands, edits, faults>>
  <2>1. proc.pc \in {"prove-one", "prove-two"}
        /\ UNCHANGED <<live, protocol, artifact, disk, commands, edits, faults>>
    BY DEF ProveRun
  <2>2. p1.pc = proc.pc
    BY DEF Inv, Command
  <2>3. proc' = p2
    BY <2>2 DEF ProveRun, At
  <2> QED BY <2>1, <2>3
<1>2. pc \in {"regenerate-two", "regeneration"}
  OBVIOUS
<1> HIDE DEF pc
<1>3. p1 = [pc |-> proc.pc, cmd |-> proc.cmd, input |-> proc.input, staged |-> proc.staged,
            before |-> proc.before, run |-> live]
  BY DEF Inv, Command
<1> HIDE DEF p1
<1>4. p2 = [pc |-> pc, cmd |-> proc.cmd, input |-> proc.input, staged |-> proc.staged,
            before |-> proc.before, run |-> live]
  BY <1>3
<1> HIDE DEF p2
<1>5. Command' /\ proc'.pc = pc /\ proc'.cmd = proc.cmd /\ proc'.run = live
  BY <1>1, <1>4 DEF Command
<1>6. Counters' /\ Files(disk)' /\ Decisions' /\ AcceptedIsEarned' /\ live \in Corpora
  BY <1>1 DEF Inv, Counters, Decisions, AcceptedIsEarned, ExpectedAction
<1>7. /\ Unaccepted(disk.acceptance)
      /\ proc.cmd = "close" => Retired(disk.parts, disk.adjudications)
  BY <1>1 DEF Inv, Writing, Publishing, Binding, PendingSteps, ProofSteps
<1>8. Writing'
  BY <1>1, <1>2, <1>5, <1>6, <1>7
     DEF Writing, Importing, Reconciling, Publishing, Binding, Proving, At, BindSteps,
         ProofSteps, AcceptSteps, PendingSteps, BoundSteps, Published1
<1> QED BY <1>5, <1>6, <1>8 DEF Inv

LEMMA WriteRegenerationInv ==
    ASSUME Inv, WriteRegeneration
    PROVE  Inv'
<1> DEFINE pc == IF proc.cmd = "close" THEN "receipt" ELSE "done"
           d  == [disk EXCEPT !.regeneration = proc.run]
<1>1. At("regeneration") /\ Write(d, pc)
  BY DEF WriteRegeneration
<1>2. pc \in {"receipt", "done"} /\ (pc = "receipt" => proc.cmd = "close")
  OBVIOUS
<1> HIDE DEF pc
<1>3. Files(disk) /\ IsPackage(disk) /\ proc.run \in Corpora
  BY <1>1 DEF Inv, Files, Writing, Proving, At
<1>4. d = Package(disk.sources, disk.findings, disk.parts, disk.adjudications,
                  disk.manifest, disk.acceptance, proc.run, disk.evidence, disk.receipt)
  BY <1>3, PackageFields, Zenon
<1>5. Files(d)
  BY <1>3, FilesFields
<1> HIDE DEF d
<1>6. /\ d.parts = disk.parts /\ d.adjudications = disk.adjudications
      /\ d.acceptance = disk.acceptance
  BY <1>4 DEF Package
<1> QED BY <1>1, <1>2, <1>3, <1>5, <1>6, DerivedInv DEF At, ProofSteps

LEMMA WriteReceiptInv ==
    ASSUME Inv, WriteReceipt
    PROVE  Inv'
<1> DEFINE r == [regeneration |-> disk.regeneration, evidence |-> disk.evidence,
                 adjustments |-> artifact]
           d == [disk EXCEPT !.receipt = r]
<1>1. At("receipt") /\ Write(d, "accept")
  BY DEF WriteReceipt
<1> HIDE DEF r
<1>2. Files(disk) /\ IsPackage(disk) /\ proc.run \in Corpora
  BY <1>1 DEF Inv, Files, Writing, Proving, At
<1>3. d = Package(disk.sources, disk.findings, disk.parts, disk.adjudications,
                  disk.manifest, disk.acceptance, disk.regeneration, disk.evidence, r)
  BY <1>2, PackageFields, Zenon
<1>4. Files(d)
  BY <1>2, FilesFields
<1> HIDE DEF d
<1>5. /\ d.parts = disk.parts /\ d.adjudications = disk.adjudications
      /\ d.acceptance = disk.acceptance
  BY <1>3 DEF Package
<1> QED BY <1>1, <1>2, <1>4, <1>5, DerivedInv DEF At, ProofSteps

LEMMA AcceptCandidateIs ==
    ASSUME NEW d, IsPackage(d), NEW corpus \in Corpora, NEW regeneration
    PROVE  StagedAccept(AcceptCandidate(d, corpus, regeneration))
<1> DEFINE m == Described(d, "accepted", d.manifest.adjustments)
           a == [state |-> "accepted", manifest |-> m, digest |-> corpus,
                 receipt |-> d.receipt, regeneration |-> regeneration,
                 adjustments |-> d.acceptance.adjustments]
           b == [d EXCEPT !.manifest = m]
           c == [b EXCEPT !.acceptance = a]
<1>1. AcceptCandidate(d, corpus, regeneration) = c
  BY DEF AcceptCandidate
<1>2. m.audit = "accepted" /\ Accepted(a)
  BY DEF Described, Accepted, IsAcceptance
<1> HIDE DEF m, a
<1>3. b = Package(d.sources, d.findings, d.parts, d.adjudications, m, d.acceptance,
                  d.regeneration, d.evidence, d.receipt)
  BY PackageFields, Zenon
<1> HIDE DEF b
<1>4. c = Package(d.sources, d.findings, d.parts, d.adjudications, m, a,
                  d.regeneration, d.evidence, d.receipt)
  BY <1>3 DEF Package
<1> HIDE DEF c
<1>5. c.manifest = m /\ c.acceptance = a
  BY <1>4 DEF Package
<1> QED BY <1>1, <1>2, <1>5 DEF StagedAccept

LEMMA StageAcceptInv ==
    ASSUME Inv, StageAccept
    PROVE  Inv'
<1> DEFINE c == AcceptCandidate(disk, live, proc.run)
<1>1. At("accept") /\ Stage(c, "accept-transition")
  BY DEF StageAccept
<1>2. StagedAccept(c)
  BY AcceptCandidateIs DEF Inv, Counters, Files
<1> HIDE DEF c
<1>3. /\ Counters' /\ Files(disk)' /\ Command' /\ Decisions' /\ AcceptedIsEarned'
      /\ disk' = disk
      /\ proc'.pc = "accept-transition" /\ proc'.staged = c /\ Unaccepted(proc'.before)
  BY <1>1, Stages
<1>4. Unaccepted(disk.acceptance) /\ Retired(disk.parts, disk.adjudications)
  BY <1>1 DEF Inv, Writing, Publishing, Binding, At, PendingSteps, BoundSteps
<1>5. Writing'
  BY <1>2, <1>3, <1>4
     DEF Writing, Importing, Reconciling, Publishing, Binding, Proving, At, BindSteps,
         ProofSteps, AcceptSteps, PendingSteps, BoundSteps, Published1
<1> QED BY <1>3, <1>5 DEF Inv

LEMMA PublishAcceptSteps ==
    ASSUME PublishAccept
    PROVE  \/ /\ At("accept-transition")
              /\ Write([disk EXCEPT !.acceptance = proc.before], "accept-manifest")
           \/ /\ At("accept-manifest")
              /\ Write([disk EXCEPT !.manifest = proc.staged.manifest], "accept-verify")
           \/ /\ At("accept-verify")
              /\ CandidateVerified(disk, proc.staged.acceptance, live)
              /\ Write(disk, "accept-acceptance")
           \/ /\ At("accept-acceptance")
              /\ Write(ToAccept, "accept-published")
           \/ /\ At("accept-published")
              /\ Write(disk, "done")
<1>1. CASE \E i \in {1, 2} : At(AcceptOrder[i]) /\ Write(Published(proc.pc), AcceptOrder[i + 1])
  <2>1. PICK i \in {1, 2} : At(AcceptOrder[i]) /\ Write(Published(proc.pc), AcceptOrder[i + 1])
    BY <1>1
  <2>2. /\ AcceptOrder[1] = "accept-transition" /\ AcceptOrder[2] = "accept-manifest"
        /\ AcceptOrder[3] = "accept-verify"
    BY DEF AcceptOrder
  <2>3. /\ At("accept-transition") =>
              Published(proc.pc) = [disk EXCEPT !.acceptance = proc.before]
        /\ At("accept-manifest") =>
              Published(proc.pc) = [disk EXCEPT !.manifest = proc.staged.manifest]
    BY DEF Published, At
  <2> QED BY <2>1, <2>2, <2>3
<1>2. CASE At("accept-acceptance") /\ Write(Published("accept-acceptance"), "accept-published")
  <2>1. Published("accept-acceptance") = ToAccept
    BY DEF Published, ToAccept
  <2> QED BY <1>2, <2>1
<1> QED BY <1>1, <1>2 DEF PublishAccept

\* What the last verification has found is what an accepted package needs.
LEMMA VerifiedIsEarned ==
    ASSUME NEW d, Files(d), Retired(d.parts, d.adjudications), NEW a, Accepted(a),
           CandidateVerified(d, a, live)
    PROVE  Earned([d EXCEPT !.acceptance = a])
<1> DEFINE e == [d EXCEPT !.acceptance = a]
<1>1. e = Package(d.sources, d.findings, d.parts, d.adjudications, d.manifest, a,
                  d.regeneration, d.evidence, d.receipt)
  BY PackageFields, Zenon DEF Files
<1> HIDE DEF e
<1>2. /\ e.sources = d.sources /\ e.findings = d.findings /\ e.parts = d.parts
      /\ e.adjudications = d.adjudications /\ e.manifest = d.manifest /\ e.acceptance = a
      /\ e.regeneration = d.regeneration /\ e.evidence = d.evidence /\ e.receipt = d.receipt
  BY <1>1 DEF Package
<1>3. Reviewed(d)
  BY DEF CandidateVerified, Sound, Reviewed
<1>4. Content(e) = Content(d) /\ Reviewed(e)
  BY <1>2, <1>3, SamePartitions
<1>5. Backed(e)
  BY <1>2, <1>4 DEF CandidateVerified, Sound, EvidenceVerified, Backed
<1>6. OneCorpus(e)
  <2>1. \A p \in Parts : Final(d.parts[p]) = a.digest[p]
    BY DEF CandidateVerified, Sound, LiveFinal
  <2>2. IsParts(d.parts)
    BY DEF Files
  <2> QED BY <1>2, <2>1, <2>2 DEF OneCorpus, Retired, IsParts
<1> QED BY <1>4, <1>5, <1>6 DEF Earned, e

LEMMA PublishAcceptInv ==
    ASSUME Inv, PublishAccept
    PROVE  Inv'
<1>1. ASSUME At("accept-transition"),
             Write([disk EXCEPT !.acceptance = proc.before], "accept-manifest")
      PROVE  Inv'
  <2>1. /\ Files(disk) /\ IsPackage(disk) /\ StagedAccept(proc.staged)
        /\ Unaccepted(proc.before) /\ Retired(disk.parts, disk.adjudications)
    BY <1>1 DEF Inv, Files, Writing, Publishing, Binding, At, AcceptSteps, BoundSteps
  <2>2. /\ Counters' /\ Command' /\ Decisions'
        /\ disk' = [disk EXCEPT !.acceptance = proc.before]
        /\ proc'.pc = "accept-manifest" /\ proc'.staged = proc.staged
        /\ proc'.before = proc.before
    BY <1>1, Writes
  <2>3. disk' = Package(disk.sources, disk.findings, disk.parts, disk.adjudications,
                        disk.manifest, proc.before, disk.regeneration, disk.evidence,
                        disk.receipt)
    BY <2>1, <2>2, PackageFields, Zenon
  <2>4. Files(disk')
    BY <2>1, <2>2, FilesFields
  <2>5. /\ disk'.parts = disk.parts /\ disk'.adjudications = disk.adjudications
        /\ Unaccepted(disk'.acceptance)
    BY <2>1, <2>3 DEF Package
  <2>6. Writing'
    BY <2>1, <2>2, <2>5
       DEF Writing, Importing, Reconciling, Publishing, Binding, Proving, At, BindSteps,
           ProofSteps, AcceptSteps, PendingSteps, BoundSteps, Published1
  <2>7. AcceptedIsEarned'
    BY <2>5, PendingIsUnearned
  <2> QED BY <2>2, <2>4, <2>6, <2>7 DEF Inv
<1>2. ASSUME At("accept-manifest"),
             Write([disk EXCEPT !.manifest = proc.staged.manifest], "accept-verify")
      PROVE  Inv'
  <2> DEFINE m == proc.staged.manifest
  <2>1. /\ Files(disk) /\ IsPackage(disk) /\ StagedAccept(proc.staged)
        /\ Unaccepted(disk.acceptance)
        /\ Unaccepted(proc.before) /\ Retired(disk.parts, disk.adjudications)
    BY <1>2 DEF Inv, Files, Writing, Publishing, Binding, At, AcceptSteps, BoundSteps,
                PendingSteps
  <2>2. m.audit \in {"pending", "accepted"}
    BY <2>1 DEF StagedAccept
  <2> HIDE DEF m
  <2>3. /\ Counters' /\ Command' /\ Decisions' /\ disk' = [disk EXCEPT !.manifest = m]
        /\ proc'.pc = "accept-verify" /\ proc'.staged = proc.staged
        /\ proc'.before = proc.before
    BY <1>2, Writes DEF m
  <2>4. disk' = Package(disk.sources, disk.findings, disk.parts, disk.adjudications, m,
                        disk.acceptance, disk.regeneration, disk.evidence, disk.receipt)
    BY <2>1, <2>3, PackageFields, Zenon
  <2>5. Files(disk')
    BY <2>1, <2>2, <2>3, FilesFields
  <2>6. /\ disk'.parts = disk.parts /\ disk'.adjudications = disk.adjudications
        /\ Unaccepted(disk'.acceptance)
    BY <2>1, <2>4 DEF Package
  <2>7. Writing'
    BY <2>1, <2>3, <2>6
       DEF Writing, Importing, Reconciling, Publishing, Binding, Proving, At, BindSteps,
           ProofSteps, AcceptSteps, PendingSteps, BoundSteps, Published1
  <2>8. AcceptedIsEarned'
    BY <2>6, PendingIsUnearned
  <2> QED BY <2>3, <2>5, <2>7, <2>8 DEF Inv
<1>3. ASSUME At("accept-verify"), CandidateVerified(disk, proc.staged.acceptance, live),
             Write(disk, "accept-acceptance")
      PROVE  Inv'
  <2>1. /\ Files(disk) /\ StagedAccept(proc.staged) /\ Unaccepted(disk.acceptance)
        /\ Unaccepted(proc.before) /\ Retired(disk.parts, disk.adjudications)
        /\ AcceptedIsEarned
    BY <1>3 DEF Inv, Writing, Publishing, Binding, At, AcceptSteps, BoundSteps, PendingSteps
  <2>2. Earned(ToAccept)
    BY <1>3, <2>1, VerifiedIsEarned DEF StagedAccept, ToAccept
  <2>3. /\ Counters' /\ Command' /\ Decisions' /\ disk' = disk
        /\ proc'.pc = "accept-acceptance" /\ proc'.staged = proc.staged
        /\ proc'.before = proc.before
    BY <1>3, Writes
  <2>4. Earned(ToAccept)'
    BY <2>2, <2>3 DEF ToAccept
  <2>5. Writing'
    BY <2>1, <2>3, <2>4
       DEF Writing, Importing, Reconciling, Publishing, Binding, Proving, At, BindSteps,
           ProofSteps, AcceptSteps, PendingSteps, BoundSteps, Published1
  <2>6. Files(disk') /\ AcceptedIsEarned'
    BY <2>1, <2>3, SameIsEarned
  <2> QED BY <2>3, <2>5, <2>6 DEF Inv
<1>4. ASSUME At("accept-acceptance"), Write(ToAccept, "accept-published")
      PROVE  Inv'
  <2>1. /\ Files(disk) /\ StagedAccept(proc.staged) /\ Unaccepted(proc.before)
        /\ Earned(ToAccept)
    BY <1>4 DEF Inv, Writing, Publishing, Proving, At, AcceptSteps
  <2>2. /\ Counters' /\ Command' /\ Decisions' /\ disk' = ToAccept
        /\ proc'.pc = "accept-published" /\ proc'.before = proc.before
    BY <1>4, Writes
  <2>3. Files(disk')
    BY <2>1, <2>2, FilesFields DEF ToAccept, StagedAccept
  <2>4. Writing'
    BY <2>1, <2>2
       DEF Writing, Importing, Reconciling, Publishing, Binding, Proving, At, BindSteps,
           ProofSteps, AcceptSteps, PendingSteps, BoundSteps, Published1
  <2>5. AcceptedIsEarned'
    BY <2>1, <2>2 DEF AcceptedIsEarned, Earned
  <2> QED BY <2>2, <2>3, <2>4, <2>5 DEF Inv
<1>5. ASSUME At("accept-published"), Write(disk, "done")
      PROVE  Inv'
  <2>1. Counters' /\ Command' /\ Decisions' /\ disk' = disk /\ proc'.pc = "idle"
    BY <1>5, Writes
  <2>2. Files(disk') /\ AcceptedIsEarned'
    BY <2>1, SameIsEarned DEF Inv
  <2>3. Writing'
    BY <2>1, EndedWrites
  <2> QED BY <2>1, <2>2, <2>3 DEF Inv
<1> QED BY <1>1, <1>2, <1>3, <1>4, <1>5, PublishAcceptSteps

LEMMA TransitionSteps ==
    ASSUME InTransition
    PROVE  proc.pc \in BindSteps \cup {"bind-verify"} \cup AcceptSteps \cup {"accept-published"}
<1>1. /\ \A i \in 2..7 : i = 2 \/ i = 3 \/ i = 4 \/ i = 5 \/ i = 6 \/ i = 7
      /\ \A i \in 2..5 : i = 2 \/ i = 3 \/ i = 4 \/ i = 5
  OBVIOUS
<1>2. /\ BindOrder[2] = "bind-records" /\ BindOrder[3] = "bind-graphs"
      /\ BindOrder[4] = "bind-adjudications" /\ BindOrder[5] = "bind-manifest"
      /\ BindOrder[6] = "bind-acceptance" /\ BindOrder[7] = "bind-verify"
      /\ AcceptOrder[2] = "accept-manifest" /\ AcceptOrder[3] = "accept-verify"
      /\ AcceptOrder[4] = "accept-acceptance" /\ AcceptOrder[5] = "accept-published"
  BY DEF BindOrder, AcceptOrder
<1>3. /\ \A i \in 2..7 : BindOrder[i] \in BindSteps \cup {"bind-verify"}
      /\ \A i \in 2..5 : AcceptOrder[i] \in AcceptSteps \cup {"accept-published"}
  BY <1>1, <1>2 DEF BindSteps, AcceptSteps
<1> QED BY <1>3 DEF InTransition

\* A command that fails or dies leaves what is on disk, or makes it pending.
LEMMA StopInv ==
    ASSUME Inv, Fail \/ Die
    PROVE  Inv'
<1> DEFINE d == [disk EXCEPT !.acceptance = proc.before]
<1>1. (Stop(d) /\ InTransition) \/ Stop(disk)
  BY DEF Fail, Die
<1>2. Files(disk) /\ IsPackage(disk) /\ AcceptedIsEarned /\ Decisions /\ Counters
  BY DEF Inv, Files
<1>3. ASSUME Stop(d) \/ Stop(disk)
      PROVE  proc' = Idle /\ Counters' /\ Command' /\ Decisions' /\ Writing'
  <2>1. proc' = Idle /\ UNCHANGED <<live, protocol, artifact, commands, edits>>
        /\ faults < MaxFaults /\ faults' = faults + 1
    BY <1>3 DEF Stop
  <2>2. Counters' /\ Decisions'
    BY <1>2, <2>1, BoundAssumption DEF Counters, Decisions, ExpectedAction
  <2>3. Command' /\ proc'.pc = "idle"
    BY <2>1 DEF Command, Idle
  <2> QED BY <2>1, <2>2, <2>3, EndedWrites
<1>4. CASE Stop(disk)
  <2>1. disk' = disk
    BY <1>4 DEF Stop
  <2> QED BY <1>2, <1>3, <1>4, <2>1, SameIsEarned DEF Inv
<1>5. CASE Stop(d) /\ InTransition
  <2>1. proc.pc \in BindSteps \cup {"bind-verify"} \cup AcceptSteps \cup {"accept-published"}
    BY <1>5, TransitionSteps
  <2>2. Unaccepted(proc.before)
    BY <2>1 DEF Inv, Writing, Publishing
  <2>3. disk' = [disk EXCEPT !.acceptance = proc.before]
    BY <1>5 DEF Stop
  <2>4. disk' = Package(disk.sources, disk.findings, disk.parts, disk.adjudications,
                        disk.manifest, proc.before, disk.regeneration, disk.evidence,
                        disk.receipt)
    BY <1>2, <2>3, PackageFields, Zenon
  <2>5. Files(disk')
    BY <1>2, <2>2, <2>3, FilesFields
  <2>6. AcceptedIsEarned'
    BY <2>2, <2>4, PendingIsUnearned DEF Package
  <2> QED BY <1>3, <1>5, <2>5, <2>6 DEF Inv
<1> QED BY <1>1, <1>4, <1>5

LEMMA EditInv ==
    ASSUME Inv, EditCorpus \/ EditProtocol \/ RemoveAdjustments
    PROVE  Inv'
<1>1. UNCHANGED <<disk, proc>> /\ (artifact' = artifact \/ artifact' = None)
  BY DEF EditCorpus, EditProtocol, RemoveAdjustments, Edit
<1>2. Files(disk)' /\ Command' /\ Writing' /\ AcceptedIsEarned'
  BY <1>1, AroundCommands
<1>3. Decisions'
  BY <1>1 DEF Inv, Decisions, ExpectedAction
<1>4. Counters'
  BY BoundAssumption DEF Inv, Counters, EditCorpus, EditProtocol, RemoveAdjustments, Edit
<1> QED BY <1>2, <1>3, <1>4 DEF Inv

\* What is decided on is a change.
LEMMA AuthoredDecisions ==
    ASSUME AuthorAdjustments
    PROVE  /\ Decisions'
           /\ artifact'.acceptance = disk.acceptance
           /\ UNCHANGED <<live, protocol, disk, proc, commands, faults>>
           /\ edits < MaxEdits /\ edits' = edits + 1
<1>1. PICK decided \in (SUBSET {p \in Parts : Final(disk.parts[p]) # live[p]}) \ {{}} :
          artifact' = [acceptance |-> disk.acceptance,
                       decisions  |-> [p \in decided |->
                            [action     |-> ExpectedAction(Final(disk.parts[p]), live[p]),
                             prior      |-> Final(disk.parts[p]),
                             expected   |-> live[p],
                             superseded |-> disk.adjudications[p]]]]
  BY DEF AuthorAdjustments
<1> DEFINE decisions == [p \in decided |->
                            [action     |-> ExpectedAction(Final(disk.parts[p]), live[p]),
                             prior      |-> Final(disk.parts[p]),
                             expected   |-> live[p],
                             superseded |-> disk.adjudications[p]]]
<1>2. /\ DOMAIN decisions = decided
      /\ \A p \in decided :
            /\ decisions[p].action = ExpectedAction(Final(disk.parts[p]), live[p])
            /\ decisions[p].prior = Final(disk.parts[p])
            /\ decisions[p].expected = live[p]
  OBVIOUS
<1>3. artifact'.acceptance = disk.acceptance /\ artifact'.decisions = decisions
  BY <1>1
<1> HIDE DEF decisions
<1>4. /\ DOMAIN artifact'.decisions \subseteq Parts /\ DOMAIN artifact'.decisions # {}
      /\ \A p \in DOMAIN artifact'.decisions :
            /\ artifact'.decisions[p].action =
                  ExpectedAction(artifact'.decisions[p].prior, artifact'.decisions[p].expected)
            /\ artifact'.decisions[p].prior # artifact'.decisions[p].expected
  <2>1. decided \subseteq Parts /\ decided # {}
        /\ \A p \in decided : Final(disk.parts[p]) # live[p]
    OBVIOUS
  <2>2. DOMAIN artifact'.decisions = decided
    BY <1>2, <1>3
  <2>3. ASSUME NEW p \in decided
        PROVE  /\ artifact'.decisions[p].action = ExpectedAction(
                      artifact'.decisions[p].prior, artifact'.decisions[p].expected)
               /\ artifact'.decisions[p].prior # artifact'.decisions[p].expected
    <3>1. /\ artifact'.decisions[p].action = ExpectedAction(Final(disk.parts[p]), live[p])
          /\ artifact'.decisions[p].prior = Final(disk.parts[p])
          /\ artifact'.decisions[p].expected = live[p]
      BY <1>2, <1>3
    <3> QED BY <2>1, <3>1
  <2> QED BY <2>1, <2>2, <2>3
<1>5. Decisions'
  BY <1>4 DEF Decisions, ExpectedAction
<1> QED BY <1>3, <1>5 DEF AuthorAdjustments, Edit

LEMMA AuthorInv ==
    ASSUME Inv, AuthorAdjustments
    PROVE  Inv'
<1>1. /\ Decisions' /\ UNCHANGED <<live, protocol, disk, proc, commands, faults>>
      /\ edits < MaxEdits /\ edits' = edits + 1
  BY AuthoredDecisions
<1>2. Files(disk)' /\ Command' /\ Writing' /\ AcceptedIsEarned'
  BY <1>1, AroundCommands
<1>3. Counters'
  BY <1>1, BoundAssumption DEF Inv, Counters
<1> QED BY <1>1, <1>2, <1>3 DEF Inv

LEMMA InitInv ==
    ASSUME Init
    PROVE  Inv
<1> DEFINE parts == [p \in Parts |->
                       IF Baseline[p] = None THEN None ELSE Row(p, Baseline[p], FALSE)]
           x     == [t \in Targets |->
                       IF t \in Parts /\ Baseline[t] # None THEN Open ELSE None]
           s     == [primary |-> None, independent |-> None, reconciliation |-> None]
           m     == [audit |-> "pending",
                     partitions |-> [sources |-> s, findings |-> {}, parts |-> parts,
                                     adjudications |-> x],
                     adjustments |-> None, protocol |-> 0]
           a     == [state |-> "pending", manifest |-> m, digest |-> None,
                     receipt |-> None, regeneration |-> None, adjustments |-> None]
<1>1. IsSources(s) /\ \A pass \in Passes : s[pass] \in PassEntries
  BY DEF IsSources, Passes, PassEntries
<1>2. IsParts(parts)
  <2>1. \A p \in Parts : Baseline[p] \in Words \cup {None}
    BY CorpusAssumption
  <2>2. \A p \in Parts : /\ Row(p, Baseline[p], FALSE) \in Rows
                         /\ Row(p, Baseline[p], FALSE).baseline = Baseline[p]
    BY <2>1 DEF Row, Rows
  <2> HIDE DEF Row
  <2>3. \A p \in Parts : parts[p] \in {None, Row(p, Baseline[p], FALSE)}
    OBVIOUS
  <2>4. parts = [p \in Parts |-> parts[p]]
    OBVIOUS
  <2> HIDE DEF parts
  <2>5. parts \in [Parts -> {None} \cup Rows]
    BY <2>2, <2>3, <2>4
  <2> QED BY <2>2, <2>3, <2>5 DEF IsParts
<1>3. IsAdjudications(x)
  BY DEF IsAdjudications, IsAdjudication, Open
<1>4. m.audit = "pending" /\ Unaccepted(a)
  BY DEF Unaccepted, IsAcceptance
<1>5. disk = Package(s, {}, parts, x, m, a, None, None, None)
  BY DEF Init, Generated, Package
<1> HIDE DEF parts, x, s, m, a
<1>6. Files(disk)
  BY <1>1, <1>2, <1>3, <1>4, <1>5, FilesOf
<1>7. AcceptedIsEarned
  BY <1>4, <1>5 DEF Package, Unaccepted, AcceptedIsEarned
<1>8. Counters /\ Decisions
  BY CorpusAssumption, BoundAssumption DEF Init, Counters, Decisions
<1>9. Command /\ proc.pc = "idle"
  BY DEF Init, Idle, Command
<1>10. Writing
  BY <1>9 DEF Writing, Importing, Reconciling, Publishing, Binding, Proving, At, BindSteps,
              ProofSteps, AcceptSteps, PendingSteps, BoundSteps, Published1
<1> QED BY <1>6, <1>7, <1>8, <1>9, <1>10 DEF Inv

LEMMA NextInv ==
    ASSUME Inv, [Next]_vars
    PROVE  Inv'
<1>1. CASE UNCHANGED vars
  <2>1. Files(disk)' /\ Command' /\ Writing' /\ AcceptedIsEarned'
    BY <1>1, AroundCommands DEF vars
  <2>2. Counters' /\ Decisions'
    BY <1>1 DEF vars, Inv, Counters, Decisions, ExpectedAction
  <2> QED BY <2>1, <2>2 DEF Inv
<1>2. ASSUME NEW pass \in Passes, NEW reviewer \in Reviewers, NEW found \in Readings,
             StartImport(pass, Pass(reviewer, found))
      PROVE  Inv'
  BY <1>2, StartImportInv
<1>3. CASE Next /\ ~(\E pass \in Passes, reviewer \in Reviewers, found \in Readings :
                        StartImport(pass, Pass(reviewer, found)))
  BY <1>3, OtherStartsInv, ImportSourcesInv, ImportFindingsInv, ReconcileSourcesInv,
     ReconcileAdjudicationsInv, RebindManifestInv, RebindAcceptanceInv, BeginInv,
     StageBindInv, PublishBindInv, BindVerifyInv, RegenerateInv, ProveRunInv,
     WriteRegenerationInv, WriteReceiptInv, StageAcceptInv, PublishAcceptInv, StopInv,
     EditInv, AuthorInv DEF Next
<1> QED BY <1>1, <1>2, <1>3

-----------------------------------------------------------------------------

\* Only writing adjustments under a command is hasty.
LEMMA HastyStep ==
    ASSUME [Next]_vars
    PROVE  hasty' = hasty \/ AuthorAdjustments
BY DEF Next, vars, StartImport, StartReconcile, StartBind, StartRegenerate, StartClose, Start,
     ImportSources, ImportFindings, ReconcileSources, ReconcileAdjudications,
     RebindManifest, RebindAcceptance, Begin, StageBind, PublishBind, BindVerify, Stage,
     Regenerate, ProveRun, WriteRegeneration, WriteReceipt, StageAccept, PublishAccept,
     Write, Fail, Die, Stop, EditCorpus, EditProtocol, RemoveAdjustments

\* The files hold what their readers expect, whatever fails, dies or is edited:
\* a pending acceptance never keeps a digest, a receipt or a regeneration.
THEOREM TypeCorrect == Spec => []TypeOK
<1>1. Init => Inv /\ hasty \in BOOLEAN
  BY InitInv DEF Init
<1>2. Inv /\ hasty \in BOOLEAN /\ [Next]_vars => Inv' /\ (hasty \in BOOLEAN)'
  BY NextInv, HastyStep DEF AuthorAdjustments
<1>3. Inv /\ hasty \in BOOLEAN => TypeOK
  <2> SUFFICES ASSUME Inv, hasty \in BOOLEAN PROVE TypeOK
    OBVIOUS
  <2>1. /\ live \in Corpora /\ protocol \in 0..MaxEdits /\ commands \in 0..MaxCommands
        /\ edits \in 0..MaxEdits /\ faults \in 0..MaxFaults
    BY BoundAssumption DEF Inv, Counters
  <2>2. /\ \A pass \in Passes : disk.sources[pass] \in PassEntries
        /\ disk.evidence \in {None} \cup SUBSET Parts
        /\ disk.regeneration \in {None} \cup Corpora
        /\ disk.manifest.audit \in {"pending", "accepted"}
    BY DEF Inv, Files
  <2>3. disk.findings \subseteq
            [pass: Passes, target: Targets, action: {"add", "revise", "retire"}]
    BY DEF Inv, Files, Findings
  <2>4. disk.parts \in [Parts -> {None} \cup [baseline: Words \cup {None},
                                               final: Words \cup {None}, done: BOOLEAN]]
    BY DEF Inv, Files, IsParts, Rows
  <2>5. /\ disk.acceptance.state = "pending" =>
              {disk.acceptance.digest, disk.acceptance.receipt,
               disk.acceptance.regeneration} = {None}
        /\ disk.acceptance.state = "accepted" => disk.acceptance.digest \in Corpora
    <3>1. CASE Unaccepted(disk.acceptance)
      BY <3>1 DEF Unaccepted
    <3>2. CASE Accepted(disk.acceptance)
      BY <3>2 DEF Accepted
    <3> QED BY <3>1, <3>2 DEF Inv, Files
  <2> QED BY <2>1, <2>2, <2>3, <2>4, <2>5 DEF TypeOK
<1> QED BY <1>1, <1>2, <1>3, PTL DEF Spec

-----------------------------------------------------------------------------
(* The decisions that an accepted package rests on.                        *)

LEMMA OtherFields ==
    ASSUME NEW d, IsPackage(d), NEW v, NEW e,
           \/ e = d
           \/ e = [d EXCEPT !.sources = v]
           \/ e = [d EXCEPT !.findings = v]
           \/ e = [d EXCEPT !.manifest = v]
           \/ e = [d EXCEPT !.regeneration = v]
           \/ e = [d EXCEPT !.evidence = v]
           \/ e = [d EXCEPT !.receipt = v]
    PROVE  /\ e.parts = d.parts /\ e.adjudications = d.adjudications
           /\ e.acceptance = d.acceptance
BY SMT DEF IsPackage, Package

\* A step that writes neither parts nor the acceptance, and starts no binding.
LEMMA UntouchedStep ==
    ASSUME Untouched, artifact' = artifact, disk'.parts = disk.parts,
           Adjusted(disk') => Adjusted(disk),
           proc'.pc \notin BindSteps \cup {"accept-acceptance"},
           AfterBind' => AfterBind
    PROVE  Untouched'
<1>1. ~At("accept-acceptance")' /\ ~(proc.pc \in BindSteps)'
  BY DEF At
<1>2. artifact' # None => /\ Adjusted(disk') => Kept(disk'.parts, artifact')
                          /\ AfterBind' => Kept(disk'.parts, artifact')
  BY DEF Untouched
<1> QED BY <1>1, <1>2 DEF Untouched

LEMMA AuthorisedStep ==
    ASSUME ChangesAreAuthorised, disk'.parts = disk.parts,
           \/ Unaccepted(disk'.acceptance)
           \/ disk'.acceptance = disk.acceptance
    PROVE  ChangesAreAuthorised'
BY DEF ChangesAreAuthorised, Authorised, Unaccepted

\* A step that writes none of the three.
LEMMA QuietStep ==
    ASSUME Untouched, ChangesAreAuthorised, artifact' = artifact,
           disk'.parts = disk.parts, disk'.adjudications = disk.adjudications,
           disk'.acceptance = disk.acceptance,
           proc'.pc \notin BindSteps \cup {"accept-acceptance"},
           AfterBind' => AfterBind
    PROVE  Untouched' /\ ChangesAreAuthorised'
<1>1. Adjusted(disk') => Adjusted(disk)
  BY DEF Adjusted
<1> QED BY <1>1, UntouchedStep, AuthorisedStep

LEMMA QuietWrites ==
    ASSUME AInv, NEW v, NEW d, NEW pc,
           pc \notin BindSteps \cup {"accept-acceptance", "idle"},
           pc \in BoundSteps \/ (pc \in ProofSteps /\ proc.cmd = "close") => AfterBind,
           Write(d, pc),
           \/ d = disk
           \/ d = [disk EXCEPT !.sources = v]
           \/ d = [disk EXCEPT !.findings = v]
           \/ d = [disk EXCEPT !.manifest = v]
           \/ d = [disk EXCEPT !.regeneration = v]
           \/ d = [disk EXCEPT !.evidence = v]
           \/ d = [disk EXCEPT !.receipt = v]
    PROVE  Untouched' /\ ChangesAreAuthorised'
<1>1. Inv /\ Untouched /\ ChangesAreAuthorised /\ IsPackage(disk)
  BY DEF AInv, Inv, Files
<1>2. /\ disk' = d /\ artifact' = artifact
      /\ proc'.pc = IF pc = "done" THEN "idle" ELSE pc
      /\ pc # "done" => proc'.cmd = proc.cmd
  BY <1>1, Writes
<1>3. /\ disk'.parts = disk.parts /\ disk'.adjudications = disk.adjudications
      /\ disk'.acceptance = disk.acceptance
  BY <1>1, <1>2, OtherFields
<1>4. /\ proc'.pc \notin BindSteps \cup {"accept-acceptance"}
      /\ AfterBind' => AfterBind
  BY <1>2 DEF AfterBind, BindSteps, BoundSteps, AcceptSteps, ProofSteps
<1> QED BY <1>1, <1>2, <1>3, <1>4, QuietStep

LEMMA StartsUntouched ==
    ASSUME AInv, NEW cmd, NEW input, NEW pc \in {"sources", "bind", "begin"},
           Start(cmd, input, pc)
    PROVE  Untouched' /\ ChangesAreAuthorised'
<1>1. proc' = [pc |-> pc, cmd |-> cmd, input |-> input, staged |-> None,
               before |-> None, run |-> None]
  BY DEF Start, Idle
<1>2. disk' = disk /\ artifact' = artifact /\ proc'.pc = pc
  BY <1>1 DEF Start
<1>3. proc'.pc \notin BindSteps \cup {"accept-acceptance"} /\ ~AfterBind'
  BY <1>2 DEF AfterBind, BindSteps, BoundSteps, ProofSteps, AcceptSteps
<1> QED BY <1>2, <1>3, QuietStep DEF AInv

LEMMA QuietActions ==
    ASSUME AInv,
           \/ ImportSources \/ ImportFindings \/ ReconcileSources \/ RebindManifest
           \/ BindVerify \/ Regenerate \/ WriteRegeneration \/ WriteReceipt
    PROVE  Untouched' /\ ChangesAreAuthorised'
<1>1. CASE ImportSources
  <2> DEFINE v == [disk.sources EXCEPT ![proc.input.pass] = proc.input.entry]
  <2>1. Write([disk EXCEPT !.sources = v], "findings")
    BY <1>1 DEF ImportSources
  <2> HIDE DEF v
  <2> QED BY <2>1, QuietWrites DEF BindSteps, BoundSteps, ProofSteps, AcceptSteps
<1>2. CASE ImportFindings
  <2> DEFINE v == disk.findings \cup Found(proc.input.pass, proc.input.entry)
  <2>1. Write([disk EXCEPT !.findings = v], "rebind-manifest")
    BY <1>2 DEF ImportFindings
  <2> HIDE DEF v
  <2> QED BY <2>1, QuietWrites DEF BindSteps, BoundSteps, ProofSteps, AcceptSteps
<1>3. CASE ReconcileSources
  <2> DEFINE v == [disk.sources EXCEPT !.reconciliation = Reconciliation(disk, proc.input)]
  <2>1. Write([disk EXCEPT !.sources = v], "adjudications")
    BY <1>3 DEF ReconcileSources
  <2> HIDE DEF v
  <2> QED BY <2>1, QuietWrites DEF BindSteps, BoundSteps, ProofSteps, AcceptSteps
<1>4. CASE RebindManifest
  <2> DEFINE v == Described(disk, disk.manifest.audit, Required(disk))
  <2>1. Write([disk EXCEPT !.manifest = v], "rebind-acceptance")
    BY <1>4 DEF RebindManifest
  <2> HIDE DEF v
  <2> QED BY <2>1, QuietWrites DEF BindSteps, BoundSteps, ProofSteps, AcceptSteps
<1>5. CASE BindVerify
  <2>1. /\ Write(disk, IF proc.cmd = "close" THEN "regenerate-one" ELSE "done")
        /\ AfterBind
    BY <1>5 DEF BindVerify, AfterBind, At, BoundSteps
  <2> QED BY <2>1, QuietWrites DEF BindSteps, BoundSteps, ProofSteps, AcceptSteps
<1>6. CASE Regenerate
  <2> DEFINE v == Evidence(live)
  <2>1. \E pc \in {"prove-one", "prove-two"} : Write([disk EXCEPT !.evidence = v], pc)
    BY <1>6 DEF Regenerate
  <2>2. proc.cmd = "close" => AfterBind
    BY <1>6 DEF Regenerate, AfterBind, At, ProofSteps
  <2> HIDE DEF v
  <2> QED BY <2>1, <2>2, QuietWrites DEF BindSteps, BoundSteps, ProofSteps, AcceptSteps
<1>7. CASE WriteRegeneration
  <2> DEFINE v  == proc.run
             pc == IF proc.cmd = "close" THEN "receipt" ELSE "done"
  <2>1. Write([disk EXCEPT !.regeneration = v], pc)
    BY <1>7 DEF WriteRegeneration
  <2>2. pc = "done" \/ (pc = "receipt" /\ AfterBind)
    BY <1>7 DEF WriteRegeneration, AfterBind, At, ProofSteps
  <2> HIDE DEF v, pc
  <2> QED BY <2>1, <2>2, QuietWrites DEF BindSteps, BoundSteps, ProofSteps, AcceptSteps
<1>8. CASE WriteReceipt
  <2> DEFINE v == [regeneration |-> disk.regeneration, evidence |-> disk.evidence,
                   adjustments |-> artifact]
  <2>1. Write([disk EXCEPT !.receipt = v], "accept") /\ AfterBind
    BY <1>8 DEF WriteReceipt, AfterBind, At, BoundSteps
  <2> HIDE DEF v
  <2> QED BY <2>1, QuietWrites DEF BindSteps, BoundSteps, ProofSteps, AcceptSteps
<1> QED BY <1>1, <1>2, <1>3, <1>4, <1>5, <1>6, <1>7, <1>8

LEMMA ReconcileUntouched ==
    ASSUME AInv, ReconcileAdjudications
    PROVE  Untouched' /\ ChangesAreAuthorised'
<1> DEFINE x == Routed(disk)
<1>1. Inv /\ IsPackage(disk) /\ IsAdjudications(disk.adjudications)
  BY DEF AInv, Inv, Files
<1>2. \A p \in Parts : x[p] # None => /\ disk.adjudications[p] # None
                                      /\ x[p].by = disk.adjudications[p].by
  BY <1>1, RoutedIs
<1>3. Write([disk EXCEPT !.adjudications = x], "rebind-manifest")
  BY DEF ReconcileAdjudications
<1> HIDE DEF x
<1>4. /\ disk' = [disk EXCEPT !.adjudications = x] /\ artifact' = artifact
      /\ proc'.pc = "rebind-manifest"
  BY <1>1, <1>3, Writes
<1>5. disk' = Package(disk.sources, disk.findings, disk.parts, x, disk.manifest,
                      disk.acceptance, disk.regeneration, disk.evidence, disk.receipt)
  BY <1>1, <1>4, PackageFields, Zenon
<1>6. /\ disk'.parts = disk.parts /\ disk'.acceptance = disk.acceptance
      /\ disk'.adjudications = x
  BY <1>5 DEF Package
<1>7. Adjusted(disk') => Adjusted(disk)
  BY <1>2, <1>6 DEF Adjusted
<1>8. proc'.pc \notin BindSteps \cup {"accept-acceptance"} /\ ~AfterBind'
  BY <1>4 DEF AfterBind, BindSteps, BoundSteps, ProofSteps, AcceptSteps
<1>9. Untouched'
  BY <1>4, <1>6, <1>7, <1>8, UntouchedStep DEF AInv
<1>10. ChangesAreAuthorised'
  BY <1>6, AuthorisedStep DEF AInv
<1> QED BY <1>9, <1>10

\* A write of the acceptance alone.
LEMMA AcceptanceUntouched ==
    ASSUME AInv, NEW a, NEW pc, Write([disk EXCEPT !.acceptance = a], pc),
           pc \notin BindSteps \cup {"accept-acceptance", "idle"},
           pc \in BoundSteps \/ (pc \in ProofSteps /\ proc.cmd = "close") => AfterBind
    PROVE  /\ Untouched'
           /\ disk'.parts = disk.parts /\ disk'.acceptance = a
           /\ Unaccepted(a) => ChangesAreAuthorised'
<1>1. Inv /\ IsPackage(disk)
  BY DEF AInv, Inv, Files
<1>2. /\ disk' = [disk EXCEPT !.acceptance = a] /\ artifact' = artifact
      /\ proc'.pc = IF pc = "done" THEN "idle" ELSE pc
      /\ pc # "done" => proc'.cmd = proc.cmd
  BY <1>1, Writes
<1>3. disk' = Package(disk.sources, disk.findings, disk.parts, disk.adjudications,
                      disk.manifest, a, disk.regeneration, disk.evidence, disk.receipt)
  BY <1>1, <1>2, PackageFields, Zenon
<1>4. /\ disk'.parts = disk.parts /\ disk'.acceptance = a
      /\ disk'.adjudications = disk.adjudications
  BY <1>3 DEF Package
<1>5. Adjusted(disk') => Adjusted(disk)
  BY <1>4 DEF Adjusted
<1>6. /\ proc'.pc \notin BindSteps \cup {"accept-acceptance"}
      /\ AfterBind' => AfterBind
  BY <1>2 DEF AfterBind, BindSteps, BoundSteps, AcceptSteps, ProofSteps
<1>7. Untouched'
  BY <1>2, <1>4, <1>5, <1>6, UntouchedStep DEF AInv
<1> QED BY <1>4, <1>7, AuthorisedStep DEF AInv

LEMMA RebindAcceptanceUntouched ==
    ASSUME AInv, RebindAcceptance
    PROVE  Untouched' /\ ChangesAreAuthorised'
<1> DEFINE a == [disk.acceptance EXCEPT !.manifest = disk.manifest,
                                        !.adjustments = disk.manifest.adjustments]
<1>1. /\ Inv /\ Files(disk) /\ IsPackage(disk) /\ IsAcceptance(disk.acceptance)
      /\ AcceptedIsEarned
  BY DEF AInv, Inv, Files, Unaccepted, Accepted
<1>2. a = [state |-> disk.acceptance.state, manifest |-> disk.manifest,
           digest |-> disk.acceptance.digest, receipt |-> disk.acceptance.receipt,
           regeneration |-> disk.acceptance.regeneration,
           adjustments |-> disk.manifest.adjustments]
  BY <1>1, AcceptanceWith, Zenon
<1>3. Write([disk EXCEPT !.acceptance = a], "done")
  <2>1. [disk EXCEPT !.acceptance.manifest = disk.manifest,
                     !.acceptance.adjustments = disk.manifest.adjustments]
          = [disk EXCEPT !.acceptance = a]
    BY <1>1 DEF IsPackage, Package
  <2> QED BY <2>1 DEF RebindAcceptance
<1> HIDE DEF a
<1>4. /\ Untouched' /\ disk'.parts = disk.parts /\ disk'.acceptance = a
  BY <1>3, AcceptanceUntouched DEF BindSteps, BoundSteps, ProofSteps, AcceptSteps
<1>5. ChangesAreAuthorised'
  <2>1. CASE Unaccepted(disk.acceptance)
    BY <1>2, <1>4, <2>1 DEF Unaccepted, ChangesAreAuthorised
  <2>2. CASE ~Unaccepted(disk.acceptance)
    <3>1. Earned(disk) /\ disk.acceptance.state = "accepted"
      BY <1>1, <2>2, AcceptedIsReviewed
    <3>2. a.adjustments = disk.acceptance.adjustments
      BY <1>2, <3>1 DEF Earned, Backed
    <3> QED BY <1>4, <3>1, <3>2 DEF AInv, ChangesAreAuthorised, Authorised
  <2> QED BY <2>1, <2>2
<1> QED BY <1>4, <1>5

LEMMA BeginUntouched ==
    ASSUME AInv, Begin
    PROVE  Untouched' /\ ChangesAreAuthorised'
<1> DEFINE a  == IF disk.acceptance.state = "accepted" THEN Pending(disk.acceptance)
                                                       ELSE disk.acceptance
           pc == IF proc.cmd = "close" THEN "bind" ELSE "regenerate-one"
<1>1. Write([disk EXCEPT !.acceptance = a], pc)
  BY DEF Begin
<1>2. Unaccepted(a)
  BY PendingIsUnaccepted DEF AInv, Inv, Files, Accepted
<1>3. pc \in {"bind", "regenerate-one"} /\ (pc = "regenerate-one" => proc.cmd # "close")
  OBVIOUS
<1> HIDE DEF a, pc
<1> QED BY <1>1, <1>2, <1>3, AcceptanceUntouched
        DEF BindSteps, BoundSteps, ProofSteps, AcceptSteps

\* What bind is allowed to bind under adjustments: what they do not decide on
\* is as it was accepted, on disk and in the corpus.
LEMMA BindKeeps ==
    ASSUME Decisions, Untouched, artifact # None, BindAllowed(disk, live)
    PROVE  Kept(disk.parts, artifact) /\ Kept(Merged(disk, live), artifact)
<1> DEFINE rows    == Merged(disk, live)
           decided == DOMAIN artifact.decisions
<1>1. Covered(disk, rows)
  BY DEF BindAllowed
<1> HIDE DEF rows
<1>2. Kept(disk.parts, artifact) /\ Deltas(disk, rows) \subseteq decided
  <2>1. CASE /\ Deltas(disk, rows) = decided
             /\ disk.parts = artifact.acceptance.manifest.partitions.parts
    BY <2>1 DEF Kept
  <2>2. CASE /\ Deltas(disk, rows) = {}
             /\ \A p \in decided : AlreadyApplied(disk, rows, p)
    <3>1. PICK p \in decided : p \in Parts
      BY DEF Decisions
    <3>2. disk.adjudications[p] # None /\ disk.adjudications[p].by = "adjustment"
      BY <2>2, <3>1 DEF AlreadyApplied
    <3>3. Adjusted(disk)
      BY <3>1, <3>2 DEF Adjusted
    <3> QED BY <2>2, <3>3 DEF Untouched
  <2> QED BY <1>1, <2>1, <2>2 DEF Covered
<1>3. \A p \in Parts \ decided : Final(disk.parts[p]) = Final(rows[p])
  BY <1>2 DEF Deltas
<1> QED BY <1>2, <1>3 DEF Kept, rows

LEMMA StageBindUntouched ==
    ASSUME AInv, StageBind
    PROVE  Untouched' /\ ChangesAreAuthorised'
<1> DEFINE c == BindCandidate(disk, live)
<1>1. Inv /\ Stage(c, "bind-transition") /\ BindAllowed(disk, live)
  BY DEF AInv, StageBind
<1>2. c.parts = Merged(disk, live)
  BY <1>1, BindCandidateIs DEF Inv, Counters
<1> HIDE DEF c
<1>3. /\ UNCHANGED <<disk, artifact>> /\ proc'.pc = "bind-transition" /\ proc'.staged = c
  BY <1>1, Stages
<1>4. artifact # None => Kept(disk.parts, artifact) /\ Kept(c.parts, artifact)
  BY <1>1, <1>2, BindKeeps DEF AInv, Inv
<1>5. ~At("accept-acceptance")'
  BY <1>3 DEF At
<1>6. artifact' # None => /\ Kept(disk'.parts, artifact')
                          /\ Kept(proc'.staged.parts, artifact')
  BY <1>3, <1>4
<1>7. Untouched'
  BY <1>5, <1>6 DEF Untouched
<1>8. ChangesAreAuthorised'
  BY <1>3 DEF AInv, ChangesAreAuthorised
<1> QED BY <1>7, <1>8

\* A write of bind: whatever it publishes is kept.
LEMMA PublishesKept ==
    ASSUME Inv, artifact' = artifact, proc'.staged = proc.staged,
           artifact # None => /\ Kept(disk'.parts, artifact)
                              /\ Kept(proc.staged.parts, artifact),
           proc'.pc \in BindSteps, Unaccepted(disk'.acceptance)
    PROVE  Untouched' /\ ChangesAreAuthorised'
<1>1. ~At("accept-acceptance")'
  BY DEF At, BindSteps
<1>2. artifact' # None => /\ Kept(disk'.parts, artifact')
                          /\ Kept(proc'.staged.parts, artifact')
  OBVIOUS
<1>3. Untouched'
  BY <1>1, <1>2 DEF Untouched
<1> QED BY <1>3 DEF ChangesAreAuthorised, Unaccepted

LEMMA PublishBindUntouched ==
    ASSUME AInv, PublishBind
    PROVE  Untouched' /\ ChangesAreAuthorised'
<1>1. /\ Inv /\ Untouched /\ ChangesAreAuthorised /\ Files(disk) /\ IsPackage(disk)
      /\ IsParts(disk.parts)
  BY DEF AInv, Inv, Files
<1>2. /\ proc.pc \in BindSteps => StagedBind(proc.staged)
      /\ proc.pc \in BindSteps \ {"bind-transition"} => Unaccepted(disk.acceptance)
      /\ proc.pc \in BindSteps => Unaccepted(proc.before)
      /\ proc.pc \in BindSteps /\ artifact # None =>
            Kept(disk.parts, artifact) /\ Kept(proc.staged.parts, artifact)
  BY <1>1 DEF Inv, Writing, Publishing, PendingSteps, Untouched
<1>3. ASSUME At("bind-transition"),
             Write([disk EXCEPT !.acceptance = proc.before], "bind-records")
      PROVE  Untouched' /\ ChangesAreAuthorised'
  <2>1. /\ disk' = [disk EXCEPT !.acceptance = proc.before] /\ artifact' = artifact
        /\ proc'.pc = "bind-records" /\ proc'.staged = proc.staged
    BY <1>1, <1>3, Writes
  <2>2. disk' = Package(disk.sources, disk.findings, disk.parts, disk.adjudications,
                        disk.manifest, proc.before, disk.regeneration, disk.evidence,
                        disk.receipt)
    BY <1>1, <2>1, PackageFields, Zenon
  <2>3. disk'.parts = disk.parts /\ disk'.acceptance = proc.before
    BY <2>2 DEF Package
  <2> QED BY <1>1, <1>2, <1>3, <2>1, <2>3, PublishesKept DEF At, BindSteps
<1>4. ASSUME NEW p \in Parts, NEW pc \in BindSteps,
             proc.pc \in BindSteps \ {"bind-transition"},
             Write([disk EXCEPT !.parts[p] = proc.staged.parts[p]], pc)
      PROVE  Untouched' /\ ChangesAreAuthorised'
  <2> DEFINE parts == [disk.parts EXCEPT ![p] = proc.staged.parts[p]]
  <2>1. IsParts(disk.parts) /\ IsParts(proc.staged.parts)
    BY <1>1, <1>2, <1>4 DEF StagedBind
  <2>2. /\ parts[p] = proc.staged.parts[p]
        /\ \A q \in Parts \ {p} : parts[q] = disk.parts[q]
    BY <2>1 DEF IsParts
  <2> HIDE DEF parts
  <2>3. /\ disk' = [disk EXCEPT !.parts = parts] /\ artifact' = artifact
        /\ proc'.pc = pc /\ proc'.staged = proc.staged
    BY <1>1, <1>4, Writes DEF parts, BindSteps
  <2>4. disk' = Package(disk.sources, disk.findings, parts, disk.adjudications,
                        disk.manifest, disk.acceptance, disk.regeneration, disk.evidence,
                        disk.receipt)
    BY <1>1, <2>3, PackageFields, Zenon
  <2>5. disk'.parts = parts /\ disk'.acceptance = disk.acceptance
    BY <2>4 DEF Package
  <2>6. artifact # None => Kept(parts, artifact) /\ Kept(proc.staged.parts, artifact)
    BY <1>2, <1>4, <2>2 DEF Kept
  <2> QED BY <1>1, <1>2, <1>4, <2>3, <2>5, <2>6, PublishesKept
<1>5. ASSUME At("bind-adjudications"),
             Write([disk EXCEPT !.adjudications = proc.staged.adjudications], "bind-manifest")
      PROVE  Untouched' /\ ChangesAreAuthorised'
  <2> DEFINE x == proc.staged.adjudications
  <2>1. /\ disk' = [disk EXCEPT !.adjudications = x] /\ artifact' = artifact
        /\ proc'.pc = "bind-manifest" /\ proc'.staged = proc.staged
    BY <1>1, <1>5, Writes
  <2> HIDE DEF x
  <2>2. disk' = Package(disk.sources, disk.findings, disk.parts, x, disk.manifest,
                        disk.acceptance, disk.regeneration, disk.evidence, disk.receipt)
    BY <1>1, <2>1, PackageFields, Zenon
  <2>3. disk'.parts = disk.parts /\ disk'.acceptance = disk.acceptance
    BY <2>2 DEF Package
  <2> QED BY <1>1, <1>2, <1>5, <2>1, <2>3, PublishesKept DEF At, BindSteps
<1>6. ASSUME At("bind-manifest"),
             Write([disk EXCEPT !.manifest = proc.staged.manifest], "bind-acceptance")
      PROVE  Untouched' /\ ChangesAreAuthorised'
  <2> DEFINE m == proc.staged.manifest
  <2>1. /\ disk' = [disk EXCEPT !.manifest = m] /\ artifact' = artifact
        /\ proc'.pc = "bind-acceptance" /\ proc'.staged = proc.staged
    BY <1>1, <1>6, Writes
  <2> HIDE DEF m
  <2>2. disk'.parts = disk.parts /\ disk'.acceptance = disk.acceptance
    BY <1>1, <2>1, OtherFields
  <2> QED BY <1>1, <1>2, <1>6, <2>1, <2>2, PublishesKept DEF At, BindSteps
<1>7. ASSUME At("bind-acceptance"),
             Write([disk EXCEPT !.acceptance = proc.staged.acceptance], "bind-verify")
      PROVE  Untouched' /\ ChangesAreAuthorised'
  <2>1. Unaccepted(proc.staged.acceptance) /\ AfterBind
    BY <1>2, <1>7 DEF StagedBind, At, BindSteps, AfterBind, BoundSteps
  <2> QED BY <1>7, <2>1, AcceptanceUntouched DEF BindSteps, BoundSteps, ProofSteps, AcceptSteps
<1> QED BY <1>3, <1>4, <1>5, <1>6, <1>7, PublishBindSteps DEF At, BindSteps, Parts

LEMMA ProveRunUntouched ==
    ASSUME AInv, ProveRun
    PROVE  Untouched' /\ ChangesAreAuthorised'
<1> DEFINE pc == IF At("prove-one") THEN "regenerate-two" ELSE "regeneration"
           p1 == [proc EXCEPT !.run = live]
<1>1. /\ proc.pc \in {"prove-one", "prove-two"} /\ UNCHANGED <<disk, artifact>>
  BY DEF ProveRun
<1>2. p1 = [pc |-> proc.pc, cmd |-> proc.cmd, input |-> proc.input, staged |-> proc.staged,
            before |-> proc.before, run |-> live]
  BY DEF AInv, Inv, Command
<1>3. proc' = [p1 EXCEPT !.pc = pc]
  BY <1>2 DEF ProveRun, At
<1>4. pc \in {"regenerate-two", "regeneration"}
  OBVIOUS
<1> HIDE DEF pc, p1
<1>5. proc'.pc = pc /\ proc'.cmd = proc.cmd
  BY <1>2, <1>3
<1>6. /\ proc'.pc \notin BindSteps \cup {"accept-acceptance"}
      /\ AfterBind' => AfterBind
  BY <1>1, <1>4, <1>5 DEF AfterBind, BindSteps, BoundSteps, AcceptSteps, ProofSteps
<1> QED BY <1>1, <1>6, QuietStep DEF AInv

LEMMA StageAcceptUntouched ==
    ASSUME AInv, StageAccept
    PROVE  Untouched' /\ ChangesAreAuthorised'
<1> DEFINE c == AcceptCandidate(disk, live, proc.run)
<1>1. Inv /\ At("accept") /\ Stage(c, "accept-transition")
  BY DEF AInv, StageAccept
<1> HIDE DEF c
<1>2. UNCHANGED <<disk, artifact>> /\ proc'.pc = "accept-transition"
  BY <1>1, Stages
<1>3. proc'.pc \notin BindSteps \cup {"accept-acceptance"} /\ AfterBind
  BY <1>1, <1>2 DEF At, AfterBind, BindSteps, BoundSteps
<1> QED BY <1>2, <1>3, QuietStep DEF AInv

\* What the last verification has found is authorised.
LEMMA VerifiedIsAuthorised ==
    ASSUME NEW d, Files(d), Decisions, NEW a, Accepted(a), CandidateVerified(d, a, live),
           artifact # None => Kept(d.parts, artifact)
    PROVE  Authorised([d EXCEPT !.acceptance = a])
<1> DEFINE e == [d EXCEPT !.acceptance = a]
<1>1. e = Package(d.sources, d.findings, d.parts, d.adjudications, d.manifest, a,
                  d.regeneration, d.evidence, d.receipt)
  BY PackageFields, Zenon DEF Files
<1> HIDE DEF e
<1>2. e.parts = d.parts /\ e.acceptance = a
  BY <1>1 DEF Package
<1>3. /\ a.adjustments = artifact
      /\ artifact # None => \A p \in DOMAIN artifact.decisions :
            d.parts[p] # None /\ d.parts[p].final = artifact.decisions[p].expected
  BY DEF CandidateVerified, Sound, AdjustmentsReflected
<1>4. ASSUME artifact # None, NEW p \in Parts
      PROVE  Final(d.parts[p]) =
                IF p \in DOMAIN artifact.decisions THEN artifact.decisions[p].expected
                ELSE Final(artifact.acceptance.manifest.partitions.parts[p])
  <2>1. CASE p \in DOMAIN artifact.decisions
    BY <1>3, <1>4, <2>1 DEF Final
  <2>2. CASE p \notin DOMAIN artifact.decisions
    BY <1>4, <2>2 DEF Kept
  <2> QED BY <2>1, <2>2
<1> QED BY <1>2, <1>3, <1>4 DEF Authorised, e

LEMMA PublishAcceptUntouched ==
    ASSUME AInv, PublishAccept
    PROVE  Untouched' /\ ChangesAreAuthorised'
<1>1. /\ Inv /\ Untouched /\ ChangesAreAuthorised /\ Files(disk) /\ IsPackage(disk)
      /\ Decisions
  BY DEF AInv, Inv, Files
<1>2. ASSUME At("accept-transition"),
             Write([disk EXCEPT !.acceptance = proc.before], "accept-manifest")
      PROVE  Untouched' /\ ChangesAreAuthorised'
  <2>1. Unaccepted(proc.before) /\ AfterBind
    BY <1>1, <1>2 DEF Inv, Writing, Publishing, At, AcceptSteps, AfterBind, BoundSteps
  <2> QED BY <1>2, <2>1, AcceptanceUntouched DEF BindSteps
<1>3. ASSUME At("accept-manifest"),
             Write([disk EXCEPT !.manifest = proc.staged.manifest], "accept-verify")
      PROVE  Untouched' /\ ChangesAreAuthorised'
  <2>1. AfterBind
    BY <1>3 DEF At, AcceptSteps, AfterBind, BoundSteps
  <2> QED BY <1>3, <2>1, QuietWrites DEF BindSteps
<1>4. ASSUME At("accept-verify"), CandidateVerified(disk, proc.staged.acceptance, live),
             Write(disk, "accept-acceptance")
      PROVE  Untouched' /\ ChangesAreAuthorised'
  <2>1. /\ AfterBind /\ StagedAccept(proc.staged)
        /\ artifact # None => Kept(disk.parts, artifact)
    BY <1>1, <1>4 DEF Inv, Writing, Publishing, At, AcceptSteps, AfterBind, BoundSteps,
                      Untouched
  <2>2. Authorised(ToAccept)
    BY <1>1, <1>4, <2>1, VerifiedIsAuthorised DEF StagedAccept, ToAccept
  <2>3. /\ disk' = disk /\ artifact' = artifact /\ proc'.pc = "accept-acceptance"
        /\ proc'.staged = proc.staged
    BY <1>1, <1>4, Writes
  <2>4. Authorised(ToAccept)'
    BY <2>2, <2>3 DEF ToAccept
  <2>5. ~(proc.pc \in BindSteps)'
    BY <2>3 DEF BindSteps
  <2>6. artifact' # None => Kept(disk'.parts, artifact')
    BY <2>1, <2>3
  <2>7. Untouched'
    BY <2>4, <2>5, <2>6 DEF Untouched
  <2> QED BY <1>1, <2>3, <2>7 DEF ChangesAreAuthorised
<1>5. ASSUME At("accept-acceptance"), Write(ToAccept, "accept-published")
      PROVE  Untouched' /\ ChangesAreAuthorised'
  <2>1. Authorised(ToAccept)
    BY <1>1, <1>5 DEF Untouched
  <2>2. Write([disk EXCEPT !.acceptance = proc.staged.acceptance], "accept-published")
    BY <1>5 DEF ToAccept
  <2>3. Untouched'
    BY <2>2, AcceptanceUntouched DEF BindSteps, BoundSteps, ProofSteps, AcceptSteps
  <2>4. disk' = ToAccept
    BY <1>1, <1>5, Writes
  <2> QED BY <2>1, <2>3, <2>4 DEF ChangesAreAuthorised
<1>6. ASSUME At("accept-published"), Write(disk, "done")
      PROVE  Untouched' /\ ChangesAreAuthorised'
  BY <1>6, QuietWrites DEF BindSteps, BoundSteps, ProofSteps, AcceptSteps
<1> QED BY <1>2, <1>3, <1>4, <1>5, <1>6, PublishAcceptSteps

LEMMA StopUntouched ==
    ASSUME AInv, Fail \/ Die
    PROVE  Untouched' /\ ChangesAreAuthorised'
<1>1. /\ Inv /\ Untouched /\ ChangesAreAuthorised /\ IsPackage(disk) /\ AcceptedIsEarned'
      /\ Files(disk')
  BY StopInv DEF AInv, Inv, Files
<1>2. /\ disk' = disk \/ disk' = [disk EXCEPT !.acceptance = proc.before]
      /\ artifact' = artifact /\ proc' = Idle
  BY DEF Fail, Die, Stop
<1>3. proc'.pc = "idle"
  BY <1>2 DEF Idle
<1>4. proc'.pc \notin BindSteps \cup {"accept-acceptance"} /\ ~AfterBind'
  BY <1>3 DEF AfterBind, BindSteps, BoundSteps, ProofSteps, AcceptSteps
<1>5. CASE disk' = disk
  BY <1>1, <1>2, <1>4, <1>5, QuietStep
<1>6. CASE disk' = [disk EXCEPT !.acceptance = proc.before] /\ disk' # disk
  <2>1. disk' = Package(disk.sources, disk.findings, disk.parts, disk.adjudications,
                        disk.manifest, proc.before, disk.regeneration, disk.evidence,
                        disk.receipt)
    BY <1>1, <1>6, PackageFields, Zenon
  <2>2. /\ disk'.parts = disk.parts /\ disk'.adjudications = disk.adjudications
        /\ disk'.acceptance = proc.before
    BY <2>1 DEF Package
  <2>3. Unaccepted(proc.before)
    <3>1. InTransition
      BY <1>6 DEF Fail, Die, Stop
    <3>2. proc.pc \in BindSteps \cup {"bind-verify"} \cup AcceptSteps \cup {"accept-published"}
      BY <3>1, TransitionSteps
    <3> QED BY <1>1, <3>2 DEF Inv, Writing, Publishing
  <2>4. Adjusted(disk') => Adjusted(disk)
    BY <2>2 DEF Adjusted
  <2> QED BY <1>1, <1>2, <1>4, <2>2, <2>3, <2>4, UntouchedStep, AuthorisedStep
<1> QED BY <1>2, <1>5, <1>6

LEMMA EditUntouched ==
    ASSUME AInv, EditCorpus \/ EditProtocol \/ RemoveAdjustments
    PROVE  Untouched' /\ ChangesAreAuthorised'
<1>1. UNCHANGED <<disk, proc>> /\ (artifact' = artifact \/ artifact' = None)
  BY DEF EditCorpus, EditProtocol, RemoveAdjustments, Edit
<1>2. ChangesAreAuthorised'
  BY <1>1 DEF AInv, ChangesAreAuthorised
<1>3. Untouched'
  BY <1>1 DEF AInv, Untouched, At, ToAccept, AfterBind
<1> QED BY <1>2, <1>3

\* Adjustments are authored on an accepted package, and keep what it has.
LEMMA AuthorUntouched ==
    ASSUME AInv, AuthorAdjustments, proc = Idle
    PROVE  Untouched' /\ ChangesAreAuthorised'
<1>1. /\ artifact'.acceptance = disk.acceptance /\ UNCHANGED <<disk, proc>>
      /\ disk.acceptance.state = "accepted"
  BY AuthoredDecisions DEF AuthorAdjustments
<1>2. Backed(disk)
  BY <1>1 DEF AInv, Inv, AcceptedIsEarned
<1>3. artifact'.acceptance.manifest.partitions.parts = disk'.parts
  BY <1>1, <1>2 DEF Backed, Content
<1>4. Kept(disk'.parts, artifact')
  BY <1>3 DEF Kept
<1>5. proc'.pc = "idle"
  BY <1>1 DEF Idle
<1>6. ~At("accept-acceptance")' /\ ~(proc.pc \in BindSteps)'
  BY <1>5 DEF At, BindSteps
<1>7. Untouched'
  BY <1>4, <1>6 DEF Untouched
<1>8. ChangesAreAuthorised'
  BY <1>1 DEF AInv, ChangesAreAuthorised
<1> QED BY <1>7, <1>8

LEMMA NextAInv ==
    ASSUME AInv, [Next]_vars, AuthorAdjustments => proc = Idle
    PROVE  AInv'
<1>1. Inv'
  BY NextInv DEF AInv
<1>2. ASSUME UNCHANGED <<artifact, disk, proc>> PROVE AInv'
  <2>1. Untouched' /\ ChangesAreAuthorised'
    BY <1>2 DEF AInv, Untouched, ChangesAreAuthorised, At, ToAccept, AfterBind
  <2> QED BY <1>1, <2>1 DEF AInv
<1>3. ASSUME NEW pass \in Passes, NEW reviewer \in Reviewers, NEW found \in Readings,
             StartImport(pass, Pass(reviewer, found))
      PROVE  Untouched' /\ ChangesAreAuthorised'
  <2>1. Start("import", [pass |-> pass, entry |-> Pass(reviewer, found)], "sources")
    BY <1>3 DEF StartImport
  <2> QED BY <2>1, StartsUntouched
<1>4. CASE \/ \E reviewer \in Reviewers : StartReconcile(reviewer)
           \/ StartBind \/ StartRegenerate \/ StartClose
  <2>1. \E cmd, input : \E pc \in {"sources", "bind", "begin"} : Start(cmd, input, pc)
    BY <1>4 DEF StartReconcile, StartBind, StartRegenerate, StartClose
  <2> QED BY <1>1, <2>1, StartsUntouched DEF AInv
<1>5. CASE AuthorAdjustments
  BY <1>1, <1>5, AuthorUntouched DEF AInv
<1> QED BY <1>1, <1>2, <1>3, <1>4, <1>5, QuietActions, ReconcileUntouched,
           RebindAcceptanceUntouched, BeginUntouched, StageBindUntouched,
           PublishBindUntouched, ProveRunUntouched, StageAcceptUntouched,
           PublishAcceptUntouched, StopUntouched, EditUntouched DEF Next, AInv, vars

\* However commands fail, die and are repeated, and whatever is edited under
\* them, a package that is marked accepted has earned it: three people have
\* reviewed the source, every finding is decided on, the units are those of the
\* corpus of the digest, and the receipt is of what is on disk.  As long as
\* adjustments are written between commands, every change under them was decided
\* on.
THEOREM Earning == Spec => []AuthorityIsEarned
<1>1. Init => IInv
  <2> SUFFICES ASSUME Init PROVE IInv
    OBVIOUS
  <2>1. Inv
    BY InitInv
  <2>2. artifact = None /\ proc.pc = "idle" /\ disk.acceptance.state = "pending"
    BY DEF Init, Idle, Generated
  <2>3. Untouched
    BY <2>2 DEF Untouched, At
  <2>4. ChangesAreAuthorised
    BY <2>2 DEF ChangesAreAuthorised
  <2> QED BY <2>1, <2>3, <2>4 DEF IInv, AInv
<1>2. IInv /\ [Next]_vars => IInv'
  <2> SUFFICES ASSUME IInv, [Next]_vars PROVE IInv'
    OBVIOUS
  <2>1. Inv'
    BY NextInv DEF IInv
  <2>2. ASSUME ~hasty' PROVE ~hasty /\ (AuthorAdjustments => proc = Idle)
    <3>1. AuthorAdjustments => hasty' = (hasty \/ proc # Idle)
      BY DEF AuthorAdjustments
    <3>2. CASE AuthorAdjustments
      <4>1. ~(hasty \/ proc # Idle)
        BY <2>2, <3>1, <3>2
      <4> QED BY <4>1
    <3>3. CASE ~AuthorAdjustments
      BY <2>2, <3>3, HastyStep
    <3> QED BY <3>2, <3>3
  <2>3. ASSUME ~hasty' PROVE AInv'
    BY <2>2, <2>3, NextAInv DEF IInv
  <2> QED BY <2>1, <2>3 DEF IInv
<1>3. IInv => AuthorityIsEarned
  BY DEF IInv, AInv, Inv, AcceptedIsEarned, ChangesAreAuthorised, AuthorityIsEarned, Earned
<1> QED BY <1>1, <1>2, <1>3, PTL DEF Spec

=============================================================================
