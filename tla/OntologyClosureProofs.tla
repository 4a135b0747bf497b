----------------------- MODULE OntologyClosureProofs -----------------------
(***************************************************************************)
(* A package that commands have left half-written can be closed, for every *)
(* corpus, every reading and any number of commands, edits and failures.   *)
(*                                                                         *)
(* What must not be lost is in Closable: a reconciliation is of the two    *)
(* readings that are there and routes what they disagree on; a unit of the *)
(* baseline always has an adjudication, and that of a source cites nothing *)
(* but the readings; and final adjustments supersede adjudications that    *)
(* cite all of them.  None of this is said of the rows, the manifest or    *)
(* the acceptance: whatever a command has left there, bind writes anew.    *)
(***************************************************************************)
EXTENDS OntologyAuditProofs

\* None is nothing that the files hold.
NoneIsNothing ==
    /\ \A reviewer, found : None # [reviewer |-> reviewer, found |-> found]
    /\ \A baseline, final, done :
          None # [baseline |-> baseline, final |-> final, done |-> done]
    /\ \A state, action, findings, by :
          None # [state |-> state, action |-> action, findings |-> findings, by |-> by]
    /\ \A reviewer, agreed, routed :
          None # [reviewer |-> reviewer, agreed |-> agreed, routed |-> routed]
    /\ \A regeneration, evidence, adjustments :
          None # [regeneration |-> regeneration, evidence |-> evidence,
                  adjustments |-> adjustments]

\* Readers report on records of the package that they were given.
ReadingsAreOfBaseline ==
    \A found \in Readings : \A f \in found : f.target = "records" => Baseline["records"] # None

-----------------------------------------------------------------------------
(* The invariant.                                                          *)

\* What the readings say of the target.
Raised(d, t) == {f \in Reported(d) : f.target = t}

IsReconciliation(r) == r = [reviewer |-> r.reviewer, agreed |-> r.agreed, routed |-> r.routed]

\* Nobody reconciles readings that are not there, or reconciles his own, and
\* what was routed is what was found.
Reconciled(d) ==
    d.sources.reconciliation # None =>
        LET r == d.sources.reconciliation
        IN  /\ Complete(d)
            /\ d.sources.primary.reviewer # d.sources.independent.reviewer
            /\ r.reviewer \notin {d.sources[pass].reviewer : pass \in Passes}
            /\ r.agreed = Agreed(d)
            /\ r.routed = IF Agreed(d) THEN {} ELSE {t \in Targets : Raised(d, t) # {}}
            /\ IsReconciliation(r)

\* The units of the baseline have adjudications; one of a source comes from a
\* disagreement, and cites the readings only.
Decidable(d, adjudications) ==
    /\ \A p \in Parts : Baseline[p] # None => adjudications[p] # None
    /\ adjudications["source"] # None =>
          /\ Complete(d) /\ ~Agreed(d)
          /\ adjudications["source"].state \in {"pending", "complete"}
          /\ adjudications["source"].findings \subseteq Raised(d, "source")

\* The adjudications cite the readings, all of them.
Cites(d, adjudications) ==
    \A t \in Targets : IF adjudications[t] = None THEN Raised(d, t) = {}
                       ELSE adjudications[t].findings = Raised(d, t)

\* So do those of the package that the adjustments a preserve, and the
\* adjustments supersede these.
Preserved(d, a) ==
    LET adjudications == a.acceptance.manifest.partitions.adjudications
    IN  /\ Complete(d)
        /\ Cites(d, adjudications)
        /\ \A p \in DOMAIN a.decisions : a.decisions[p].superseded = adjudications[p]

Closable ==
    /\ disk.findings \subseteq Reported(disk)
    /\ Reconciled(disk)
    /\ Decidable(disk, disk.adjudications)
    /\ proc.pc \in BindSteps => Decidable(disk, proc.staged.adjudications)
    /\ At("adjudications") => Complete(disk)
    /\ artifact # None => Preserved(disk, artifact)

CInv == Inv /\ Closable

-----------------------------------------------------------------------------
(* Readings.                                                               *)

LEMMA SameSources ==
    ASSUME NEW d, NEW e, e.sources = d.sources
    PROVE  /\ Reported(e) = Reported(d)
           /\ Complete(e) <=> Complete(d)
           /\ Agreed(e) <=> Agreed(d)
           /\ \A t : Raised(e, t) = Raised(d, t)
<1>1. Reported(e) = Reported(d)
  BY DEF Reported
<1>2. (Complete(e) <=> Complete(d)) /\ (Agreed(e) <=> Agreed(d))
  BY DEF Complete, Agreed
<1> QED BY <1>1, <1>2 DEF Raised

\* The part of the invariant that is about the sources alone.
LEMMA SameReadings ==
    ASSUME NEW d, NEW e, e.sources = d.sources, NEW x, NEW a
    PROVE  /\ Reconciled(d) => Reconciled(e)
           /\ Decidable(d, x) => Decidable(e, x)
           /\ Cites(d, x) => Cites(e, x)
           /\ Preserved(d, a) => Preserved(e, a)
<1>1. /\ Complete(e) <=> Complete(d)
      /\ Agreed(e) = Agreed(d)
      /\ \A t : Raised(e, t) = Raised(d, t)
  BY SameSources DEF Agreed
<1>2. Reconciled(d) => Reconciled(e)
  BY <1>1 DEF Reconciled
<1>3. Decidable(d, x) => Decidable(e, x)
  BY <1>1 DEF Decidable
<1>4. \A y : Cites(d, y) => Cites(e, y)
  BY <1>1 DEF Cites
<1>5. Preserved(d, a) => Preserved(e, a)
  BY <1>1, <1>4 DEF Preserved
<1> QED BY <1>2, <1>3, <1>4, <1>5

\* A reading is about a record of the baseline or the source.
LEMMA RaisedOn ==
    ASSUME ReadingsAreOfBaseline, NEW d, \A pass \in Passes : d.sources[pass] \in PassEntries,
           NEW p \in Parts, Raised(d, p) # {}
    PROVE  Baseline[p] # None
<1>1. PICK f \in Reported(d) : f.target = p
  BY DEF Raised
<1>2. PICK pass \in Passes : d.sources[pass] # None /\ f \in Found(pass, d.sources[pass])
  BY <1>1 DEF Reported
<1>3. PICK g \in d.sources[pass].found : f = [pass |-> pass, target |-> g.target,
                                             action |-> g.action]
  BY <1>2 DEF Found
<1>4. d.sources[pass].found \in Readings
  BY <1>2 DEF PassEntries
<1>5. g.target = p /\ g.target \in {"records", "source"}
  BY <1>1, <1>3, <1>4, ReadingAssumption
<1>6. p = "records"
  BY <1>5 DEF Parts
<1> QED BY <1>3, <1>4, <1>5, <1>6 DEF ReadingsAreOfBaseline

\* Readers who disagree have found something.
LEMMA DisagreementIsRaised ==
    ASSUME NEW d, \A pass \in Passes : d.sources[pass] \in PassEntries, Complete(d), ~Agreed(d)
    PROVE  \E t \in Targets : Raised(d, t) # {}
<1>1. ASSUME NEW pass \in Passes, NEW g \in d.sources[pass].found
      PROVE  \E t \in Targets : Raised(d, t) # {}
  <2> DEFINE f == [pass |-> pass, target |-> g.target, action |-> g.action]
  <2>1. d.sources[pass] # None /\ d.sources[pass].found \in Readings
    BY <1>1 DEF Complete, PassEntries
  <2>2. g.target \in Targets
    BY <1>1, <2>1, ReadingAssumption DEF Targets, Parts
  <2>3. f \in Reported(d)
    BY <1>1, <2>1 DEF Reported, Found
  <2>4. f.target = g.target
    OBVIOUS
  <2> HIDE DEF f
  <2>5. f \in Raised(d, g.target)
    BY <2>3, <2>4 DEF Raised
  <2> QED BY <2>2, <2>5
<1>2. \E g : \/ g \in d.sources.primary.found
             \/ g \in d.sources.independent.found
  BY Zenon DEF Agreed
<1>3. d.sources["primary"] = d.sources.primary /\ d.sources["independent"] = d.sources.independent
  OBVIOUS
<1> QED BY <1>1, <1>2, <1>3 DEF Passes

\* A unit that the readings are about can be decided on; the source can once
\* something of it was routed.
LEMMA RoutedHas ==
    ASSUME NoneIsNothing, ReadingsAreOfBaseline, NEW d,
           \A pass \in Passes : d.sources[pass] \in PassEntries,
           IsAdjudications(d.adjudications), Decidable(d, d.adjudications), ~Agreed(d)
    PROVE  /\ \A p \in Parts : Baseline[p] # None => Routed(d)[p] # None
           /\ \A t \in Targets : Raised(d, t) # {} => Routed(d)[t] # None
           /\ d.adjudications["source"] # None => Routed(d)["source"] # None
           /\ Routed(d)["source"] # None =>
                 /\ Routed(d)["source"].state \in {"pending", "complete"}
                 /\ Routed(d)["source"].findings = Raised(d, "source")
<1> DEFINE old(t) == IF t = "source" /\ Raised(d, t) # {} /\ d.adjudications[t] = None
                     THEN Open ELSE d.adjudications[t]
           new(t) == IF old(t) = None THEN None
                     ELSE [old(t) EXCEPT !.findings = @ \cup Raised(d, t)]
<1>1. Routed(d) = [t \in Targets |-> new(t)]
  BY DEF Routed, Raised
<1>2. \A t \in Targets : old(t) = None \/ IsAdjudication(old(t))
  BY DEF IsAdjudications, IsAdjudication, Open
<1>3. Open # None
  BY DEF Open, NoneIsNothing
<1>4. \A t \in Targets : d.adjudications[t] # None => old(t) # None
  OBVIOUS
<1>5. \A p \in Parts : p \in Targets /\ (Baseline[p] # None => old(p) # None)
  BY <1>4 DEF Decidable, Parts, Targets
<1>6. \A t \in Targets : Raised(d, t) # {} => old(t) # None
  <2>1. \A p \in Parts : Raised(d, p) # {} => Baseline[p] # None
    BY RaisedOn
  <2>2. Raised(d, "source") # {} => old("source") # None
    BY <1>3
  <2> QED BY <1>5, <2>1, <2>2 DEF Targets
<1>7. old("source") # None =>
          /\ old("source").state \in {"pending", "complete"}
          /\ old("source").findings \cup Raised(d, "source") = Raised(d, "source")
  <2>1. CASE old("source") = Open
    BY <2>1 DEF Open
  <2>2. CASE old("source") = d.adjudications["source"]
    BY <2>2 DEF Decidable
  <2> QED BY <2>1, <2>2
<1> HIDE DEF old
<1>8. ASSUME NEW t \in Targets, old(t) # None
      PROVE  /\ new(t) # None /\ new(t).state = old(t).state
             /\ new(t).findings = old(t).findings \cup Raised(d, t)
  <2> DEFINE more == old(t).findings \cup Raised(d, t)
  <2>1. IsAdjudication(old(t))
    BY <1>2, <1>8
  <2>2. new(t) = [old(t) EXCEPT !.findings = more]
    BY <1>8
  <2> HIDE DEF more
  <2>3. new(t) = [state |-> old(t).state, action |-> old(t).action, findings |-> more,
                  by |-> old(t).by]
    BY <2>1, <2>2 DEF IsAdjudication
  <2>4. new(t) # None
    BY <2>3 DEF NoneIsNothing
  <2> QED BY <2>3, <2>4 DEF more
<1>9. "source" \in Targets /\ (new("source") # None => old("source") # None)
  BY DEF Targets
<1> HIDE DEF new
<1>10. \A t \in Targets : Routed(d)[t] = new(t)
  BY <1>1
<1> QED BY <1>4, <1>5, <1>6, <1>7, <1>8, <1>9, <1>10

\* What is routed is what was found.
LEMMA ReconciliationIs ==
    ASSUME NoneIsNothing, ReadingsAreOfBaseline, NEW d,
           \A pass \in Passes : d.sources[pass] \in PassEntries,
           IsAdjudications(d.adjudications), Decidable(d, d.adjudications), NEW reviewer
    PROVE  Reconciliation(d, reviewer) =
              [reviewer |-> reviewer, agreed |-> Agreed(d),
               routed |-> IF Agreed(d) THEN {} ELSE {t \in Targets : Raised(d, t) # {}}]
<1>1. CASE Agreed(d)
  BY <1>1 DEF Reconciliation
<1>2. CASE ~Agreed(d)
  <2>1. \A t \in Targets : (\E f \in Reported(d) : f.target = t) <=> Raised(d, t) # {}
    BY DEF Raised
  <2>2. \A t \in Targets : Raised(d, t) # {} => Routed(d)[t] # None
    BY <1>2, RoutedHas
  <2>3. {t \in Targets : /\ Routed(d)[t] # None
                         /\ \E f \in Reported(d) : f.target = t}
            = {t \in Targets : Raised(d, t) # {}}
    BY <2>1, <2>2
  <2> QED BY <1>2, <2>3 DEF Reconciliation
<1> QED BY <1>1, <1>2

\* What is routed can still be decided on.
LEMMA RoutedDecidable ==
    ASSUME NoneIsNothing, ReadingsAreOfBaseline, NEW d,
           \A pass \in Passes : d.sources[pass] \in PassEntries,
           IsAdjudications(d.adjudications), Decidable(d, d.adjudications), Complete(d)
    PROVE  Decidable(d, Routed(d))
<1>1. CASE Agreed(d)
  BY <1>1 DEF Routed
<1>2. CASE ~Agreed(d)
  <2>1. /\ \A p \in Parts : Baseline[p] # None => Routed(d)[p] # None
        /\ Routed(d)["source"] # None =>
              /\ Routed(d)["source"].state \in {"pending", "complete"}
              /\ Routed(d)["source"].findings = Raised(d, "source")
    BY <1>2, RoutedHas
  <2> QED BY <1>2, <2>1 DEF Decidable
<1> QED BY <1>1, <1>2

-----------------------------------------------------------------------------
(* What bind makes of a package.                                           *)

TerminalAdjudications(d, corpus) ==
    [t \in Targets |-> TerminalAdjudication(d, Merged(d, corpus), t)]

Carried(d) == IF artifact # None THEN artifact ELSE Required(d)

BoundManifest(d, corpus) ==
    [audit |-> "pending",
     partitions |-> [sources |-> d.sources, findings |-> d.findings,
                     parts |-> Merged(d, corpus),
                     adjudications |-> TerminalAdjudications(d, corpus)],
     adjustments |-> Carried(d), protocol |-> protocol]

BoundAcceptance(d, corpus) ==
    [state |-> "pending", manifest |-> BoundManifest(d, corpus), digest |-> None,
     receipt |-> None, regeneration |-> None, adjustments |-> Carried(d)]

LEMMA BoundPackage ==
    ASSUME NEW d, IsPackage(d), NEW corpus
    PROVE  BindCandidate(d, corpus) =
              Package(d.sources, d.findings, Merged(d, corpus),
                      TerminalAdjudications(d, corpus), BoundManifest(d, corpus),
                      BoundAcceptance(d, corpus), d.regeneration, d.evidence, d.receipt)
<1> DEFINE rows == Merged(d, corpus)
           x == [t \in Targets |-> TerminalAdjudication(d, rows, t)]
           adjustments == Carried(d)
           b == [d EXCEPT !.parts = rows]
           e == [b EXCEPT !.adjudications = x]
           m == Described(e, "pending", adjustments)
           p == Pending(d.acceptance)
           a == [p EXCEPT !.manifest = m, !.adjustments = adjustments]
           f == [e EXCEPT !.manifest = m]
           c == [f EXCEPT !.acceptance = a]
<1>1. BindCandidate(d, corpus) = c
  BY DEF BindCandidate, Carried
<1>2. x = TerminalAdjudications(d, corpus)
  BY DEF TerminalAdjudications
<1> HIDE DEF rows, x
<1>3. b = Package(d.sources, d.findings, rows, d.adjudications, d.manifest, d.acceptance,
                  d.regeneration, d.evidence, d.receipt)
  BY PackageFields, Zenon
<1> HIDE DEF b
<1>4. e = Package(d.sources, d.findings, rows, x, d.manifest, d.acceptance,
                  d.regeneration, d.evidence, d.receipt)
  BY <1>3 DEF Package
<1> HIDE DEF e
<1>5. m = BoundManifest(d, corpus)
  BY <1>2, <1>4 DEF Described, Content, Package, BoundManifest, rows
<1> HIDE DEF m
<1>6. p = [state |-> "pending", manifest |-> p.manifest, digest |-> None, receipt |-> None,
           regeneration |-> None, adjustments |-> p.adjustments]
  BY DEF Pending
<1>7. a = [state |-> p.state, manifest |-> m, digest |-> p.digest, receipt |-> p.receipt,
           regeneration |-> p.regeneration, adjustments |-> adjustments]
  <2>1. IsAcceptance(p)
    BY PendingIsUnaccepted DEF Unaccepted
  <2> HIDE DEF p, adjustments
  <2> QED BY <2>1, AcceptanceWith, Zenon
<1>8. a = BoundAcceptance(d, corpus)
  BY <1>5, <1>6, <1>7 DEF BoundAcceptance
<1> HIDE DEF a
<1>9. f = Package(d.sources, d.findings, rows, x, m, d.acceptance,
                  d.regeneration, d.evidence, d.receipt)
  BY <1>4 DEF Package
<1> HIDE DEF f
<1>10. c = Package(d.sources, d.findings, rows, x, m, a,
                   d.regeneration, d.evidence, d.receipt)
  BY <1>9 DEF Package
<1> HIDE DEF c
<1> QED BY <1>1, <1>2, <1>5, <1>8, <1>10 DEF rows

\* The rows of the corpus.
LEMMA MergedRows ==
    ASSUME NoneIsNothing, NEW d, NEW corpus, NEW p \in Parts
    PROVE  /\ Final(Merged(d, corpus)[p]) = corpus[p]
           /\ Merged(d, corpus)[p] = None <=> Baseline[p] = None /\ corpus[p] = None
           /\ Merged(d, corpus)[p] # None =>
                 Merged(d, corpus)[p].final = corpus[p] /\ Merged(d, corpus)[p].done
<1>1. /\ Row(p, corpus[p], TRUE) # None
      /\ Row(p, corpus[p], TRUE).final = corpus[p] /\ Row(p, corpus[p], TRUE).done
  BY DEF Row, NoneIsNothing
<1>2. Merged(d, corpus)[p] = IF Baseline[p] = None /\ corpus[p] = None THEN None
                             ELSE Row(p, corpus[p], TRUE)
  BY DEF Merged
<1> HIDE DEF Merged, Row
<1> QED BY <1>1, <1>2 DEF Final

\* A unit is decided on by the adjustments or else by the review.
LEMMA TerminalOfPart ==
    ASSUME NoneIsNothing, NEW d, NEW rows, NEW p \in Parts
    PROVE  LET x   == TerminalAdjudication(d, rows, p)
               old == d.adjudications[p]
           IN  /\ rows[p] = None => x = None
               /\ rows[p] # None =>
                     /\ x # None /\ x.state = "complete"
                     /\ Decided(d, p) =>
                           /\ x.action = artifact.decisions[p].action
                           /\ x.by = "adjustment"
                           /\ x.findings = IF old = None THEN {} ELSE old.findings
                     /\ ~Decided(d, p) => x.findings = {f \in d.findings : f.target = p}
<1> DEFINE x        == TerminalAdjudication(d, rows, p)
           old      == d.adjudications[p]
           about    == {f \in d.findings : f.target = p}
           proposed == {f.action : f \in about}
           ruled(action, findings, by) ==
               [state |-> "complete", action |-> action, findings |-> findings, by |-> by]
           change   == Change(rows[p].baseline, rows[p].final)
           strongest == StrongestAction(proposed, change)
<1>1. p # "source"
  BY DEF Parts
<1>2. rows[p] = None => x = None
  BY <1>1 DEF TerminalAdjudication
<1>3. rows[p] # None /\ Decided(d, p) =>
          x = ruled(artifact.decisions[p].action, IF old = None THEN {} ELSE old.findings,
                    "adjustment")
  BY <1>1 DEF TerminalAdjudication
<1>4. rows[p] # None /\ ~Decided(d, p) => x = ruled(strongest, about, "review")
  BY <1>1 DEF TerminalAdjudication
<1>5. \A action, findings, by :
          /\ ruled(action, findings, by) # None
          /\ ruled(action, findings, by).state = "complete"
          /\ ruled(action, findings, by).action = action
          /\ ruled(action, findings, by).findings = findings
          /\ ruled(action, findings, by).by = by
  BY DEF NoneIsNothing
<1> HIDE DEF x, ruled, strongest
<1> QED BY <1>2, <1>3, <1>4, <1>5 DEF x

\* A source is decided on when something was routed to it.
LEMMA TerminalOfSource ==
    ASSUME NoneIsNothing, NEW d, NEW rows
    PROVE  LET x   == TerminalAdjudication(d, rows, "source")
               old == d.adjudications["source"]
           IN  /\ old = None => x = None
               /\ old # None => x # None
               /\ old # None /\ old.state = "pending" =>
                     /\ x.state = "complete"
                     /\ x.findings = {f \in d.findings : f.target = "source"}
               /\ old # None /\ old.state # "pending" => x = old
<1> DEFINE x        == TerminalAdjudication(d, rows, "source")
           old      == d.adjudications["source"]
           about    == {f \in d.findings : f.target = "source"}
           proposed == {f.action : f \in about}
           action   == IF "add" \in proposed THEN "add" ELSE "revise"
           ruled    == [state |-> "complete", action |-> action, findings |-> about,
                        by |-> "review"]
<1>1. old # None /\ old.state = "pending" => x = ruled
  BY DEF TerminalAdjudication
<1>2. ~(old # None /\ old.state = "pending") => x = old
  BY DEF TerminalAdjudication
<1> HIDE DEF action
<1>3. ruled # None /\ ruled.state = "complete" /\ ruled.findings = about
  BY DEF NoneIsNothing
<1> HIDE DEF x, ruled
<1> QED BY <1>1, <1>2, <1>3 DEF x

-----------------------------------------------------------------------------
(* One lemma for every action that writes what the invariant is about.     *)

LEMMA ClosableStep ==
    ASSUME Closable, disk'.sources = disk.sources, disk'.findings \subseteq Reported(disk),
           Decidable(disk, disk'.adjudications),
           proc'.pc \in BindSteps => Decidable(disk, proc'.staged.adjudications),
           proc'.pc = "adjudications" => Complete(disk),
           artifact' = artifact \/ artifact' = None
    PROVE  Closable'
<1>1. Reported(disk') = Reported(disk) /\ (Complete(disk') <=> Complete(disk))
  BY SameSources
<1>2. Reconciled(disk') /\ Decidable(disk', disk'.adjudications)
      /\ (proc'.pc \in BindSteps => Decidable(disk', proc'.staged.adjudications))
  BY SameReadings DEF Closable
<1>3. artifact' # None => Preserved(disk', artifact')
  BY SameReadings DEF Closable
<1>4. (proc.pc \in BindSteps)' <=> proc'.pc \in BindSteps
  BY DEF BindSteps
<1> QED BY <1>1, <1>2, <1>3, <1>4 DEF Closable, At

LEMMA ReviewFields ==
    ASSUME NEW d, IsPackage(d), NEW v, NEW e,
           \/ e = d
           \/ e = [d EXCEPT !.parts = v]
           \/ e = [d EXCEPT !.manifest = v]
           \/ e = [d EXCEPT !.acceptance = v]
           \/ e = [d EXCEPT !.regeneration = v]
           \/ e = [d EXCEPT !.evidence = v]
           \/ e = [d EXCEPT !.receipt = v]
    PROVE  /\ e.sources = d.sources /\ e.findings = d.findings
           /\ e.adjudications = d.adjudications
BY SMT DEF IsPackage, Package

\* A write of anything but the reviews and the adjudications.
LEMMA ClosableWrites ==
    ASSUME CInv, NEW v, NEW d, NEW pc, Write(d, pc),
           pc # "adjudications", pc \in BindSteps => proc.pc \in BindSteps,
           \/ d = disk
           \/ d = [disk EXCEPT !.parts = v]
           \/ d = [disk EXCEPT !.manifest = v]
           \/ d = [disk EXCEPT !.acceptance = v]
           \/ d = [disk EXCEPT !.regeneration = v]
           \/ d = [disk EXCEPT !.evidence = v]
           \/ d = [disk EXCEPT !.receipt = v]
    PROVE  Closable'
<1>1. Inv /\ Closable /\ IsPackage(disk)
  BY DEF CInv, Inv, Files
<1>2. /\ disk' = d /\ artifact' = artifact
      /\ proc'.pc = IF pc = "done" THEN "idle" ELSE pc
      /\ pc # "done" => proc'.staged = proc.staged
  BY <1>1, Writes
<1>3. /\ disk'.sources = disk.sources /\ disk'.findings = disk.findings
      /\ disk'.adjudications = disk.adjudications
  BY <1>1, <1>2, ReviewFields
<1>4. proc'.pc # "adjudications" /\
      (proc'.pc \in BindSteps => proc.pc \in BindSteps /\ proc'.staged = proc.staged)
  BY <1>2 DEF BindSteps
<1>5. disk'.findings \subseteq Reported(disk) /\ Decidable(disk, disk'.adjudications)
  BY <1>1, <1>3 DEF Closable
<1>6. proc'.pc \in BindSteps => Decidable(disk, proc'.staged.adjudications)
  BY <1>1, <1>4 DEF Closable
<1> QED BY <1>1, <1>2, <1>3, <1>4, <1>5, <1>6, ClosableStep

\* A step that leaves the files alone.
LEMMA ClosableAround ==
    ASSUME Closable, disk' = disk, artifact' = artifact \/ artifact' = None,
           proc'.pc \in BindSteps => proc' = proc,
           proc'.pc # "adjudications" \/ proc' = proc
    PROVE  Closable'
<1>1. disk'.findings \subseteq Reported(disk) /\ Decidable(disk, disk'.adjudications)
  BY DEF Closable
<1>2. proc'.pc \in BindSteps => Decidable(disk, proc'.staged.adjudications)
  BY DEF Closable
<1>3. proc'.pc = "adjudications" => Complete(disk)
  BY DEF Closable, At
<1> QED BY <1>1, <1>2, <1>3, ClosableStep

LEMMA QuietClosable ==
    ASSUME CInv,
           \/ RebindManifest \/ RebindAcceptance \/ Begin \/ BindVerify
           \/ Regenerate \/ WriteRegeneration \/ WriteReceipt \/ PublishAccept
    PROVE  Closable'
<1>1. CASE RebindManifest
  <2> DEFINE v == Described(disk, disk.manifest.audit, Required(disk))
  <2>1. Write([disk EXCEPT !.manifest = v], "rebind-acceptance")
    BY <1>1 DEF RebindManifest
  <2> HIDE DEF v
  <2> QED BY <2>1, ClosableWrites DEF BindSteps
<1>2. CASE RebindAcceptance
  <2> DEFINE v == [disk.acceptance EXCEPT !.manifest = disk.manifest,
                                          !.adjustments = disk.manifest.adjustments]
  <2>1. [disk EXCEPT !.acceptance.manifest = disk.manifest,
                     !.acceptance.adjustments = disk.manifest.adjustments]
          = [disk EXCEPT !.acceptance = v]
    BY DEF CInv, Inv, Files, IsPackage, Package
  <2>2. Write([disk EXCEPT !.acceptance = v], "done")
    BY <1>2, <2>1 DEF RebindAcceptance
  <2> HIDE DEF v
  <2> QED BY <2>2, ClosableWrites DEF BindSteps
<1>3. CASE Begin
  <2> DEFINE v  == IF disk.acceptance.state = "accepted" THEN Pending(disk.acceptance)
                                                         ELSE disk.acceptance
             pc == IF proc.cmd = "close" THEN "bind" ELSE "regenerate-one"
  <2>1. Write([disk EXCEPT !.acceptance = v], pc)
    BY <1>3 DEF Begin
  <2>2. pc \in {"bind", "regenerate-one"}
    OBVIOUS
  <2> HIDE DEF v, pc
  <2> QED BY <2>1, <2>2, ClosableWrites DEF BindSteps
<1>4. CASE BindVerify
  <2> DEFINE pc == IF proc.cmd = "close" THEN "regenerate-one" ELSE "done"
  <2>1. Write(disk, pc)
    BY <1>4 DEF BindVerify
  <2>2. pc \in {"done", "regenerate-one"}
    OBVIOUS
  <2> HIDE DEF pc
  <2> QED BY <2>1, <2>2, ClosableWrites DEF BindSteps
<1>5. CASE Regenerate
  <2> DEFINE v == Evidence(live)
  <2>1. \E pc \in {"prove-one", "prove-two"} : Write([disk EXCEPT !.evidence = v], pc)
    BY <1>5 DEF Regenerate
  <2> HIDE DEF v
  <2> QED BY <2>1, ClosableWrites DEF BindSteps
<1>6. CASE WriteRegeneration
  <2> DEFINE v  == proc.run
             pc == IF proc.cmd = "close" THEN "receipt" ELSE "done"
  <2>1. Write([disk EXCEPT !.regeneration = v], pc)
    BY <1>6 DEF WriteRegeneration
  <2>2. pc \in {"done", "receipt"}
    OBVIOUS
  <2> HIDE DEF v, pc
  <2> QED BY <2>1, <2>2, ClosableWrites DEF BindSteps
<1>7. CASE WriteReceipt
  <2> DEFINE v == [regeneration |-> disk.regeneration, evidence |-> disk.evidence,
                   adjustments |-> artifact]
  <2>1. Write([disk EXCEPT !.receipt = v], "accept")
    BY <1>7 DEF WriteReceipt
  <2> HIDE DEF v
  <2> QED BY <2>1, ClosableWrites DEF BindSteps
<1>8. CASE PublishAccept
  <2>1. \E v, d : \E pc \in {"accept-manifest", "accept-verify", "accept-acceptance",
                              "accept-published", "done"} :
            /\ Write(d, pc)
            /\ \/ d = disk
               \/ d = [disk EXCEPT !.manifest = v]
               \/ d = [disk EXCEPT !.acceptance = v]
    BY <1>8, PublishAcceptSteps DEF ToAccept
  <2> QED BY <2>1, ClosableWrites DEF BindSteps
<1> QED BY <1>1, <1>2, <1>3, <1>4, <1>5, <1>6, <1>7, <1>8

\* Until both readings are there, nothing rests on them; then they stay.
LEMMA ImportSourcesClosable ==
    ASSUME NoneIsNothing, CInv, ImportSources
    PROVE  Closable'
<1> DEFINE pass  == proc.input.pass
           entry == proc.input.entry
           s     == [disk.sources EXCEPT ![pass] = entry]
<1>1. /\ pass \in Passes /\ ImportAllowed(disk, pass, entry)
      /\ Write([disk EXCEPT !.sources = s], "findings")
  BY DEF ImportSources, CInv, Inv, Writing, Importing
<1>2. Inv /\ Closable /\ IsPackage(disk) /\ IsSources(disk.sources)
  BY DEF CInv, Inv, Files
<1> HIDE DEF pass, entry
<1>3. /\ s[pass] = entry /\ \A q \in Passes \ {pass} : s[q] = disk.sources[q]
      /\ disk.sources[pass] = entry => s = disk.sources
  BY <1>1, <1>2, SourcesWith
<1>4. s.reconciliation = disk.sources.reconciliation
  <2>1. pass # "reconciliation"
    BY <1>1 DEF Passes
  <2> QED BY <1>2, <2>1 DEF IsSources
<1> HIDE DEF s
<1>5. /\ disk' = [disk EXCEPT !.sources = s] /\ artifact' = artifact
      /\ proc'.pc = "findings"
  BY <1>1, <1>2, Writes
<1>6. disk' = Package(s, disk.findings, disk.parts, disk.adjudications, disk.manifest,
                      disk.acceptance, disk.regeneration, disk.evidence, disk.receipt)
  BY <1>2, <1>5, PackageFields, Zenon
<1>7. /\ disk'.sources = s /\ disk'.findings = disk.findings
      /\ disk'.adjudications = disk.adjudications
  BY <1>6 DEF Package
<1>8. ~(proc.pc \in BindSteps)' /\ ~At("adjudications")'
  BY <1>5 DEF BindSteps, At
<1>9. CASE disk.sources[pass] = entry
  <2>1. disk'.sources = disk.sources
    BY <1>3, <1>7, <1>9
  <2> QED BY <1>2, <1>5, <1>7, <1>8, <2>1, ClosableStep DEF Closable, BindSteps
<1>10. CASE disk.sources[pass] = None
  <2>1. ~Complete(disk)
    BY <1>1, <1>10 DEF Complete
  <2>2. /\ disk.sources.reconciliation = None /\ artifact = None
        /\ disk.adjudications["source"] = None
    BY <1>2, <2>1 DEF Closable, Reconciled, Decidable, Preserved
  <2>3. Reported(disk) \subseteq Reported(disk')
    <3>1. ASSUME NEW q \in Passes, disk.sources[q] # None
          PROVE  disk'.sources[q] = disk.sources[q]
      BY <1>3, <1>7, <1>10, <3>1
    <3> QED BY <3>1 DEF Reported
  <2>4. Reconciled(disk')
    BY <1>4, <1>7, <2>2 DEF Reconciled
  <2>5. Decidable(disk', disk'.adjudications)
    BY <1>2, <1>7, <2>2 DEF Closable, Decidable
  <2>6. disk'.findings \subseteq Reported(disk')
    BY <1>2, <1>7, <2>3 DEF Closable
  <2> QED BY <1>5, <1>8, <2>2, <2>4, <2>5, <2>6 DEF Closable
<1> QED BY <1>1, <1>9, <1>10 DEF ImportAllowed

\* The findings are of the readings.
LEMMA ImportFindingsClosable ==
    ASSUME NoneIsNothing, CInv, ImportFindings
    PROVE  Closable'
<1> DEFINE pass  == proc.input.pass
           entry == proc.input.entry
           f     == disk.findings \cup Found(pass, entry)
<1>1. /\ pass \in Passes /\ entry \in Entries /\ disk.sources[pass] = entry
      /\ Write([disk EXCEPT !.findings = f], "rebind-manifest")
  BY DEF ImportFindings, CInv, Inv, Writing, Importing
<1>2. Inv /\ Closable /\ IsPackage(disk)
  BY DEF CInv, Inv, Files
<1> HIDE DEF pass, entry
<1>3. f \subseteq Reported(disk)
  <2>1. entry # None
    BY <1>1 DEF Entries, NoneIsNothing
  <2>2. Found(pass, entry) \subseteq Reported(disk)
    BY <1>1, <2>1 DEF Reported
  <2> QED BY <1>2, <2>2 DEF Closable
<1> HIDE DEF f
<1>4. /\ disk' = [disk EXCEPT !.findings = f] /\ artifact' = artifact
      /\ proc'.pc = "rebind-manifest"
  BY <1>1, <1>2, Writes
<1>5. disk' = Package(disk.sources, f, disk.parts, disk.adjudications, disk.manifest,
                      disk.acceptance, disk.regeneration, disk.evidence, disk.receipt)
  BY <1>2, <1>4, PackageFields, Zenon
<1>6. /\ disk'.sources = disk.sources /\ disk'.findings = f
      /\ disk'.adjudications = disk.adjudications
  BY <1>5 DEF Package
<1> QED BY <1>2, <1>3, <1>4, <1>6, ClosableStep DEF Closable, BindSteps

\* A reconciliation is of two readings that stay.
LEMMA ReconcileSourcesClosable ==
    ASSUME NoneIsNothing, ReadingsAreOfBaseline, CInv, ReconcileSources
    PROVE  Closable'
<1> DEFINE reviewer == proc.input
           r == Reconciliation(disk, reviewer)
           s == [disk.sources EXCEPT !.reconciliation = r]
<1>1. ReconcileAllowed(disk, reviewer) /\ Write([disk EXCEPT !.sources = s], "adjudications")
  BY DEF ReconcileSources, CInv, Inv, Writing, Reconciling
<1>2. /\ Inv /\ Closable /\ IsPackage(disk) /\ IsSources(disk.sources)
      /\ \A pass \in Passes : disk.sources[pass] \in PassEntries
      /\ IsAdjudications(disk.adjudications) /\ Decidable(disk, disk.adjudications)
  BY DEF CInv, Inv, Files, Closable
<1> HIDE DEF reviewer
<1>3. r = [reviewer |-> reviewer, agreed |-> Agreed(disk),
           routed |-> IF Agreed(disk) THEN {} ELSE {t \in Targets : Raised(disk, t) # {}}]
  BY <1>2, ReconciliationIs
<1> HIDE DEF r
<1>4. /\ IsReconciliation(r) /\ r.reviewer = reviewer /\ r.agreed = Agreed(disk)
      /\ r.routed = IF Agreed(disk) THEN {} ELSE {t \in Targets : Raised(disk, t) # {}}
  BY <1>3 DEF IsReconciliation
<1>5. s = [primary |-> disk.sources.primary, independent |-> disk.sources.independent,
           reconciliation |-> r]
  BY <1>2 DEF IsSources
<1> HIDE DEF s
<1>6. /\ disk' = [disk EXCEPT !.sources = s] /\ artifact' = artifact
      /\ proc'.pc = "adjudications"
  BY <1>1, <1>2, Writes
<1>7. disk' = Package(s, disk.findings, disk.parts, disk.adjudications, disk.manifest,
                      disk.acceptance, disk.regeneration, disk.evidence, disk.receipt)
  BY <1>2, <1>6, PackageFields, Zenon
<1>8. /\ disk'.sources = s /\ disk'.findings = disk.findings
      /\ disk'.adjudications = disk.adjudications
  BY <1>7 DEF Package
<1>9. /\ s.primary = disk.sources.primary /\ s.independent = disk.sources.independent
      /\ s.reconciliation = r /\ \A pass \in Passes : s[pass] = disk.sources[pass]
  BY <1>5 DEF Passes
<1>10. /\ Reported(disk') = Reported(disk) /\ (Complete(disk') <=> Complete(disk))
       /\ Agreed(disk') = Agreed(disk)
       /\ \A t : Raised(disk', t) = Raised(disk, t)
  <2>1. Reported(disk') = Reported(disk)
    BY <1>8, <1>9 DEF Reported
  <2> QED BY <1>8, <1>9, <2>1 DEF Complete, Agreed, Raised
<1>11. Reconciled(disk')
  <2>1. disk'.sources.reconciliation = r
    BY <1>8, <1>9
  <2>2. Complete(disk') /\ disk'.sources.primary.reviewer # disk'.sources.independent.reviewer
    BY <1>1, <1>8, <1>9, <1>10 DEF ReconcileAllowed
  <2>3. r.reviewer \notin {disk'.sources[pass].reviewer : pass \in Passes}
    <3>1. reviewer \notin {disk.sources[pass].reviewer : pass \in Passes}
      BY <1>1 DEF ReconcileAllowed
    <3>2. \A pass \in Passes : disk'.sources[pass] = disk.sources[pass]
      BY <1>8, <1>9
    <3> QED BY <1>4, <3>1, <3>2
  <2>4. r.agreed = Agreed(disk')
    BY <1>4, <1>10
  <2>5. r.routed = IF Agreed(disk') THEN {} ELSE {t \in Targets : Raised(disk', t) # {}}
    BY <1>4, <1>10
  <2> QED BY <1>4, <2>1, <2>2, <2>3, <2>4, <2>5 DEF Reconciled
<1>12. Decidable(disk', disk'.adjudications)
  BY <1>2, <1>8, <1>10 DEF Decidable
<1>13. artifact' # None => Preserved(disk', artifact')
  BY <1>2, <1>6, <1>10 DEF Closable, Preserved, Cites
<1>14. Complete(disk') /\ disk'.findings \subseteq Reported(disk')
  BY <1>1, <1>2, <1>8, <1>10 DEF ReconcileAllowed, Closable
<1>15. ~(proc.pc \in BindSteps)'
  BY <1>6 DEF BindSteps
<1> QED BY <1>11, <1>12, <1>13, <1>14, <1>15 DEF Closable

LEMMA ReconcileAdjudicationsClosable ==
    ASSUME NoneIsNothing, ReadingsAreOfBaseline, CInv, ReconcileAdjudications
    PROVE  Closable'
<1> DEFINE x == Routed(disk)
<1>1. At("adjudications") /\ Write([disk EXCEPT !.adjudications = x], "rebind-manifest")
  BY DEF ReconcileAdjudications
<1>2. /\ Inv /\ Closable /\ IsPackage(disk) /\ Complete(disk)
      /\ \A pass \in Passes : disk.sources[pass] \in PassEntries
      /\ IsAdjudications(disk.adjudications) /\ Decidable(disk, disk.adjudications)
  BY <1>1 DEF CInv, Inv, Files, Closable
<1>3. Decidable(disk, x)
  BY <1>2, RoutedDecidable
<1> HIDE DEF x
<1>4. /\ disk' = [disk EXCEPT !.adjudications = x] /\ artifact' = artifact
      /\ proc'.pc = "rebind-manifest"
  BY <1>1, <1>2, Writes
<1>5. disk' = Package(disk.sources, disk.findings, disk.parts, x, disk.manifest,
                      disk.acceptance, disk.regeneration, disk.evidence, disk.receipt)
  BY <1>2, <1>4, PackageFields, Zenon
<1>6. /\ disk'.sources = disk.sources /\ disk'.findings = disk.findings
      /\ disk'.adjudications = x
  BY <1>5 DEF Package
<1> QED BY <1>2, <1>3, <1>4, <1>6, ClosableStep DEF Closable, BindSteps

\* What bind decides can be decided on again.
LEMMA TerminalDecidable ==
    ASSUME NoneIsNothing, NEW d, Decidable(d, d.adjudications), d.findings \subseteq Reported(d),
           NEW corpus
    PROVE  Decidable(d, TerminalAdjudications(d, corpus))
<1> DEFINE rows == Merged(d, corpus)
           x(t) == TerminalAdjudication(d, rows, t)
           old  == d.adjudications["source"]
<1>1. \A t \in Targets : TerminalAdjudications(d, corpus)[t] = x(t)
  BY DEF TerminalAdjudications
<1>2. "source" \in Targets /\ Parts \subseteq Targets
  BY DEF Targets
<1>3. \A p \in Parts : Baseline[p] # None => x(p) # None
  <2>1. \A p \in Parts : Baseline[p] # None => rows[p] # None
    BY MergedRows
  <2> HIDE DEF rows
  <2>2. \A p \in Parts : rows[p] # None => x(p) # None
    BY TerminalOfPart
  <2> QED BY <2>1, <2>2
<1>4. /\ old = None => x("source") = None
      /\ old # None /\ old.state = "pending" =>
            /\ x("source").state = "complete"
            /\ x("source").findings = {f \in d.findings : f.target = "source"}
      /\ old # None /\ old.state # "pending" => x("source") = old
  BY TerminalOfSource
<1>5. {f \in d.findings : f.target = "source"} \subseteq Raised(d, "source")
  BY DEF Raised
<1> HIDE DEF x
<1> QED BY <1>1, <1>2, <1>3, <1>4, <1>5 DEF Decidable

LEMMA StageBindClosable ==
    ASSUME NoneIsNothing, CInv, StageBind
    PROVE  Closable'
<1> DEFINE c == BindCandidate(disk, live)
<1>1. Inv /\ Closable /\ IsPackage(disk) /\ Stage(c, "bind-transition")
  BY DEF StageBind, CInv, Inv, Files
<1>2. Decidable(disk, TerminalAdjudications(disk, live))
  BY <1>1, TerminalDecidable DEF Closable
<1>3. c.adjudications = TerminalAdjudications(disk, live)
  <2>1. c = Package(disk.sources, disk.findings, Merged(disk, live),
                    TerminalAdjudications(disk, live), BoundManifest(disk, live),
                    BoundAcceptance(disk, live), disk.regeneration, disk.evidence,
                    disk.receipt)
    BY <1>1, BoundPackage, Zenon
  <2> HIDE DEF c
  <2> QED BY <2>1 DEF Package
<1> HIDE DEF c
<1>4. /\ disk' = disk /\ artifact' = artifact
      /\ proc'.pc = "bind-transition" /\ proc'.staged = c
  BY <1>1, Stages
<1> QED BY <1>1, <1>2, <1>3, <1>4, ClosableStep DEF Closable

LEMMA PublishBindClosable ==
    ASSUME CInv, PublishBind
    PROVE  Closable'
<1>1. CASE \E v, d : \E pc \in BindSteps \cup {"bind-verify"} :
              /\ proc.pc \in BindSteps
              /\ Write(d, pc)
              /\ \/ d = [disk EXCEPT !.parts = v]
                 \/ d = [disk EXCEPT !.manifest = v]
                 \/ d = [disk EXCEPT !.acceptance = v]
  BY <1>1, ClosableWrites DEF BindSteps
<1>2. ASSUME At("bind-adjudications"),
             Write([disk EXCEPT !.adjudications = proc.staged.adjudications], "bind-manifest")
      PROVE  Closable'
  <2> DEFINE x == proc.staged.adjudications
  <2>1. Inv /\ Closable /\ IsPackage(disk) /\ Decidable(disk, x)
    BY <1>2 DEF CInv, Inv, Files, Closable, At, BindSteps
  <2>2. /\ disk' = [disk EXCEPT !.adjudications = x] /\ artifact' = artifact
        /\ proc'.pc = "bind-manifest" /\ proc'.staged.adjudications = x
    BY <1>2, <2>1, Writes
  <2> HIDE DEF x
  <2>3. disk' = Package(disk.sources, disk.findings, disk.parts, x, disk.manifest,
                        disk.acceptance, disk.regeneration, disk.evidence, disk.receipt)
    BY <2>1, <2>2, PackageFields, Zenon
  <2>4. /\ disk'.sources = disk.sources /\ disk'.findings = disk.findings
        /\ disk'.adjudications = x
    BY <2>3 DEF Package
  <2> QED BY <2>1, <2>2, <2>4, ClosableStep DEF Closable
<1>3. \A p : [disk EXCEPT !.parts[p] = proc.staged.parts[p]] =
               [disk EXCEPT !.parts = [disk.parts EXCEPT ![p] = proc.staged.parts[p]]]
  BY DEF CInv, Inv, Files, IsPackage, Package
<1>4. ASSUME NEW v, NEW d, NEW pc \in BindSteps \cup {"bind-verify"},
             proc.pc \in BindSteps, Write(d, pc),
             \/ d = [disk EXCEPT !.parts = v]
             \/ d = [disk EXCEPT !.manifest = v]
             \/ d = [disk EXCEPT !.acceptance = v]
      PROVE  Closable'
  BY <1>1, <1>4
<1>5. ASSUME NEW p, NEW pc \in BindSteps, proc.pc \in BindSteps,
             Write([disk EXCEPT !.parts[p] = proc.staged.parts[p]], pc)
      PROVE  Closable'
  <2> DEFINE v == [disk.parts EXCEPT ![p] = proc.staged.parts[p]]
  <2>1. Write([disk EXCEPT !.parts = v], pc)
    BY <1>3, <1>5
  <2> HIDE DEF v
  <2> QED BY <1>4, <1>5, <2>1
<1>6. CASE At("bind-transition") /\ Write([disk EXCEPT !.acceptance = proc.before], "bind-records")
  BY <1>4, <1>6 DEF At, BindSteps
<1>7. CASE At("bind-records")
           /\ Write([disk EXCEPT !.parts["records"] = proc.staged.parts["records"]], "bind-graphs")
  BY <1>5, <1>7 DEF At, BindSteps
<1>8. CASE At("bind-graphs")
           /\ Write([disk EXCEPT !.parts["graphs"] = proc.staged.parts["graphs"]],
                    "bind-adjudications")
  BY <1>5, <1>8 DEF At, BindSteps
<1>9. CASE At("bind-manifest")
           /\ Write([disk EXCEPT !.manifest = proc.staged.manifest], "bind-acceptance")
  BY <1>4, <1>9 DEF At, BindSteps
<1>10. CASE At("bind-acceptance")
            /\ Write([disk EXCEPT !.acceptance = proc.staged.acceptance], "bind-verify")
  BY <1>4, <1>10 DEF At, BindSteps
<1> QED BY <1>2, <1>6, <1>7, <1>8, <1>9, <1>10, PublishBindSteps

\* Adjustments are authored on an accepted package: it cites all its readings.
LEMMA AuthorClosable ==
    ASSUME CInv, AuthorAdjustments
    PROVE  Closable'
<1>1. Inv /\ Closable /\ disk.acceptance.state = "accepted" /\ UNCHANGED <<disk, proc>>
  BY AuthoredDecisions DEF CInv, AuthorAdjustments
<1>2. Backed(disk) /\ Reviewed(disk)
  BY <1>1 DEF Inv, AcceptedIsEarned
<1>3. /\ artifact'.acceptance = disk.acceptance
      /\ \A p \in DOMAIN artifact'.decisions :
            artifact'.decisions[p].superseded = disk.adjudications[p]
  <2>1. PICK decided \in SUBSET Parts :
            artifact' = [acceptance |-> disk.acceptance,
                         decisions  |-> [p \in decided |->
                              [action     |-> ExpectedAction(Final(disk.parts[p]), live[p]),
                               prior      |-> Final(disk.parts[p]),
                               expected   |-> live[p],
                               superseded |-> disk.adjudications[p]]]]
    BY DEF AuthorAdjustments
  <2> DEFINE decisions == [p \in decided |->
                              [action     |-> ExpectedAction(Final(disk.parts[p]), live[p]),
                               prior      |-> Final(disk.parts[p]),
                               expected   |-> live[p],
                               superseded |-> disk.adjudications[p]]]
  <2>2. \A p \in DOMAIN decisions : decisions[p].superseded = disk.adjudications[p]
    OBVIOUS
  <2>3. artifact'.acceptance = disk.acceptance /\ artifact'.decisions = decisions
    BY <2>1
  <2> HIDE DEF decisions
  <2> QED BY <2>2, <2>3
<1>4. disk.acceptance.manifest.partitions.adjudications = disk.adjudications
  BY <1>2 DEF Backed, Content
<1>5. Complete(disk)
  BY <1>2 DEF Reviewed, WorkComplete
<1>6. Cites(disk, disk.adjudications)
  <2>1. disk.findings = Reported(disk)
    BY <1>1, <1>2 DEF Closable, Reviewed, PassesReviewed
  <2>2. /\ \A f \in disk.findings : disk.adjudications[f.target] # None
                                    /\ f \in disk.adjudications[f.target].findings
        /\ \A t \in Targets : disk.adjudications[t] # None =>
              \A f \in disk.adjudications[t].findings : f \in disk.findings /\ f.target = t
    BY <1>2 DEF Reviewed, FindingsCited
  <2>3. ASSUME NEW t \in Targets, disk.adjudications[t] = None PROVE Raised(disk, t) = {}
    BY <2>1, <2>2, <2>3 DEF Raised
  <2>4. ASSUME NEW t \in Targets, disk.adjudications[t] # None
        PROVE  disk.adjudications[t].findings = Raised(disk, t)
    BY <2>1, <2>2, <2>4 DEF Raised
  <2> QED BY <2>3, <2>4 DEF Cites
<1>7. Preserved(disk, artifact')
  BY <1>3, <1>4, <1>5, <1>6 DEF Preserved
<1>8. Preserved(disk', artifact')
  BY <1>1, <1>7
<1> QED BY <1>1, <1>8 DEF Closable, At

\* The command goes on, starts or ends, and the files are as they were.
LEMMA AroundClosable ==
    ASSUME CInv,
           \/ ProveRun \/ StageAccept \/ Die
           \/ EditCorpus \/ EditProtocol \/ RemoveAdjustments
           \/ \E cmd, input : \E pc \in {"sources", "bind", "begin"} : Start(cmd, input, pc)
    PROVE  Closable'
<1>1. Inv /\ Closable
  BY DEF CInv
<1>2. CASE ProveRun
  <2> DEFINE pc == IF At("prove-one") THEN "regenerate-two" ELSE "regeneration"
             p1 == [proc EXCEPT !.run = live]
  <2>1. /\ proc.pc \in {"prove-one", "prove-two"} /\ UNCHANGED <<disk, artifact>>
    BY <1>2 DEF ProveRun
  <2>2. p1 = [pc |-> proc.pc, cmd |-> proc.cmd, input |-> proc.input,
              staged |-> proc.staged, before |-> proc.before, run |-> live]
    BY <1>1 DEF Inv, Command
  <2>3. proc' = [p1 EXCEPT !.pc = pc]
    BY <1>2, <2>2 DEF ProveRun, At
  <2>4. pc \in {"regenerate-two", "regeneration"}
    OBVIOUS
  <2> HIDE DEF pc, p1
  <2>5. proc'.pc = pc
    BY <2>2, <2>3
  <2> QED BY <1>1, <2>1, <2>4, <2>5, ClosableAround DEF BindSteps
<1>3. CASE StageAccept
  <2> DEFINE c == AcceptCandidate(disk, live, proc.run)
  <2>1. Stage(c, "accept-transition")
    BY <1>3 DEF StageAccept
  <2> HIDE DEF c
  <2>2. UNCHANGED <<disk, artifact>> /\ proc'.pc = "accept-transition"
    BY <1>1, <2>1, Stages
  <2> QED BY <1>1, <2>2, ClosableAround DEF BindSteps
<1>4. CASE Die
  <2>1. UNCHANGED <<disk, artifact>> /\ proc'.pc = "idle"
    BY <1>4 DEF Die, Stop, Idle
  <2> QED BY <1>1, <2>1, ClosableAround DEF BindSteps
<1>5. CASE EditCorpus \/ EditProtocol \/ RemoveAdjustments
  <2>1. UNCHANGED <<disk, proc>> /\ (artifact' = artifact \/ artifact' = None)
    BY <1>5 DEF EditCorpus, EditProtocol, RemoveAdjustments, Edit
  <2> QED BY <1>1, <2>1, ClosableAround
<1>6. ASSUME NEW cmd, NEW input, NEW pc \in {"sources", "bind", "begin"},
             Start(cmd, input, pc)
      PROVE  Closable'
  <2>1. proc' = [pc |-> pc, cmd |-> cmd, input |-> input, staged |-> None,
                 before |-> None, run |-> None]
    BY <1>6 DEF Start, Idle
  <2>2. UNCHANGED <<disk, artifact>> /\ proc'.pc = pc
    BY <1>6, <2>1 DEF Start
  <2> QED BY <1>1, <1>6, <2>2, ClosableAround DEF BindSteps
<1> QED BY <1>2, <1>3, <1>4, <1>5, <1>6

LEMMA FailClosable ==
    ASSUME CInv, Fail
    PROVE  Closable'
<1>1. Inv /\ Closable /\ IsPackage(disk)
  BY DEF CInv, Inv, Files
<1>2. \E v : disk' = disk \/ disk' = [disk EXCEPT !.acceptance = v]
  BY DEF Fail, Stop
<1>3. /\ disk'.sources = disk.sources /\ disk'.findings = disk.findings
      /\ disk'.adjudications = disk.adjudications
  BY <1>1, <1>2, ReviewFields
<1>4. artifact' = artifact /\ proc'.pc = "idle"
  BY DEF Fail, Stop, Idle
<1> QED BY <1>1, <1>3, <1>4, ClosableStep DEF Closable, BindSteps

LEMMA InitClosable ==
    ASSUME NoneIsNothing, Init
    PROVE  Closable
<1>1. /\ disk.sources = [primary |-> None, independent |-> None, reconciliation |-> None]
      /\ disk.findings = {} /\ artifact = None /\ proc.pc = "idle"
      /\ disk.adjudications = [t \in Targets |->
                           IF t \in Parts /\ Baseline[t] # None THEN Open ELSE None]
  BY DEF Init, Generated, Idle
<1>2. Reconciled(disk)
  BY <1>1 DEF Reconciled
<1>3. Decidable(disk, disk.adjudications)
  <2>1. Open # None
    BY DEF Open, NoneIsNothing
  <2>2. disk.adjudications["source"] = None
    BY <1>1 DEF Targets, Parts
  <2>3. \A p \in Parts : Baseline[p] # None => disk.adjudications[p] # None
    BY <1>1, <2>1 DEF Targets
  <2> QED BY <2>2, <2>3 DEF Decidable
<1> QED BY <1>1, <1>2, <1>3 DEF Closable, At, BindSteps

LEMMA NextCInv ==
    ASSUME NoneIsNothing, ReadingsAreOfBaseline, CInv, [Next]_vars
    PROVE  CInv'
<1>1. Inv'
  BY NextInv DEF CInv
<1>2. CASE UNCHANGED vars
  BY <1>1, <1>2, ClosableAround DEF CInv, vars
<1>3. CASE \/ \E pass \in Passes, reviewer \in Reviewers, found \in Readings :
                 StartImport(pass, Pass(reviewer, found))
           \/ \E reviewer \in Reviewers : StartReconcile(reviewer)
           \/ StartBind \/ StartRegenerate \/ StartClose
  <2>1. \E cmd, input : \E pc \in {"sources", "bind", "begin"} : Start(cmd, input, pc)
    BY <1>3 DEF StartImport, StartReconcile, StartBind, StartRegenerate, StartClose
  <2> QED BY <1>1, <2>1, AroundClosable DEF CInv
<1> QED BY <1>1, <1>2, <1>3, ImportSourcesClosable, ImportFindingsClosable,
           ReconcileSourcesClosable, ReconcileAdjudicationsClosable, QuietClosable,
           StageBindClosable, PublishBindClosable, AuthorClosable, AroundClosable,
           FailClosable DEF Next, CInv

-----------------------------------------------------------------------------
(* The commands, run again.                                                *)

\* What the two imports and the reconciliation make of a package.
Redoable(d) ==
    /\ Files(d)
    /\ Complete(d) /\ d.findings = Reported(d)
    /\ d.sources.reconciliation # None /\ Reconciled(d)
    /\ Decidable(d, d.adjudications)
    /\ ~Agreed(d) => \A t \in Targets : Raised(d, t) # {} => d.adjudications[t] # None
    /\ IF d.adjudications["source"] = None THEN Raised(d, "source") = {}
       ELSE d.adjudications["source"].findings = Raised(d, "source")
    /\ artifact # None => Preserved(d, artifact)

LEMMA SameRouted ==
    ASSUME NEW d, NEW e, e.sources = d.sources, e.adjudications = d.adjudications
    PROVE  Routed(e) = Routed(d)
<1>1. Reported(e) = Reported(d) /\ Agreed(e) = Agreed(d)
  BY SameSources DEF Agreed
<1> QED BY <1>1 DEF Routed

LEMMA RedonePackage ==
    ASSUME NEW d, IsPackage(d)
    PROVE  Redone(d) = Package(d.sources, d.findings \cup Reported(d), d.parts, Routed(d),
                               d.manifest, d.acceptance, d.regeneration, d.evidence, d.receipt)
<1> DEFINE f == d.findings \cup Reported(d)
           e == [d EXCEPT !.findings = f]
           x == Routed(e)
           c == [e EXCEPT !.adjudications = x]
<1>1. Redone(d) = c
  BY DEF Redone
<1> HIDE DEF f
<1>2. e = Package(d.sources, f, d.parts, d.adjudications, d.manifest, d.acceptance,
                  d.regeneration, d.evidence, d.receipt)
  BY PackageFields, Zenon
<1> HIDE DEF e
<1>3. e.sources = d.sources /\ e.adjudications = d.adjudications
  BY <1>2 DEF Package
<1>4. x = Routed(d)
  BY <1>3, SameRouted
<1> HIDE DEF x
<1>5. c = Package(d.sources, f, d.parts, x, d.manifest, d.acceptance,
                  d.regeneration, d.evidence, d.receipt)
  BY <1>2 DEF Package
<1> HIDE DEF c
<1> QED BY <1>1, <1>4, <1>5 DEF f

LEMMA ReportedIsTyped ==
    ASSUME NEW d, \A pass \in Passes : d.sources[pass] \in PassEntries
    PROVE  Reported(d) \subseteq Findings
<1>1. \A pass \in Passes : d.sources[pass] # None => d.sources[pass] \in Entries
  BY DEF PassEntries, Entries
<1>2. \A pass \in Passes : d.sources[pass] # None => Found(pass, d.sources[pass]) \subseteq Findings
  BY <1>1, FoundIsTyped
<1> QED BY <1>2 DEF Reported

LEMMA RedoneIsRedoable ==
    ASSUME NoneIsNothing, ReadingsAreOfBaseline, CInv, Complete(disk),
           disk.sources.reconciliation # None, ~AgreedOmission(disk)
    PROVE  Redoable(Redone(disk))
<1> DEFINE d == Redone(disk)
<1>1. /\ Closable /\ Files(disk) /\ IsPackage(disk)
      /\ \A pass \in Passes : disk.sources[pass] \in PassEntries
      /\ IsAdjudications(disk.adjudications) /\ Decidable(disk, disk.adjudications)
  BY DEF CInv, Inv, Files, Closable
<1>2. d = Package(disk.sources, disk.findings \cup Reported(disk), disk.parts, Routed(disk),
                  disk.manifest, disk.acceptance, disk.regeneration, disk.evidence,
                  disk.receipt)
  BY <1>1, RedonePackage, Zenon
<1> HIDE DEF d
<1>3. /\ d.sources = disk.sources /\ d.findings = disk.findings \cup Reported(disk)
      /\ d.adjudications = Routed(disk)
  BY <1>2 DEF Package
<1>4. /\ Reported(d) = Reported(disk) /\ Complete(d) /\ (Agreed(d) <=> Agreed(disk))
      /\ \A t : Raised(d, t) = Raised(disk, t)
  BY <1>3, SameSources
<1>5. d.findings = Reported(d)
  BY <1>1, <1>3, <1>4 DEF Closable
<1>6. Reconciled(d) /\ (artifact # None => Preserved(d, artifact))
  BY <1>1, <1>3, SameReadings DEF Closable
<1>7. Decidable(d, d.adjudications)
  <2>1. Decidable(disk, Routed(disk))
    BY <1>1, RoutedDecidable
  <2> QED BY <1>3, <2>1, SameReadings
<1>8. Files(d)
  <2>1. IsAdjudications(Routed(disk))
    BY <1>1, RoutedIs
  <2>2. disk.findings \cup Reported(disk) \subseteq Findings
    BY <1>1, ReportedIsTyped DEF Files
  <2>3. /\ IsSources(disk.sources) /\ IsParts(disk.parts)
        /\ disk.manifest.audit \in {"pending", "accepted"}
        /\ Unaccepted(disk.acceptance) \/ Accepted(disk.acceptance)
        /\ disk.regeneration \in {None} \cup Corpora
        /\ disk.evidence \in {None} \cup SUBSET Parts
    BY <1>1 DEF Files
  <2> QED BY <1>1, <1>2, <2>1, <2>2, <2>3, FilesOf
<1>9. ASSUME ~Agreed(d), NEW t \in Targets, Raised(d, t) # {} PROVE d.adjudications[t] # None
  BY <1>1, <1>3, <1>4, <1>9, RoutedHas
<1>10. IF d.adjudications["source"] = None THEN Raised(d, "source") = {}
       ELSE d.adjudications["source"].findings = Raised(d, "source")
  <2>1. CASE Agreed(d)
    <3>1. d.adjudications["source"] = None
      BY <1>7, <2>1 DEF Decidable
    <3>2. Raised(disk, "source") = {}
      BY <1>4, <2>1 DEF AgreedOmission, Raised
    <3> QED BY <1>4, <3>1, <3>2
  <2>2. CASE ~Agreed(d)
    <3>1. "source" \in Targets
      BY DEF Targets
    <3>2. d.adjudications["source"] # None =>
              d.adjudications["source"].findings = Raised(d, "source")
      BY <1>1, <1>3, <1>4, <2>2, RoutedHas
    <3> QED BY <1>9, <2>2, <3>1, <3>2
  <2> QED BY <2>1, <2>2
<1>11. d.sources.reconciliation # None
  BY <1>3
<1> QED BY <1>4, <1>5, <1>6, <1>7, <1>8, <1>9, <1>10, <1>11 DEF Redoable, d

LEMMA ReconcilesAgain ==
    ASSUME NoneIsNothing, ReadingsAreOfBaseline, NEW d, Redoable(d)
    PROVE  ReconcileAllowed(d, d.sources.reconciliation.reviewer)
<1> DEFINE r == d.sources.reconciliation
           reviewer == r.reviewer
<1>1. /\ \A pass \in Passes : d.sources[pass] \in PassEntries
      /\ IsAdjudications(d.adjudications) /\ Decidable(d, d.adjudications)
      /\ Complete(d) /\ Reconciled(d) /\ r # None
  BY DEF Redoable, Files
<1>2. /\ d.sources.primary.reviewer # d.sources.independent.reviewer
      /\ reviewer \notin {d.sources[pass].reviewer : pass \in Passes}
      /\ r.agreed = Agreed(d)
      /\ r.routed = IF Agreed(d) THEN {} ELSE {t \in Targets : Raised(d, t) # {}}
      /\ IsReconciliation(r)
  BY <1>1 DEF Reconciled
<1>3. Reconciliation(d, reviewer) =
          [reviewer |-> reviewer, agreed |-> Agreed(d),
           routed |-> IF Agreed(d) THEN {} ELSE {t \in Targets : Raised(d, t) # {}}]
  BY <1>1, ReconciliationIs
<1>4. Reconciliation(d, reviewer) = r
  BY <1>2, <1>3 DEF IsReconciliation
<1>5. ~Agreed(d) => r.routed # {}
  BY <1>1, <1>2, DisagreementIsRaised
<1> QED BY <1>1, <1>2, <1>4, <1>5 DEF ReconcileAllowed

LEMMA BindsAgain ==
    ASSUME NEW d, NEW corpus, artifact = None, Required(d) = None
    PROVE  BindAllowed(d, corpus)
BY DEF BindAllowed, AdjustmentsProved, Conflict, Required

-----------------------------------------------------------------------------
(* What close finds.                                                       *)

\* Every unit has a terminal adjudication, and every terminal adjudication is
\* complete.
LEMMA BoundIsComplete ==
    ASSUME NoneIsNothing, NEW d, Redoable(d), NEW corpus
    PROVE  LET rows == Merged(d, corpus)
               x    == TerminalAdjudications(d, corpus)
           IN  /\ \A p \in Parts : rows[p] # None => x[p] # None
               /\ \A t \in Targets : x[t] # None => x[t].state = "complete"
<1> DEFINE rows == Merged(d, corpus)
           x    == TerminalAdjudications(d, corpus)
           old  == d.adjudications["source"]
<1>1. \A t \in Targets : x[t] = TerminalAdjudication(d, rows, t)
  BY DEF TerminalAdjudications
<1> HIDE DEF rows, x
<1>2. \A p \in Parts : /\ p \in Targets
                       /\ rows[p] = None => x[p] = None
                       /\ rows[p] # None => x[p] # None /\ x[p].state = "complete"
  BY <1>1, TerminalOfPart DEF Targets
<1>3. x["source"] # None => x["source"].state = "complete"
  <2>1. old # None => old.state \in {"pending", "complete"}
    BY DEF Redoable, Decidable
  <2>2. x["source"] = TerminalAdjudication(d, rows, "source")
    BY <1>1 DEF Targets
  <2> QED BY <2>1, <2>2, TerminalOfSource
<1> QED BY <1>2, <1>3 DEF Targets, rows, x

\* Every terminal adjudication cites what the readings say of its unit: that of
\* a unit that adjustments decide on keeps what it has cited.
LEMMA BoundCites ==
    ASSUME NoneIsNothing, ReadingsAreOfBaseline, NEW d, Redoable(d), NEW corpus,
           BindAllowed(d, corpus)
    PROVE  Cites(d, TerminalAdjudications(d, corpus))
<1> DEFINE rows == Merged(d, corpus)
           x    == TerminalAdjudications(d, corpus)
<1>1. \A t \in Targets : x[t] = TerminalAdjudication(d, rows, t)
  BY DEF TerminalAdjudications
<1>2. \A p \in Parts : rows[p] = None => Baseline[p] = None
  BY MergedRows
<1>3. artifact # None => Covered(d, rows)
  BY DEF BindAllowed
<1> HIDE DEF rows, x
<1>4. /\ \A pass \in Passes : d.sources[pass] \in PassEntries
      /\ \A t : {f \in d.findings : f.target = t} = Raised(d, t)
  BY DEF Redoable, Files, Raised
<1>5. ASSUME NEW p \in Parts, rows[p] = None
      PROVE  x[p] = None /\ Raised(d, p) = {}
  <2>1. x[p] = None
    BY <1>1, <1>5, TerminalOfPart DEF Targets
  <2>2. Raised(d, p) = {}
    BY <1>2, <1>4, <1>5, RaisedOn
  <2> QED BY <2>1, <2>2
<1>6. ASSUME NEW p \in Parts, rows[p] # None
      PROVE  x[p] # None /\ x[p].findings = Raised(d, p)
  <2> DEFINE old == d.adjudications[p]
  <2>1. p \in Targets
    BY DEF Targets
  <2>2. /\ x[p] # None
        /\ Decided(d, p) => x[p].findings = IF old = None THEN {} ELSE old.findings
        /\ ~Decided(d, p) => x[p].findings = {f \in d.findings : f.target = p}
    BY <1>1, <1>6, <2>1, TerminalOfPart
  <2>3. CASE ~Decided(d, p)
    BY <1>4, <2>2, <2>3
  <2>4. CASE Decided(d, p)
    <3> DEFINE kept == artifact.acceptance.manifest.partitions.adjudications
    <3>1. /\ artifact # None /\ p \in DOMAIN artifact.decisions
          /\ Preserved(d, artifact) /\ Covered(d, rows)
      BY <1>3, <2>4 DEF Decided, Redoable
    <3>2. /\ IF kept[p] = None THEN Raised(d, p) = {} ELSE kept[p].findings = Raised(d, p)
          /\ artifact.decisions[p].superseded = kept[p]
      BY <2>1, <3>1 DEF Preserved, Cites
    <3>3. CASE d.adjudications = kept
      BY <2>2, <2>4, <3>2, <3>3
    <3>4. CASE AlreadyApplied(d, rows, p)
      <4>1. old # None /\ old.findings = IF kept[p] = None THEN {} ELSE kept[p].findings
        BY <3>2, <3>4 DEF AlreadyApplied
      <4> QED BY <2>2, <2>4, <3>2, <4>1
    <3> QED BY <3>1, <3>3, <3>4 DEF Covered
  <2> QED BY <2>2, <2>3, <2>4
<1>7. IF x["source"] = None THEN Raised(d, "source") = {}
      ELSE x["source"].findings = Raised(d, "source")
  <2>1. x["source"] = TerminalAdjudication(d, rows, "source")
    BY <1>1 DEF Targets
  <2>2. IF d.adjudications["source"] = None THEN Raised(d, "source") = {}
        ELSE d.adjudications["source"].findings = Raised(d, "source")
    BY DEF Redoable
  <2> QED BY <1>4, <2>1, <2>2, TerminalOfSource
<1>8. ASSUME NEW p \in Parts
      PROVE  IF x[p] = None THEN Raised(d, p) = {} ELSE x[p].findings = Raised(d, p)
  BY <1>5, <1>6
<1> QED BY <1>7, <1>8 DEF Cites, Targets, x

\* The adjustments are what the package says.
LEMMA BoundReflects ==
    ASSUME NoneIsNothing, NEW d, NEW corpus, Decisions, BindAllowed(d, corpus),
           artifact # None, NEW p \in DOMAIN artifact.decisions
    PROVE  LET rows == Merged(d, corpus)
               x    == TerminalAdjudications(d, corpus)
           IN  /\ rows[p] # None /\ rows[p].final = artifact.decisions[p].expected
               /\ x[p] # None /\ x[p].action = artifact.decisions[p].action
               /\ x[p].by = "adjustment"
<1> DEFINE rows == Merged(d, corpus)
           x    == TerminalAdjudications(d, corpus)
<1>1. p \in Parts /\ p \in Targets
  BY DEF Decisions, Targets
<1>2. rows[p] # None /\ Covered(d, rows)
  BY DEF BindAllowed
<1>3. rows[p].final = corpus[p] /\ Final(rows[p]) = corpus[p]
  BY <1>1, <1>2, MergedRows
<1>4. x[p] = TerminalAdjudication(d, rows, p)
  BY <1>1 DEF TerminalAdjudications
<1> HIDE DEF rows, x
<1>5. artifact.decisions[p].expected = Final(rows[p])
  BY <1>2 DEF Covered, AlreadyApplied
<1>6. Decided(d, p)
  BY DEF Decided
<1>7. x[p] # None /\ x[p].action = artifact.decisions[p].action /\ x[p].by = "adjustment"
  BY <1>1, <1>2, <1>4, <1>6, TerminalOfPart
<1> QED BY <1>2, <1>3, <1>5, <1>7 DEF rows, x

\* The reviews are in order, in any package with these sources, findings and
\* terminal adjudications.
LEMMA BoundIsReviewed ==
    ASSUME NoneIsNothing, ReadingsAreOfBaseline, NEW d, Redoable(d), NEW corpus,
           BindAllowed(d, corpus), NEW e, e.sources = d.sources, e.findings = d.findings,
           e.adjudications = TerminalAdjudications(d, corpus)
    PROVE  PassesReviewed(e) /\ FindingsCited(e)
<1> DEFINE r == d.sources.reconciliation
           x == TerminalAdjudications(d, corpus)
<1>1. /\ \A pass \in Passes : d.sources[pass] \in PassEntries
      /\ Complete(d) /\ Reconciled(d) /\ r # None /\ d.findings = Reported(d)
  BY DEF Redoable, Files
<1>2. Cites(d, x)
  BY BoundCites
<1> HIDE DEF x
<1>3. \A f \in Reported(d) : /\ f.pass \in Passes /\ d.sources[f.pass] # None
                             /\ f \in Found(f.pass, d.sources[f.pass])
                             /\ f.target \in Targets /\ f \in Raised(d, f.target)
  <2>1. ASSUME NEW f \in Reported(d)
        PROVE  /\ f.pass \in Passes /\ d.sources[f.pass] # None
               /\ f \in Found(f.pass, d.sources[f.pass])
    <3>1. PICK pass \in Passes : d.sources[pass] # None /\ f \in Found(pass, d.sources[pass])
      BY DEF Reported
    <3>2. f.pass = pass
      BY <3>1 DEF Found
    <3> QED BY <3>1, <3>2
  <2>2. Reported(d) \subseteq Findings
    BY <1>1, ReportedIsTyped
  <2> QED BY <2>1, <2>2 DEF Findings, Raised
<1>4. /\ Reported(e) = Reported(d) /\ Complete(e) /\ (Agreed(e) <=> Agreed(d))
  BY <1>1, SameSources
<1>5. /\ d.sources.primary.reviewer # d.sources.independent.reviewer
      /\ r.reviewer \notin {d.sources[pass].reviewer : pass \in Passes}
      /\ r.agreed = Agreed(d)
      /\ r.routed = IF Agreed(d) THEN {} ELSE {t \in Targets : Raised(d, t) # {}}
  BY <1>1 DEF Reconciled
<1>6. ~r.agreed => r.routed # {} /\ \A t \in r.routed : x[t] # None
  <2>1. ASSUME ~Agreed(d) PROVE r.routed # {}
    BY <1>1, <1>5, <2>1, DisagreementIsRaised
  <2>2. ASSUME ~Agreed(d), NEW t \in r.routed PROVE x[t] # None
    BY <1>2, <1>5, <2>2 DEF Cites
  <2> QED BY <1>5, <2>1, <2>2
<1>7. PassesReviewed(e)
  BY <1>1, <1>3, <1>4, <1>5, <1>6 DEF PassesReviewed, x
<1>8. FindingsCited(e)
  <2>1. ASSUME NEW f \in d.findings PROVE x[f.target] # None /\ f \in x[f.target].findings
    BY <1>1, <1>2, <1>3 DEF Cites
  <2>2. ASSUME NEW t \in Targets, x[t] # None, NEW f \in x[t].findings
        PROVE  f \in d.findings /\ f.target = t
    BY <1>1, <1>2, <2>2 DEF Cites, Raised
  <2> QED BY <2>1, <2>2 DEF FindingsCited, x
<1> QED BY <1>7, <1>8

\* A package is sound whatever manifest describes it, and whatever acceptance
\* is bound to that.
LEMMA SoundWith ==
    ASSUME NoneIsNothing, ReadingsAreOfBaseline, NEW d, Redoable(d), Decisions,
           BindAllowed(d, live), NEW e, e.sources = d.sources, e.findings = d.findings,
           e.parts = Merged(d, live), e.adjudications = TerminalAdjudications(d, live),
           e.manifest.partitions = Content(e), e.manifest.adjustments = artifact,
           e.manifest.protocol = protocol,
           NEW a, a.manifest = e.manifest, a.adjustments = artifact
    PROVE  Sound(e, a, live) /\ WorkComplete(e)
<1> DEFINE rows == Merged(d, live)
           x    == TerminalAdjudications(d, live)
<1>1. PassesReviewed(e) /\ FindingsCited(e)
  BY BoundIsReviewed
<1>2. /\ \A p \in Parts : rows[p] # None => x[p] # None
      /\ \A t \in Targets : x[t] # None => x[t].state = "complete"
  BY BoundIsComplete
<1>3. \A p \in Parts : /\ Final(rows[p]) = live[p]
                       /\ rows[p] # None => rows[p].done
  BY MergedRows
<1>4. artifact # None => \A p \in DOMAIN artifact.decisions :
          /\ rows[p] # None /\ rows[p].final = artifact.decisions[p].expected
          /\ x[p] # None /\ x[p].action = artifact.decisions[p].action
          /\ x[p].by = "adjustment"
  BY BoundReflects
<1>5. e.parts = rows /\ e.adjudications = x
  OBVIOUS
<1> HIDE DEF rows, x
<1>6. AdjustmentsReflected(e) /\ LiveFinal(e.parts, live)
  BY <1>3, <1>4, <1>5 DEF AdjustmentsReflected, LiveFinal
<1>7. Sound(e, a, live)
  BY <1>1, <1>2, <1>5, <1>6 DEF Sound
<1>8. Complete(e) /\ e.sources.reconciliation # None
  BY SameSources DEF Redoable
<1> QED BY <1>2, <1>3, <1>5, <1>7, <1>8 DEF WorkComplete

\* Bind, the two regenerations and the acceptance find nothing to object to.
LEMMA ClosesAgain ==
    ASSUME NoneIsNothing, ReadingsAreOfBaseline, NEW d, Redoable(d), Decisions,
           BindAllowed(d, live), Evidence(live) = {}
    PROVE  CloseSucceeds(d)
<1> DEFINE s  == d.sources
           f  == d.findings
           ev == Evidence(live)
           rows == Merged(d, live)
           x  == TerminalAdjudications(d, live)
           m  == BoundManifest(d, live)
           a  == BoundAcceptance(d, live)
           receipt == [regeneration |-> live, evidence |-> ev, adjustments |-> artifact]
           bound == BindCandidate(d, live)
           e1 == Evidenced(bound)
           e2 == [e1 EXCEPT !.regeneration = live]
           ready == [e2 EXCEPT !.receipt = receipt]
           m2 == Described(ready, "accepted", ready.manifest.adjustments)
           a2 == [state |-> "accepted", manifest |-> m2, digest |-> live,
                  receipt |-> ready.receipt, regeneration |-> live,
                  adjustments |-> ready.acceptance.adjustments]
           e3 == [ready EXCEPT !.manifest = m2]
           closed == [e3 EXCEPT !.acceptance = a2]
           last == [closed EXCEPT !.acceptance = ready.acceptance]
<1>1. bound = Package(s, f, rows, x, m, a, d.regeneration, d.evidence, d.receipt)
  BY BoundPackage, Zenon DEF Redoable, Files
<1>2. Carried(d) = artifact
  BY DEF Carried, BindAllowed, AdjustmentsProved
<1>3. /\ m.audit = "pending" /\ m.adjustments = artifact /\ m.protocol = protocol
      /\ m.partitions = [sources |-> s, findings |-> f, parts |-> rows,
                         adjudications |-> x]
      /\ a.state = "pending" /\ a.manifest = m /\ a.digest = None /\ a.receipt = None
      /\ a.adjustments = artifact
  BY <1>2 DEF BoundManifest, BoundAcceptance
<1>4. CloseSucceeds(d) <=>
          /\ FinalBindingVerified(bound, live)
          /\ PreacceptanceVerified(e1, live)
          /\ AcceptAllowed(ready, live)
          /\ CandidateVerified(last, closed.acceptance, live)
  <2>1. Regenerated(bound) = ready
    BY DEF Regenerated
  <2>2. AcceptCandidate(ready, live, live) = closed
    BY DEF AcceptCandidate
  <2> HIDE DEF bound, e1, e2, ready, m2, a2, e3, closed
  <2> QED BY <2>1, <2>2 DEF CloseSucceeds, bound, e1
<1>5. /\ receipt # None /\ receipt.regeneration = live /\ receipt.evidence = ev
      /\ receipt.adjustments = artifact
  BY DEF NoneIsNothing
<1> HIDE DEF s, f, rows, x, m, a, bound, receipt, ev
<1>6. e1 = Package(s, f, rows, x, m, a, d.regeneration, ev, d.receipt)
  <2>1. e1 = [bound EXCEPT !.evidence = ev]
    BY DEF Evidenced, ev
  <2> HIDE DEF e1
  <2> QED BY <1>1, <2>1 DEF Package
<1> HIDE DEF e1
<1>7. e2 = Package(s, f, rows, x, m, a, live, ev, d.receipt)
  BY <1>6 DEF Package
<1> HIDE DEF e2
<1>8. ready = Package(s, f, rows, x, m, a, live, ev, receipt)
  BY <1>7 DEF Package
<1> HIDE DEF ready
<1>9. /\ m2.audit = "accepted" /\ m2.adjustments = artifact /\ m2.protocol = protocol
      /\ m2.partitions = [sources |-> s, findings |-> f, parts |-> rows,
                          adjudications |-> x]
  BY <1>3, <1>8 DEF Described, Content, Package
<1>10. /\ a2.manifest = m2 /\ a2.digest = live /\ a2.receipt = receipt
       /\ a2.regeneration = live /\ a2.adjustments = artifact
  BY <1>3, <1>8 DEF Package
<1> HIDE DEF m2, a2
<1>11. e3 = Package(s, f, rows, x, m2, a, live, ev, receipt)
  BY <1>8 DEF Package
<1> HIDE DEF e3
<1>12. closed = Package(s, f, rows, x, m2, a2, live, ev, receipt)
  BY <1>11 DEF Package
<1>13. closed.acceptance = a2
  BY <1>12 DEF Package
<1>14. ready.acceptance = a
  BY <1>8 DEF Package
<1> HIDE DEF closed
<1>15. last = Package(s, f, rows, x, m2, a, live, ev, receipt)
  BY <1>12, <1>14 DEF Package
<1> HIDE DEF last
<1>16. /\ s = d.sources /\ f = d.findings /\ rows = Merged(d, live)
       /\ x = TerminalAdjudications(d, live) /\ ev = Evidence(live)
  BY DEF s, f, rows, x, ev
<1>17. FinalBindingVerified(bound, live)
  <2>1. /\ bound.sources = s /\ bound.findings = f /\ bound.parts = rows
        /\ bound.adjudications = x /\ bound.manifest = m /\ bound.acceptance = a
    BY <1>1 DEF Package
  <2>2. bound.manifest.partitions = Content(bound)
    BY <1>3, <2>1 DEF Content
  <2>3. Sound(bound, a, live)
    BY <1>3, <1>16, <2>1, <2>2, SoundWith
  <2> QED BY <1>3, <2>1, <2>3 DEF FinalBindingVerified
<1>18. PreacceptanceVerified(e1, live)
  <2>1. /\ e1.sources = s /\ e1.findings = f /\ e1.parts = rows
        /\ e1.adjudications = x /\ e1.manifest = m /\ e1.acceptance = a /\ e1.evidence = ev
    BY <1>6 DEF Package
  <2>2. e1.manifest.partitions = Content(e1)
    BY <1>3, <2>1 DEF Content
  <2>3. Sound(e1, a, live) /\ WorkComplete(e1)
    BY <1>3, <1>16, <2>1, <2>2, SoundWith
  <2> QED BY <1>16, <2>1, <2>3 DEF PreacceptanceVerified, EvidenceVerified
<1>19. /\ WorkComplete(last) /\ Sound(last, a2, live) /\ EvidenceVerified(last, live)
       /\ last.manifest = m2 /\ last.receipt = receipt /\ last.regeneration = live
       /\ last.evidence = ev
  <2>1. /\ last.sources = s /\ last.findings = f /\ last.parts = rows
        /\ last.adjudications = x /\ last.manifest = m2 /\ last.receipt = receipt
        /\ last.regeneration = live /\ last.evidence = ev
    BY <1>15 DEF Package
  <2>2. last.manifest.partitions = Content(last)
    BY <1>9, <2>1 DEF Content
  <2>3. Sound(last, a2, live) /\ WorkComplete(last)
    BY <1>9, <1>10, <1>16, <2>1, <2>2, SoundWith
  <2> QED BY <1>16, <2>1, <2>3 DEF EvidenceVerified
<1>20. CandidateVerified(last, a2, live)
  BY <1>5, <1>9, <1>10, <1>19 DEF CandidateVerified
<1>21. AcceptAllowed(ready, live)
  <2>1. /\ ready.sources = last.sources /\ ready.parts = last.parts
        /\ ready.adjudications = last.adjudications /\ ready.receipt = receipt
    BY <1>8, <1>15 DEF Package
  <2>2. WorkComplete(ready) /\ LiveFinal(ready.parts, live)
    BY <1>19, <2>1 DEF WorkComplete, Complete, Sound
  <2> QED BY <1>5, <2>1, <2>2 DEF AcceptAllowed
<1> QED BY <1>4, <1>13, <1>17, <1>18, <1>20, <1>21

\* Wherever a command fails or dies, the same commands run again bring a
\* reviewed package to its acceptance: no half-written state is refused for
\* good, but for adjustments that were half applied, which bind refuses.
THEOREM Closing ==
    ASSUME NoneIsNothing, ReadingsAreOfBaseline
    PROVE  Spec => []CanBeClosed
<1>1. Init => CInv
  BY InitInv, InitClosable DEF CInv
<1>2. CInv /\ [Next]_vars => CInv'
  BY NextCInv
<1>3. CInv => CanBeClosed
  <2> DEFINE d == Redone(disk)
  <2> SUFFICES ASSUME CInv, Complete(disk), disk.sources.reconciliation # None,
                      ~AgreedOmission(disk), Evidence(live) = {},
                      (artifact = None /\ Required(disk) = None) \/ BindAllowed(d, live)
               PROVE  /\ ReconcileAllowed(d, disk.sources.reconciliation.reviewer)
                      /\ BindAllowed(d, live)
                      /\ CloseSucceeds(d)
    BY DEF CanBeClosed
  <2>1. Redoable(d)
    BY RedoneIsRedoable
  <2>2. d = Package(disk.sources, disk.findings \cup Reported(disk), disk.parts,
                    Routed(disk), disk.manifest, disk.acceptance, disk.regeneration,
                    disk.evidence, disk.receipt)
    BY RedonePackage, Zenon DEF CInv, Inv, Files
  <2> HIDE DEF d
  <2>3. /\ d.sources = disk.sources /\ d.manifest = disk.manifest
        /\ d.acceptance = disk.acceptance
    BY <2>2 DEF Package
  <2>4. ReconcileAllowed(d, disk.sources.reconciliation.reviewer)
    BY <2>1, <2>3, ReconcilesAgain
  <2>5. BindAllowed(d, live)
    <3>1. Required(d) = Required(disk)
      BY <2>3 DEF Required
    <3> QED BY <3>1, BindsAgain
  <2>6. CloseSucceeds(d)
    BY <2>1, <2>5, ClosesAgain DEF CInv, Inv
  <2> QED BY <2>4, <2>5, <2>6
<1> QED BY <1>1, <1>2, <1>3, PTL DEF Spec

=============================================================================
