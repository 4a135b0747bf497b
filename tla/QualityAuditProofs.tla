------------------------- MODULE QualityAuditProofs -------------------------
(***************************************************************************)
(* What holds of QualityAudit for every set of processes, blocks, wordings *)
(* and dates, and any number of commands and edits.                        *)
(*                                                                         *)
(* Every part of the invariant relates one command to the files: what it   *)
(* has made is its own (Shape, Undone), a rejection keeps the evidence of  *)
(* what was rejected before (Rejecting), an acceptance does not touch what *)
(* the accepted manifest is replayed from (Accepting), and a sample that   *)
(* has been certified can no more be replaced by another whole one, though *)
(* those who write them take no lock (Verdict).                            *)
(***************************************************************************)
EXTENDS QualityAudit, SequenceTheorems, TLAPS

-----------------------------------------------------------------------------
(* Chains and files.                                                       *)

Ledgers == [Blocks -> [word : Words, status : Statuses]]

IsEntry(a) == a = Entry(a.m, a.day, a.evidence)

IsChain(chain) ==
    /\ chain \in Seq({chain[i] : i \in DOMAIN chain})
    /\ \A i \in DOMAIN chain : IsEntry(chain[i])

\* The chain that the manifest in the files f ends.
AcceptedIn(f) == IF Canonical \in DOMAIN f THEN f[Canonical] ELSE <<>>

\* The files that the chain is replayed from.
Noted(chain) == <<"note", Newest(chain).day>>
Proof(chain) == <<"evidence", Newest(chain).evidence>>
Copies(chain) == {<<"history-manifest", chain>>, <<"history-note", Note(chain)>>,
                  <<"history-ledger", Newest(chain).m.ledger>>}

Needs(chain) ==
    {Noted(Upto(chain, n)) : n \in DOMAIN chain}
        \cup {Proof(Upto(chain, n)) : n \in DOMAIN chain}
        \cup UNION {Copies(Upto(chain, n)) : n \in (DOMAIN chain) \ {Len(chain)}}

\* Provenance, of any files.
BoundIn(f, chain) ==
    /\ Noted(chain) \in DOMAIN f /\ f[Noted(chain)] = Note(chain)
    /\ Proof(chain) \in DOMAIN f
    /\ Newest(chain).evidence.m = Newest(chain).m
    /\ Newest(chain).evidence.answer.failed = {}

Replays(f, chain) ==
    \A n \in DOMAIN chain :
        BoundIn(f, Upto(chain, n)) /\ (n < Len(chain) => Copies(Upto(chain, n)) \subseteq DOMAIN f)

-----------------------------------------------------------------------------
(* A command by itself.                                                    *)

Work7(kind, day, plan, at, made, opened, failed) ==
    [kind |-> kind, day |-> day, plan |-> plan, at |-> at, made |-> made,
     opened |-> opened, failed |-> failed]

\* A sample is of a manifest, and its artifacts say what the provider said.
Answered(o) == o.kind = "sample" /\ Len(o.plan) = 12
Asked(o) == o.plan[3].content
Said(o) == o.plan[6].content

SamplePlan(o) ==
    \/ o.plan = <<>>
    \/ o.plan = <<Step("answer", Pending, o.plan[1].content)>>
    \/ /\ o.plan = SampleSteps(Asked(o), Said(o))
       /\ Said(o).no = o.day
       /\ Said(o).failed \subseteq Active(Asked(o).ledger)

\* The chain that an acceptance makes.
Made1(o) == o.plan[IF o.kind = "accept" THEN 4 ELSE 7].content

IsExtension(chain) ==
    /\ IsChain(Before(chain))
    /\ chain = Append(Before(chain), Newest(chain)) /\ IsEntry(Newest(chain))
    /\ Newest(chain).m.ledger \in Ledgers
    /\ Newest(chain).evidence.answer.failed = {}

\* What a command is certified by: the evidence that it creates first.
Shown(o) == o.plan[1].path[2]

PlanIs(o) ==
    /\ o.kind = "sample" => SamplePlan(o)
    /\ o.kind = "accept" =>
          /\ o.plan = AcceptSteps(Made1(o))
          /\ IsExtension(Made1(o)) /\ Before(Made1(o)) = <<>>
    /\ o.kind = "supersede" =>
          /\ o.plan = SupersedeSteps(Made1(o))
          /\ IsExtension(Made1(o)) /\ Before(Made1(o)) # <<>>
          /\ Newest(Before(Made1(o))).m.ledger # Newest(Made1(o)).m.ledger
    /\ o.kind = "reject" =>
          /\ o.plan = RejectSteps(Shown(o), o.day)
          /\ Shown(o).m.ledger = o.opened
          /\ Shown(o).answer.failed # {}
    /\ o.kind = "refresh" => o.plan = <<Step("put", Canonical, o.plan[1].content)>>

\* The files that a command of each kind may make; no two kinds that are under
\* different locks may make the same.
Makes(kind, path) ==
    CASE kind = "accept" ->
            \/ path[1] \in {"note", "manifest"}
            \/ path[1] = "evidence" /\ path[2].answer.failed = {}
      [] kind = "supersede" ->
            \/ path[1] \in {"note", "history-manifest", "history-note", "history-ledger"}
            \/ path[1] = "evidence" /\ path[2].answer.failed = {}
      [] kind = "reject" ->
            \/ path[1] \in {"receipt", "submission", "ledger"}
            \/ path[1] = "evidence" /\ path[2].answer.failed # {}
      [] OTHER -> FALSE

Finished(o) == ~o.failed /\ o.at > Len(o.plan)

Shape(o) ==
    /\ o = Work7(o.kind, o.day, o.plan, o.at, o.made, o.opened, o.failed)
    /\ o.kind \in Kinds /\ o.at \in Nat \ {0} /\ o.failed \in BOOLEAN
    /\ o.opened \in Ledgers
    /\ PlanIs(o)
    /\ \A path \in o.made : /\ Makes(o.kind, path)
                            /\ path[1] = "manifest" => Finished(o)

-----------------------------------------------------------------------------
(* A command and the files.                                                *)

\* What a command that failed has made, and is still there, is yet to be undone.
Undone(f, o) ==
    o.failed => \A path \in o.made \cap DOMAIN f :
        \E i \in o.at..Len(UndoOrder(o.kind)) : path[1] = UndoOrder(o.kind)[i]

\* Evidence that the block failed in this wording.
Condemns(path, l, b) ==
    /\ path[1] = "evidence"
    /\ b \in path[2].answer.failed
    /\ path[2].m.ledger[b].word = l[b].word

\* Every block that is rejected in l has its evidence among the paths.
Evident(paths, l) ==
    \A b \in Blocks : l[b].status = "rejected" => \E path \in paths : Condemns(path, l, b)

\* A rejection does not count on its own evidence for what was rejected before,
\* and has it where it says so in the ledger.
Rejecting(f, l, o) ==
    o.kind = "reject" =>
        /\ Evident(DOMAIN f \ o.made, o.opened)
        /\ ~o.failed /\ o.at > 1 => <<"evidence", Shown(o)>> \in DOMAIN f
        /\ \/ l = o.opened
           \/ /\ l = Rejected(o.opened, Shown(o).answer.failed)
              /\ <<"evidence", Shown(o)>> \in DOMAIN f
              /\ <<"ledger">> \in o.made
              /\ o.failed => o.at = 1

\* An acceptance has made nothing that is needed already, before it is complete;
\* from its validation on, what it accepts can be replayed.
Accepting(f, o) ==
    /\ o.kind \in {"accept", "supersede"} =>
          /\ ~Finished(o) => o.made \cap Needs(AcceptedIn(f)) = {}
          /\ ~o.failed /\ o.at = Len(o.plan) => Replays(f, Made1(o))
    /\ o.kind = "refresh" /\ ~o.failed /\ o.at = 1 => o.plan[1].content = AcceptedIn(f)

\* A sample that is being written and says otherwise cannot be completed.
Settled(f, e, o) ==
    /\ Answered(o) /\ ~o.failed /\ Asked(o) = e.m /\ Said(o) # e.answer
    => \A i \in 1..3 : o.at = 3 + 3 * i =>
            \E j \in 1..3 \ {i} : f[<<Artifacts[j], e.m>>] # Said(o)

\* All of the artifacts are there, and if they agree then on this.
Complete(f, e) ==
    /\ \A i \in 1..3 : <<Artifacts[i], e.m>> \in DOMAIN f
    /\ \/ \E i \in 1..3 : f[<<Artifacts[i], e.m>>] # f[<<"output", e.m>>]
       \/ f[<<"output", e.m>>] = e.answer

Live(p) == op[p] # None

Stands(f, ops, e) ==
    /\ e = [m |-> e.m, answer |-> e.answer]
    /\ Complete(f, e)
    /\ \A p \in Procs : ops[p] # None => Settled(f, e, ops[p])

Verdict(e) == Stands(disk, op, e)

Certifies(o) == o.kind \in {"accept", "supersede", "reject"} /\ ~o.failed

Verdicts ==
    /\ \A path \in DOMAIN disk : path[1] = "evidence" => Verdict(path[2])
    /\ \A p \in Procs : Live(p) /\ Certifies(op[p]) => Verdict(Shown(op[p]))

-----------------------------------------------------------------------------
(* The invariant.                                                          *)

Typing ==
    /\ ledger \in Ledgers
    /\ audits \in [Blocks -> [word : Words, text : Texts]]
    /\ commands \in 0..MaxCommands /\ edits \in 0..MaxEdits /\ protocol \in 0..edits
    /\ \A path \in DOMAIN disk : path[1] \in {"execution", "output", "state"} =>
        disk[path].failed \subseteq Active(path[2].ledger)

Locking ==
    /\ Locks!TypeOK
    /\ \A p, q \in Procs : p # q => inside[p] \cap inside[q] = {}
    /\ \A p \in Procs : Live(p) /\ op[p].kind # "sample" => inside[p] = Scope(op[p].kind)

\* No two samples are of the same day.
Days1 ==
    \A p \in Procs : Live(p) /\ op[p].kind = "sample" =>
        /\ op[p].day \in 1..commands
        /\ \A q \in Procs \ {p} : Live(q) /\ op[q].kind = "sample" => op[q].day # op[p].day

Commands ==
    /\ op = [p \in Procs |-> op[p]]
    /\ \A p \in Procs : Live(p) => /\ Shape(op[p])
                                   /\ Undone(disk, op[p])
                                   /\ Rejecting(disk, ledger, op[p])
                                   /\ Accepting(disk, op[p])

Chained == IsChain(AcceptedIn(disk)) /\ Replays(disk, AcceptedIn(disk))

Inv ==
    /\ Typing
    /\ Locking
    /\ Days1
    /\ Commands
    /\ Chained
    /\ Verdicts
    /\ Evident(DOMAIN disk, ledger)

-----------------------------------------------------------------------------
(* Chains.                                                                 *)

\* A chain is a sequence, and its longest beginning is all of it.
LEMMA Whole ==
    ASSUME NEW chain, IsChain(chain)
    PROVE  /\ Len(chain) \in Nat
           /\ DOMAIN chain = 1..Len(chain)
           /\ Upto(chain, Len(chain)) = chain
BY DEF Upto, IsChain

\* What remains of a chain when one acceptance follows it.
LEMMA Appended ==
    ASSUME NEW past, IsChain(past), NEW new, IsEntry(new)
    PROVE  LET chain == Append(past, new)
           IN  /\ IsChain(chain)
               /\ Len(chain) = Len(past) + 1
               /\ DOMAIN chain = 1..(Len(past) + 1)
               /\ Newest(chain) = new
               /\ Before(chain) = past
               /\ \A n \in 1..Len(past) : chain[n] = past[n] /\ Upto(chain, n) = Upto(past, n)
<1> DEFINE S == {past[i] : i \in DOMAIN past} \cup {new}
           chain == Append(past, new)
<1>1. past \in Seq(S) /\ Len(past) \in Nat
  BY DEF IsChain
<1>2. /\ chain \in Seq(S)
      /\ Len(chain) = Len(past) + 1
      /\ DOMAIN chain = 1..(Len(past) + 1)
      /\ chain[Len(past) + 1] = new
      /\ \A n \in 1..Len(past) : chain[n] = past[n]
  BY <1>1
<1>3. \A n \in 1..Len(past) : Upto(chain, n) = Upto(past, n)
  BY <1>1, <1>2 DEF Upto
<1>4. Before(chain) = past
  BY <1>1, <1>2 DEF Before, Upto
<1>5. IsChain(chain)
  BY <1>1, <1>2 DEF IsChain
<1> QED BY <1>1, <1>2, <1>3, <1>4, <1>5 DEF Newest

\* The replay that the program makes is the replay of the files on disk.
LEMMA ProvenanceIs ==
    ASSUME NEW STATE chain
    PROVE  Provenance(chain) <=> Replays(disk, chain)
BY DEF Provenance, Replays, Bound, BoundIn, Kept, Copies, Noted, Proof, Holds, Exists

\* Whatever a replay needs is there, and is a note, a copy or passing evidence.
LEMMA NeedsThere ==
    ASSUME NEW f, NEW chain, IsChain(chain), Replays(f, chain)
    PROVE  \A path \in Needs(chain) :
              /\ path \in DOMAIN f
              /\ \/ path[1] \in {"note", "history-manifest", "history-note", "history-ledger"}
                 \/ path[1] = "evidence" /\ path[2].answer.failed = {}
<1> SUFFICES ASSUME NEW path \in Needs(chain)
             PROVE  /\ path \in DOMAIN f
                    /\ \/ path[1] \in {"note", "history-manifest", "history-note", "history-ledger"}
                       \/ path[1] = "evidence" /\ path[2].answer.failed = {}
  OBVIOUS
<1>1. ASSUME NEW n \in DOMAIN chain, path = Noted(Upto(chain, n))
      PROVE  path \in DOMAIN f /\ path[1] = "note"
  BY <1>1 DEF Replays, BoundIn, Noted
<1>2. ASSUME NEW n \in DOMAIN chain, path = Proof(Upto(chain, n))
      PROVE  path \in DOMAIN f /\ path[1] = "evidence" /\ path[2].answer.failed = {}
  BY <1>2 DEF Replays, BoundIn, Proof
<1>3. ASSUME NEW n \in (DOMAIN chain) \ {Len(chain)}, path \in Copies(Upto(chain, n))
      PROVE  /\ path \in DOMAIN f
             /\ path[1] \in {"history-manifest", "history-note", "history-ledger"}
  <2>1. n < Len(chain)
    BY <1>3, Whole
  <2>2. path \in DOMAIN f
    BY <1>3, <2>1 DEF Replays
  <2>3. path[1] \in {"history-manifest", "history-note", "history-ledger"}
    BY <1>3 DEF Copies
  <2> QED BY <2>2, <2>3
<1> QED BY <1>1, <1>2, <1>3 DEF Needs

\* A chain can be replayed as long as what it needs is there and the same.
LEMMA ReplaysKept ==
    ASSUME NEW f, NEW g, NEW chain, IsChain(chain), Replays(f, chain),
           \A path \in Needs(chain) : path \in DOMAIN g /\ g[path] = f[path]
    PROVE  Replays(g, chain)
<1> SUFFICES ASSUME NEW n \in DOMAIN chain
             PROVE  /\ BoundIn(g, Upto(chain, n))
                    /\ n < Len(chain) => Copies(Upto(chain, n)) \subseteq DOMAIN g
  BY DEF Replays
<1>1. Noted(Upto(chain, n)) \in Needs(chain) /\ Proof(Upto(chain, n)) \in Needs(chain)
  BY DEF Needs
<1>2. BoundIn(g, Upto(chain, n))
  BY <1>1 DEF Replays, BoundIn
<1>3. ASSUME n < Len(chain) PROVE Copies(Upto(chain, n)) \subseteq DOMAIN g
  <2>1. n \in (DOMAIN chain) \ {Len(chain)}
    BY <1>3, Whole
  <2>2. Copies(Upto(chain, n)) \subseteq Needs(chain)
    BY <2>1 DEF Needs
  <2> QED BY <2>2
<1> QED BY <1>2, <1>3

-----------------------------------------------------------------------------
(* Plans.                                                                  *)

IsSequence(s) == \E S : s \in Seq(S)

\* t goes on from s, of n steps, with the writing of a file in scratch.
GoesOn(t, s, n, path, content) ==
    /\ Len(t) = n + 3
    /\ \A i \in 1..n : t[i] = s[i]
    /\ t[n + 1] = Step("look", path, content)
    /\ t[n + 2] = Step("look-again", path, content)
    /\ t[n + 3] = Step("put", path, content)

\* Writing one more file in scratch adds three steps to a plan.
LEMMA ScratchAfter ==
    ASSUME NEW s, IsSequence(s), NEW path, NEW content
    PROVE  /\ IsSequence(s \o Scratch(path, content))
           /\ GoesOn(s \o Scratch(path, content), s, Len(s), path, content)
<1> DEFINE t == s \o Scratch(path, content)
<1>1. PICK S : s \in Seq(S)
  BY DEF IsSequence
<1>2. t \in Seq(S \cup {Step("look", path, content), Step("look-again", path, content),
                        Step("put", path, content)})
  BY <1>1 DEF Scratch
<1>3. /\ Len(t) = Len(s) + 3
      /\ \A i \in 1..Len(s) : t[i] = s[i]
      /\ t[Len(s) + 1] = Step("look", path, content)
      /\ t[Len(s) + 2] = Step("look-again", path, content)
      /\ t[Len(s) + 3] = Step("put", path, content)
  BY <1>1, <1>2 DEF Scratch
<1> HIDE DEF t
<1>4. IsSequence(t) /\ GoesOn(t, s, Len(s), path, content)
  BY <1>2, <1>3 DEF IsSequence, GoesOn
<1> QED BY <1>4 DEF t

\* The steps of a sample: the preview and then the three artifacts.
SampleShape(s, m, a) ==
    /\ Len(s) = 12
    /\ s[1] = Step("look", Pending, m)
    /\ s[2] = Step("look-again", Pending, m)
    /\ s[3] = Step("put", Pending, m)
    /\ \A i \in 1..3 :
          /\ s[3 * i + 1] = Step("look", <<Artifacts[i], m>>, a)
          /\ s[3 * i + 2] = Step("look-again", <<Artifacts[i], m>>, a)
          /\ s[3 * i + 3] = Step("put", <<Artifacts[i], m>>, a)

\* Step by step, the plan of a sample.
LEMMA SampleIs ==
    ASSUME NEW m, NEW a
    PROVE  SampleShape(SampleSteps(m, a), m, a)
<1> DEFINE t1 == Scratch(Pending, m)
           t2 == t1 \o Scratch(<<"execution", m>>, a)
           t3 == t2 \o Scratch(<<"output", m>>, a)
           t4 == t3 \o Scratch(<<"state", m>>, a)
<1>1. /\ Len(t1) = 3
      /\ IsSequence(t1)
      /\ t1[1] = Step("look", Pending, m)
      /\ t1[2] = Step("look-again", Pending, m)
      /\ t1[3] = Step("put", Pending, m)
  <2>1. t1 \in Seq({Step("look", Pending, m), Step("look-again", Pending, m),
                    Step("put", Pending, m)})
    BY DEF Scratch
  <2>2. IsSequence(t1)
    BY <2>1 DEF IsSequence
  <2> QED BY <2>1, <2>2 DEF Scratch
<1>2. SampleSteps(m, a) = t4
  BY DEF SampleSteps
<1> HIDE DEF t1
<1>3. IsSequence(t2) /\ GoesOn(t2, t1, Len(t1), <<"execution", m>>, a)
  BY <1>1, ScratchAfter
<1> HIDE DEF t2
<1>4. IsSequence(t3) /\ GoesOn(t3, t2, Len(t2), <<"output", m>>, a)
  BY <1>3, ScratchAfter
<1> HIDE DEF t3
<1>5. IsSequence(t4) /\ GoesOn(t4, t3, Len(t3), <<"state", m>>, a)
  BY <1>4, ScratchAfter
<1> HIDE DEF t4
<1>6. /\ Len(t2) = 6
       /\ \A i \in 1..3 : t2[i] = t1[i]
       /\ t2[4] = Step("look", <<"execution", m>>, a)
       /\ t2[5] = Step("look-again", <<"execution", m>>, a)
       /\ t2[6] = Step("put", <<"execution", m>>, a)
  BY <1>1, <1>3 DEF GoesOn
<1>7. /\ Len(t3) = 9
       /\ \A i \in 1..6 : t3[i] = t2[i]
       /\ t3[7] = Step("look", <<"output", m>>, a)
       /\ t3[8] = Step("look-again", <<"output", m>>, a)
       /\ t3[9] = Step("put", <<"output", m>>, a)
  BY <1>6, <1>4 DEF GoesOn
<1>8. /\ Len(t4) = 12
       /\ \A i \in 1..9 : t4[i] = t3[i]
       /\ t4[10] = Step("look", <<"state", m>>, a)
       /\ t4[11] = Step("look-again", <<"state", m>>, a)
       /\ t4[12] = Step("put", <<"state", m>>, a)
  BY <1>7, <1>5 DEF GoesOn
<1>9. Artifacts[1] = "execution" /\ Artifacts[2] = "output" /\ Artifacts[3] = "state"
  BY DEF Artifacts
<1>10. /\ Len(t4) = 12
      /\ t4[1] = Step("look", Pending, m)
      /\ t4[2] = Step("look-again", Pending, m)
      /\ t4[3] = Step("put", Pending, m)
  BY <1>1, <1>6, <1>7, <1>8
<1>11. \A i \in 1..3 :
         /\ t4[3 * i + 1] = Step("look", <<Artifacts[i], m>>, a)
         /\ t4[3 * i + 2] = Step("look-again", <<Artifacts[i], m>>, a)
         /\ t4[3 * i + 3] = Step("put", <<Artifacts[i], m>>, a)
  BY <1>6, <1>7, <1>8, <1>9
<1> QED BY <1>2, <1>10, <1>11 DEF SampleShape

\* Step by step, the plan of an acceptance.
LEMMA AcceptIs ==
    ASSUME NEW o, Shape(o), o.kind = "accept"
    PROVE  LET chain == Made1(o)
           IN  /\ Len(o.plan) = 4
               /\ o.plan[1] = New(<<"evidence", Newest(chain).evidence>>, None)
               /\ o.plan[2] = New(<<"note", Newest(chain).day>>, Note(chain))
               /\ o.plan[3] = Step("validate", Canonical, chain)
               /\ o.plan[4] = New(Canonical, chain)
               /\ Shown(o) = Newest(chain).evidence
               /\ IsExtension(chain) /\ Before(chain) = <<>>
<1> DEFINE chain == Made1(o)
<1>1. o.plan = AcceptSteps(chain) /\ IsExtension(chain) /\ Before(chain) = <<>>
  BY DEF Shape, PlanIs
<1> HIDE DEF chain
<1>2. /\ Len(o.plan) = 4
      /\ o.plan[1] = New(<<"evidence", Newest(chain).evidence>>, None)
      /\ o.plan[2] = New(<<"note", Newest(chain).day>>, Note(chain))
      /\ o.plan[3] = Step("validate", Canonical, chain)
      /\ o.plan[4] = New(Canonical, chain)
  BY <1>1 DEF AcceptSteps
<1>3. Shown(o) = Newest(chain).evidence
  BY <1>2 DEF Shown, New, Step
<1> QED BY <1>1, <1>2, <1>3 DEF chain

\* Step by step, the plan of a supersede.
LEMMA SupersedeIs ==
    ASSUME NEW o, Shape(o), o.kind = "supersede"
    PROVE  LET chain == Made1(o)
               pred == Before(chain)
           IN  /\ Len(o.plan) = 7
               /\ o.plan[1] = New(<<"evidence", Newest(chain).evidence>>, None)
               /\ o.plan[2] = New(<<"note", Newest(chain).day>>, Note(chain))
               /\ o.plan[3] = New(<<"history-manifest", pred>>, None)
               /\ o.plan[4] = New(<<"history-note", Note(pred)>>, None)
               /\ o.plan[5] = New(<<"history-ledger", Newest(pred).m.ledger>>, None)
               /\ o.plan[6] = Step("validate", Canonical, chain)
               /\ o.plan[7] = Step("replace", Canonical, chain)
               /\ Shown(o) = Newest(chain).evidence
               /\ IsExtension(chain) /\ pred # <<>>
               /\ Newest(pred).m.ledger # Newest(chain).m.ledger
<1> DEFINE chain == Made1(o)
           pred == Before(chain)
<1>1. /\ o.plan = SupersedeSteps(chain) /\ IsExtension(chain) /\ pred # <<>>
      /\ Newest(pred).m.ledger # Newest(chain).m.ledger
  BY DEF Shape, PlanIs
<1> HIDE DEF chain
<1>2. /\ Len(o.plan) = 7
      /\ o.plan[1] = New(<<"evidence", Newest(chain).evidence>>, None)
      /\ o.plan[2] = New(<<"note", Newest(chain).day>>, Note(chain))
      /\ o.plan[3] = New(<<"history-manifest", pred>>, None)
      /\ o.plan[4] = New(<<"history-note", Note(pred)>>, None)
      /\ o.plan[5] = New(<<"history-ledger", Newest(pred).m.ledger>>, None)
      /\ o.plan[6] = Step("validate", Canonical, chain)
      /\ o.plan[7] = Step("replace", Canonical, chain)
  BY <1>1 DEF SupersedeSteps
<1>3. Shown(o) = Newest(chain).evidence
  BY <1>2 DEF Shown, New, Step
<1> QED BY <1>1, <1>2, <1>3 DEF chain

\* Step by step, the plan of a rejection.
LEMMA RejectIs ==
    ASSUME NEW o, Shape(o), o.kind = "reject"
    PROVE  /\ Len(o.plan) = 5
           /\ o.plan[1] = New(<<"evidence", Shown(o)>>, None)
           /\ o.plan[2] = New(<<"receipt", Shown(o), o.day>>, None)
           /\ o.plan[3] = New(<<"submission", Shown(o), o.day>>, None)
           /\ o.plan[4] = Step("ledger", <<"ledger">>,
                               Rejected(o.opened, Shown(o).answer.failed))
           /\ o.plan[5] = Step("report", <<"ledger">>, None)
           /\ Shown(o).m.ledger = o.opened /\ Shown(o).answer.failed # {}
<1> DEFINE e == Shown(o)
<1>1. o.plan = RejectSteps(e, o.day) /\ e.m.ledger = o.opened /\ e.answer.failed # {}
  BY DEF Shape, PlanIs
<1> HIDE DEF e
<1>2. /\ Len(o.plan) = 5
      /\ o.plan[1] = New(<<"evidence", e>>, None)
      /\ o.plan[2] = New(<<"receipt", e, o.day>>, None)
      /\ o.plan[3] = New(<<"submission", e, o.day>>, None)
      /\ o.plan[4] = Step("ledger", <<"ledger">>, Rejected(e.m.ledger, e.answer.failed))
      /\ o.plan[5] = Step("report", <<"ledger">>, None)
  BY <1>1 DEF RejectSteps
<1> QED BY <1>1, <1>2 DEF e

\* The only step of a refresh.
LEMMA RefreshIs ==
    ASSUME NEW o, Shape(o), o.kind = "refresh"
    PROVE  Len(o.plan) = 1 /\ o.plan[1] = Step("put", Canonical, o.plan[1].content)
<1>1. o.plan = <<Step("put", Canonical, o.plan[1].content)>>
  BY DEF Shape, PlanIs
<1> DEFINE c == o.plan[1].content
<1> HIDE DEF c
<1>2. o.plan = <<Step("put", Canonical, c)>>
  BY <1>1 DEF c
<1>3. Len(o.plan) = 1 /\ o.plan[1] = Step("put", Canonical, c)
  BY <1>2
<1> QED BY <1>3 DEF c

\* A sample is before its answer, or after it, or over.
LEMMA SampleOpIs ==
    ASSUME NEW o, Shape(o), o.kind = "sample"
    PROVE  \/ Len(o.plan) = 0
           \/ /\ Len(o.plan) = 1
              /\ o.plan[1] = Step("answer", Pending, o.plan[1].content)
           \/ /\ Answered(o)
              /\ SampleShape(o.plan, Asked(o), Said(o))
              /\ Said(o).no = o.day
              /\ Said(o).failed \subseteq Active(Asked(o).ledger)
<1> DEFINE c == o.plan[1].content
           m == Asked(o)
           a == Said(o)
<1>1. \/ o.plan = <<>>
      \/ o.plan = <<Step("answer", Pending, c)>>
      \/ /\ o.plan = SampleSteps(m, a)
         /\ a.no = o.day /\ a.failed \subseteq Active(m.ledger)
  BY DEF Shape, PlanIs, SamplePlan
<1> HIDE DEF c, m, a
<1>2. CASE o.plan = <<>>
  BY <1>2
<1>3. CASE o.plan = <<Step("answer", Pending, c)>>
  <2>1. Len(o.plan) = 1 /\ o.plan[1] = Step("answer", Pending, c)
    BY <1>3
  <2> QED BY <2>1 DEF c
<1>4. CASE /\ o.plan = SampleSteps(m, a)
           /\ a.no = o.day /\ a.failed \subseteq Active(m.ledger)
  <2>1. SampleShape(o.plan, m, a)
    BY <1>4, SampleIs
  <2>2. Answered(o)
    BY <2>1 DEF Answered, SampleShape
  <2> QED BY <1>4, <2>1, <2>2 DEF m, a
<1> QED BY <1>1, <1>2, <1>3, <1>4

\* An answer carries the number of its command.
LEMMA AnswerIs ==
    ASSUME NEW o, Shape(o), Answered(o)
    PROVE  Said(o).no = o.day /\ Said(o).failed \subseteq Active(Asked(o).ledger)
<1>1. o.kind = "sample" /\ Len(o.plan) = 12
  BY DEF Answered
<1>2. Len(o.plan) # 0 /\ Len(o.plan) # 1
  BY <1>1
<1> QED BY <1>1, <1>2, SampleOpIs, Zenon

\* The command o is at a step that does this.
Doing(o, do) == ~o.failed /\ o.at <= Len(o.plan) /\ o.plan[o.at].do = do

Step1(o) == o.plan[o.at]

\* The steps of a sample, by what they do.
LEMMA SampleDoing ==
    ASSUME NEW o, Shape(o), o.kind = "sample", NEW do, Doing(o, do)
    PROVE  \/ do = "answer" /\ o.at = 1 /\ Len(o.plan) = 1
           \/ /\ Answered(o)
              /\ \/ do \in {"look", "look-again"} /\ o.at \in {1, 2}
                 \/ /\ do = "put" /\ o.at = 3
                    /\ Step1(o) = Step("put", Pending, Asked(o))
                 \/ \E i \in 1..3 :
                       \/ do = "look" /\ o.at = 3 * i + 1
                       \/ /\ do = "look-again" /\ o.at = 3 * i + 2
                          /\ Step1(o) = Step("look-again", <<Artifacts[i], Asked(o)>>, Said(o))
                       \/ /\ do = "put" /\ o.at = 3 * i + 3
                          /\ Step1(o) = Step("put", <<Artifacts[i], Asked(o)>>, Said(o))
<1>1. o.at \in Nat \ {0} /\ o.at <= Len(o.plan) /\ Step1(o).do = do
  BY DEF Shape, Doing, Step1
<1>2. CASE Len(o.plan) = 0
  BY <1>1, <1>2
<1>3. CASE /\ Len(o.plan) = 1
           /\ o.plan[1] = Step("answer", Pending, o.plan[1].content)
  <2>1. o.at = 1
    BY <1>1, <1>3
  <2>2. o.plan[1].do = "answer"
    BY <1>3 DEF Step
  <2> QED BY <1>1, <1>3, <2>1, <2>2 DEF Step1
<1>4. CASE Answered(o) /\ SampleShape(o.plan, Asked(o), Said(o))
  <2> DEFINE m == Asked(o)
             a == Said(o)
  <2>1. Answered(o) /\ SampleShape(o.plan, m, a)
    BY <1>4
  <2> HIDE DEF m, a
  <2>2. o.at \in 1..12
    BY <1>1, <1>4 DEF SampleShape
  <2>3. \/ o.at \in {1, 2, 3}
        \/ \E i \in 1..3 : o.at \in {3 * i + 1, 3 * i + 2, 3 * i + 3}
    <3>1. CASE o.at \in {4, 5, 6}
      BY <3>1, o.at \in {3 * 1 + 1, 3 * 1 + 2, 3 * 1 + 3}
    <3>2. CASE o.at \in {7, 8, 9}
      BY <3>2, o.at \in {3 * 2 + 1, 3 * 2 + 2, 3 * 2 + 3}
    <3>3. CASE o.at \in {10, 11, 12}
      BY <3>3, o.at \in {3 * 3 + 1, 3 * 3 + 2, 3 * 3 + 3}
    <3> QED BY <2>2, <3>1, <3>2, <3>3
  <2>4. CASE o.at \in {1, 2}
    <3>1. Step1(o).do \in {"look", "look-again"}
      BY <2>1, <2>4 DEF SampleShape, Step, Step1
    <3> QED BY <1>1, <2>1, <2>4, <3>1
  <2>5. CASE o.at = 3
    <3>1. Step1(o) = Step("put", Pending, m)
      BY <2>1, <2>5 DEF SampleShape, Step1
    <3>2. Step1(o).do = "put"
      BY <3>1 DEF Step
    <3> QED BY <1>1, <2>1, <2>5, <3>1, <3>2 DEF m
  <2>6. ASSUME NEW i \in 1..3, o.at \in {3 * i + 1, 3 * i + 2, 3 * i + 3}
        PROVE  \/ do = "look" /\ o.at = 3 * i + 1
               \/ /\ do = "look-again" /\ o.at = 3 * i + 2
                  /\ Step1(o) = Step("look-again", <<Artifacts[i], m>>, a)
               \/ /\ do = "put" /\ o.at = 3 * i + 3
                  /\ Step1(o) = Step("put", <<Artifacts[i], m>>, a)
    <3>1. /\ o.plan[3 * i + 1] = Step("look", <<Artifacts[i], m>>, a)
          /\ o.plan[3 * i + 2] = Step("look-again", <<Artifacts[i], m>>, a)
          /\ o.plan[3 * i + 3] = Step("put", <<Artifacts[i], m>>, a)
      BY <2>1 DEF SampleShape
    <3>2. \A path, content : /\ Step("look", path, content).do = "look"
                             /\ Step("look-again", path, content).do = "look-again"
                             /\ Step("put", path, content).do = "put"
      BY DEF Step
    <3>3. CASE o.at = 3 * i + 1
      BY <1>1, <3>1, <3>2, <3>3 DEF Step1
    <3>4. CASE o.at = 3 * i + 2
      BY <1>1, <3>1, <3>2, <3>4 DEF Step1
    <3>5. CASE o.at = 3 * i + 3
      BY <1>1, <3>1, <3>2, <3>5 DEF Step1
    <3> QED BY <2>6, <3>3, <3>4, <3>5
  <2> QED BY <2>1, <2>3, <2>4, <2>5, <2>6 DEF m, a
<1> QED BY <1>2, <1>3, <1>4, SampleOpIs


\* A sample takes no step but these four.
LEMMA SampleDoes ==
    ASSUME NEW o, Shape(o), o.kind = "sample", NEW do, Doing(o, do)
    PROVE  do \in {"answer", "look", "look-again", "put"}
BY SampleDoing

\* A sample waits for its answer first.
LEMMA Answering ==
    ASSUME NEW o, Shape(o), o.kind = "sample", Doing(o, "answer")
    PROVE  o.at = 1
<1>1. ASSUME NEW do, Doing(o, do) PROVE o.at = 1 \/ do \in {"look", "look-again", "put"}
  BY <1>1, SampleDoing
<1>2. o.at = 1 \/ "answer" \in {"look", "look-again", "put"}
  BY <1>1
<1> QED BY <1>2

\* What the commands that take a lock do, step by step.
LEMMA LockedDoing ==
    ASSUME NEW o, Shape(o), o.kind # "sample", NEW do, Doing(o, do)
    PROVE  \/ /\ o.kind = "accept" /\ Len(o.plan) = 4
              /\ (o.at \in {1, 2, 4} /\ do = "new") \/ (o.at = 3 /\ do = "validate")
           \/ /\ o.kind = "supersede" /\ Len(o.plan) = 7
              /\ \/ o.at \in 1..5 /\ do = "new"
                 \/ o.at = 6 /\ do = "validate"
                 \/ o.at = 7 /\ do = "replace"
           \/ /\ o.kind = "reject" /\ Len(o.plan) = 5
              /\ \/ o.at \in 1..3 /\ do = "new"
                 \/ o.at = 4 /\ do = "ledger"
                 \/ o.at = 5 /\ do = "report"
           \/ /\ o.kind = "refresh" /\ Len(o.plan) = 1
              /\ o.at = 1 /\ do = "put"
<1>1. o.at \in Nat \ {0} /\ o.at <= Len(o.plan) /\ o.plan[o.at].do = do /\ o.kind \in Kinds
  BY DEF Shape, Doing
<1>6. \A do1, path, content : /\ Step(do1, path, content).do = do1
                             /\ New(path, content).do = "new"
  BY DEF New, Step
<1>2. CASE o.kind = "accept"
  <2>1. /\ Len(o.plan) = 4
        /\ o.plan[1].do = "new" /\ o.plan[2].do = "new"
        /\ o.plan[3].do = "validate" /\ o.plan[4].do = "new"
    <3>1. /\ Len(o.plan) = 4
          /\ o.plan[1] = New(<<"evidence", Newest(Made1(o)).evidence>>, None)
          /\ o.plan[2] = New(<<"note", Newest(Made1(o)).day>>, Note(Made1(o)))
          /\ o.plan[3] = Step("validate", Canonical, Made1(o))
          /\ o.plan[4] = New(Canonical, Made1(o))
      BY <1>2, AcceptIs
    <3> QED BY <1>6, <3>1
  <2> QED BY <1>1, <1>2, <2>1
<1>3. CASE o.kind = "supersede"
  <2>1. /\ Len(o.plan) = 7
        /\ o.plan[1].do = "new" /\ o.plan[2].do = "new" /\ o.plan[3].do = "new"
        /\ o.plan[4].do = "new" /\ o.plan[5].do = "new"
        /\ o.plan[6].do = "validate" /\ o.plan[7].do = "replace"
    <3> DEFINE pred == Before(Made1(o))
    <3>1. /\ Len(o.plan) = 7
          /\ o.plan[1] = New(<<"evidence", Newest(Made1(o)).evidence>>, None)
          /\ o.plan[2] = New(<<"note", Newest(Made1(o)).day>>, Note(Made1(o)))
          /\ o.plan[3] = New(<<"history-manifest", pred>>, None)
          /\ o.plan[4] = New(<<"history-note", Note(pred)>>, None)
          /\ o.plan[5] = New(<<"history-ledger", Newest(pred).m.ledger>>, None)
          /\ o.plan[6] = Step("validate", Canonical, Made1(o))
          /\ o.plan[7] = Step("replace", Canonical, Made1(o))
      BY <1>3, SupersedeIs
    <3> QED BY <1>6, <3>1
  <2> QED BY <1>1, <1>3, <2>1
<1>4. CASE o.kind = "reject"
  <2>1. /\ Len(o.plan) = 5
        /\ o.plan[1].do = "new" /\ o.plan[2].do = "new" /\ o.plan[3].do = "new"
        /\ o.plan[4].do = "ledger" /\ o.plan[5].do = "report"
    <3> DEFINE e == Shown(o)
    <3>1. /\ Len(o.plan) = 5
          /\ o.plan[1] = New(<<"evidence", e>>, None)
          /\ o.plan[2] = New(<<"receipt", e, o.day>>, None)
          /\ o.plan[3] = New(<<"submission", e, o.day>>, None)
          /\ o.plan[4] = Step("ledger", <<"ledger">>, Rejected(o.opened, e.answer.failed))
          /\ o.plan[5] = Step("report", <<"ledger">>, None)
      BY <1>4, RejectIs
    <3> HIDE DEF e
    <3> QED BY <1>6, <3>1
  <2> QED BY <1>1, <1>4, <2>1
<1>5. CASE o.kind = "refresh"
  <2>1. Len(o.plan) = 1 /\ o.plan[1].do = "put"
    BY <1>5, <1>6, RefreshIs
  <2> QED BY <1>1, <1>5, <2>1
<1> QED BY <1>1, <1>2, <1>3, <1>4, <1>5 DEF Kinds

\* A file that a command creates is of its kind; the manifest comes last.
LEMMA Creating ==
    ASSUME NEW o, Shape(o), Doing(o, "new")
    PROVE  LET path == Step1(o).path
           IN  /\ o.kind \in {"accept", "supersede", "reject"}
               /\ Makes(o.kind, path)
               /\ o.at = 1 => path = <<"evidence", Shown(o)>>
               /\ path[1] = "evidence" => o.at = 1
               /\ IF path[1] = "manifest"
                  THEN /\ o.kind = "accept" /\ o.at = 4 /\ Len(o.plan) = 4
                       /\ path = Canonical /\ Step1(o).content = Made1(o)
                  ELSE o.at < Len(o.plan)
               /\ path[1] # "ledger"
<1> DEFINE path == Step1(o).path
           new == Newest(Made1(o))
           e == Shown(o)
<1>1. o.at \in Nat \ {0} /\ o.at <= Len(o.plan) /\ Step1(o).do = "new" /\ o.kind \in Kinds
  BY DEF Shape, Doing, Step1
<1>2. \A x, y : New(x, y).path = x /\ New(x, y).content = y
  BY DEF New, Step
<1>3. \A x, y : /\ Step("validate", x, y).do # "new" /\ Step("replace", x, y).do # "new"
                /\ Step("ledger", x, y).do # "new" /\ Step("report", x, y).do # "new"
                /\ Step("put", x, y).do # "new"
  BY DEF Step
<1>4. CASE o.kind = "accept"
  <2>1. /\ Len(o.plan) = 4
        /\ o.plan[1] = New(<<"evidence", new.evidence>>, None)
        /\ o.plan[2] = New(<<"note", new.day>>, Note(Made1(o)))
        /\ o.plan[3] = Step("validate", Canonical, Made1(o))
        /\ o.plan[4] = New(Canonical, Made1(o))
        /\ e = new.evidence /\ new.evidence.answer.failed = {}
    BY <1>4, AcceptIs DEF IsExtension
  <2>2. o.at \in {1, 2, 4}
    BY <1>1, <1>3, <2>1 DEF Step1
  <2>3. CASE o.at = 1
    <3>1. path = <<"evidence", e>>
      BY <1>2, <2>1, <2>3 DEF Step1
    <3> QED BY <1>4, <2>1, <2>3, <3>1 DEF Makes
  <2>4. CASE o.at = 2
    <3>1. path = <<"note", new.day>>
      BY <1>2, <2>1, <2>4 DEF Step1
    <3> QED BY <1>4, <2>1, <2>4, <3>1 DEF Makes
  <2>5. CASE o.at = 4
    <3>1. path = Canonical /\ Step1(o).content = Made1(o)
      BY <1>2, <2>1, <2>5 DEF Step1
    <3> QED BY <1>4, <2>1, <2>5, <3>1 DEF Makes, Canonical
  <2> QED BY <2>2, <2>3, <2>4, <2>5
<1>5. CASE o.kind = "supersede"
  <2> DEFINE pred == Before(Made1(o))
  <2>1. /\ Len(o.plan) = 7
        /\ o.plan[1] = New(<<"evidence", new.evidence>>, None)
        /\ o.plan[2] = New(<<"note", new.day>>, Note(Made1(o)))
        /\ o.plan[3] = New(<<"history-manifest", pred>>, None)
        /\ o.plan[4] = New(<<"history-note", Note(pred)>>, None)
        /\ o.plan[5] = New(<<"history-ledger", Newest(pred).m.ledger>>, None)
        /\ o.plan[6] = Step("validate", Canonical, Made1(o))
        /\ o.plan[7] = Step("replace", Canonical, Made1(o))
        /\ e = new.evidence /\ new.evidence.answer.failed = {}
    BY <1>5, SupersedeIs DEF IsExtension
  <2>2. o.at \in 1..5
    BY <1>1, <1>3, <2>1 DEF Step1
  <2>3. CASE o.at = 1
    <3>1. path = <<"evidence", e>>
      BY <1>2, <2>1, <2>3 DEF Step1
    <3> QED BY <1>5, <2>1, <2>3, <3>1 DEF Makes
  <2>4. CASE o.at \in 2..5
    <3>1. path[1] \in {"note", "history-manifest", "history-note", "history-ledger"}
      <4>1. CASE o.at = 2
        <5>1. path = <<"note", new.day>>
          BY <1>2, <2>1, <4>1 DEF Step1
        <5> QED BY <5>1
      <4>2. CASE o.at = 3
        <5>1. path = <<"history-manifest", pred>>
          BY <1>2, <2>1, <4>2 DEF Step1
        <5> QED BY <5>1
      <4>3. CASE o.at = 4
        <5>1. path = <<"history-note", Note(pred)>>
          BY <1>2, <2>1, <4>3 DEF Step1
        <5> QED BY <5>1
      <4>4. CASE o.at = 5
        <5>1. path = <<"history-ledger", Newest(pred).m.ledger>>
          BY <1>2, <2>1, <4>4 DEF Step1
        <5> QED BY <5>1
      <4> QED BY <2>4, <4>1, <4>2, <4>3, <4>4
    <3> QED BY <1>5, <2>1, <2>4, <3>1 DEF Makes
  <2> QED BY <2>2, <2>3, <2>4
<1>6. CASE o.kind = "reject"
  <2>1. /\ Len(o.plan) = 5
        /\ o.plan[1] = New(<<"evidence", e>>, None)
        /\ o.plan[2] = New(<<"receipt", e, o.day>>, None)
        /\ o.plan[3] = New(<<"submission", e, o.day>>, None)
        /\ o.plan[4].do # "new" /\ o.plan[5].do # "new"
        /\ e.answer.failed # {}
    BY <1>3, <1>6, RejectIs
  <2>2. o.at \in 1..3
    BY <1>1, <2>1 DEF Step1
  <2>3. CASE o.at = 1
    <3>1. path = <<"evidence", e>>
      BY <1>2, <2>1, <2>3 DEF Step1
    <3> QED BY <1>6, <2>1, <2>3, <3>1 DEF Makes
  <2>4. CASE o.at = 2
    <3>1. path = <<"receipt", e, o.day>>
      BY <1>2, <2>1, <2>4 DEF Step1
    <3> QED BY <1>6, <2>1, <2>4, <3>1 DEF Makes
  <2>5. CASE o.at = 3
    <3>1. path = <<"submission", e, o.day>>
      BY <1>2, <2>1, <2>5 DEF Step1
    <3> QED BY <1>6, <2>1, <2>5, <3>1 DEF Makes
  <2> QED BY <2>2, <2>3, <2>4, <2>5
<1>7. o.kind # "refresh"
  BY <1>1, <1>3, RefreshIs DEF Step1
<1>8. o.kind # "sample"
  BY SampleDoes
<1> QED BY <1>1, <1>4, <1>5, <1>6, <1>7, <1>8 DEF Kinds

\* A rename over what is there: of a file in scratch, or of a refreshed manifest.
LEMMA Putting ==
    ASSUME NEW o, Shape(o), Doing(o, "put")
    PROVE  \/ /\ o.kind = "sample" /\ Answered(o)
              /\ \/ o.at = 3 /\ Step1(o) = Step("put", Pending, Asked(o))
                 \/ \E i \in 1..3 :
                       /\ o.at = 3 * i + 3
                       /\ Step1(o) = Step("put", <<Artifacts[i], Asked(o)>>, Said(o))
           \/ /\ o.kind = "refresh" /\ o.at = 1
              /\ Step1(o) = Step("put", Canonical, o.plan[1].content)
<1>1. CASE o.kind = "sample"
  BY <1>1, SampleDoing
<1>2. CASE o.kind # "sample"
  <2>1. o.kind = "refresh" /\ o.at = 1
    BY <1>2, LockedDoing
  <2> QED BY <2>1, RefreshIs DEF Step1
<1> QED BY <1>1, <1>2

\* Looks are of samples; the other steps belong to one kind of command each.
LEMMA Validating ==
    ASSUME NEW o, Shape(o), Doing(o, "validate")
    PROVE  /\ o.kind \in {"accept", "supersede"}
           /\ o.at = Len(o.plan) - 1
           /\ Step1(o).content = Made1(o)
<1>1. o.kind # "sample"
  BY SampleDoes
<1>2. \/ o.kind = "accept" /\ o.at = 3 /\ Len(o.plan) = 4
      \/ o.kind = "supersede" /\ o.at = 6 /\ Len(o.plan) = 7
  BY <1>1, LockedDoing
<1>3. CASE o.kind = "accept"
  <2>1. o.plan[3] = Step("validate", Canonical, Made1(o))
    BY <1>3, AcceptIs
  <2>2. o.at = 3 /\ Len(o.plan) = 4
    BY <1>2, <1>3
  <2>3. Step1(o).content = Made1(o)
    BY <2>1, <2>2 DEF Step1, Step
  <2> QED BY <1>3, <2>2, <2>3
<1>4. CASE o.kind = "supersede"
  <2>1. o.plan[6] = Step("validate", Canonical, Made1(o))
    BY <1>4, SupersedeIs
  <2>2. o.at = 6 /\ Len(o.plan) = 7
    BY <1>2, <1>4
  <2>3. Step1(o).content = Made1(o)
    BY <2>1, <2>2 DEF Step1, Step
  <2> QED BY <1>4, <2>2, <2>3
<1> QED BY <1>2, <1>3, <1>4

\* Only the last step of a supersede replaces the manifest.
LEMMA Replacing ==
    ASSUME NEW o, Shape(o), Doing(o, "replace")
    PROVE  /\ o.kind = "supersede" /\ o.at = 7 /\ Len(o.plan) = 7
           /\ Step1(o).content = Made1(o)
<1>1. o.kind # "sample"
  BY SampleDoes
<1>2. o.kind = "supersede" /\ o.at = 7 /\ Len(o.plan) = 7
  BY <1>1, LockedDoing
<1>3. o.plan[7] = Step("replace", Canonical, Made1(o))
  BY <1>2, SupersedeIs
<1> QED BY <1>2, <1>3 DEF Step1, Step

\* Only the fourth step of a rejection replaces the ledger.
LEMMA Rejection ==
    ASSUME NEW o, Shape(o), Doing(o, "ledger")
    PROVE  /\ o.kind = "reject" /\ o.at = 4 /\ Len(o.plan) = 5
           /\ Step1(o).path = <<"ledger">>
           /\ Step1(o).content = Rejected(o.opened, Shown(o).answer.failed)
<1>1. o.kind # "sample"
  BY SampleDoes
<1>2. o.kind = "reject" /\ o.at = 4 /\ Len(o.plan) = 5
  BY <1>1, LockedDoing
<1>3. o.plan[4] = Step("ledger", <<"ledger">>, Rejected(o.opened, Shown(o).answer.failed))
  BY <1>2, RejectIs
<1> QED BY <1>2, <1>3 DEF Step1, Step

\* Only a sample asks and looks.
LEMMA Scratching ==
    ASSUME NEW o, Shape(o), NEW do \in {"answer", "look", "look-again"}, Doing(o, do)
    PROVE  o.kind = "sample"
BY LockedDoing
-----------------------------------------------------------------------------
(* How a command goes on.                                                  *)

Ahead(o, n) == Work7(o.kind, o.day, o.plan, o.at + n, o.made, o.opened, o.failed)
Taken(o) == Work7(o.kind, o.day, o.plan, 1, o.made, o.opened, TRUE)
Maker(o, path) == Work7(o.kind, o.day, o.plan, o.at + 1, o.made \cup {path}, o.opened, o.failed)
Planned(o, plan) == Work7(o.kind, o.day, plan, o.at, o.made, o.opened, o.failed)

\* The fields of a command.
LEMMA WorkFields ==
    ASSUME NEW kind, NEW day, NEW plan, NEW at, NEW made, NEW opened, NEW failed
    PROVE  LET o == Work7(kind, day, plan, at, made, opened, failed)
           IN  /\ o.kind = kind /\ o.day = day /\ o.plan = plan /\ o.at = at
               /\ o.made = made /\ o.opened = opened /\ o.failed = failed
BY DEF Work7

IsWork(o) == o = Work7(o.kind, o.day, o.plan, o.at, o.made, o.opened, o.failed)

\* A command at another step.
LEMMA AtIs ==
    ASSUME NEW o, IsWork(o), NEW v
    PROVE  [o EXCEPT !.at = v] = Work7(o.kind, o.day, o.plan, v, o.made, o.opened, o.failed)
BY SMT DEF IsWork, Work7

\* A command that fails.
LEMMA FailedIs ==
    ASSUME NEW o, IsWork(o), NEW v
    PROVE  [o EXCEPT !.failed = v] = Work7(o.kind, o.day, o.plan, o.at, o.made, o.opened, v)
BY SMT DEF IsWork, Work7

\* A command that has made something else.
LEMMA MadeIs ==
    ASSUME NEW o, IsWork(o), NEW v
    PROVE  [o EXCEPT !.made = v] = Work7(o.kind, o.day, o.plan, o.at, v, o.opened, o.failed)
BY SMT DEF IsWork, Work7

\* A command with another plan.
LEMMA PlannedIs ==
    ASSUME NEW o, IsWork(o), NEW v
    PROVE  [o EXCEPT !.plan = v] = Planned(o, v)
BY SMT DEF IsWork, Work7, Planned

\* A command that begins to take back its work.
LEMMA TakenIs ==
    ASSUME NEW o, IsWork(o)
    PROVE  [[o EXCEPT !.failed = TRUE] EXCEPT !.at = 1] = Taken(o)
<1> DEFINE f == [o EXCEPT !.failed = TRUE]
<1>1. f = Work7(o.kind, o.day, o.plan, o.at, o.made, o.opened, TRUE)
  BY FailedIs
<1> HIDE DEF f
<1>2. /\ IsWork(f) /\ f.kind = o.kind /\ f.day = o.day /\ f.plan = o.plan
      /\ f.made = o.made /\ f.opened = o.opened /\ f.failed = TRUE
  BY <1>1 DEF IsWork, Work7
<1>3. [f EXCEPT !.at = 1] = Work7(f.kind, f.day, f.plan, 1, f.made, f.opened, f.failed)
  BY <1>2, AtIs
<1>4. [f EXCEPT !.at = 1] = Taken(o)
  BY <1>2, <1>3 DEF Taken
<1> QED BY <1>4 DEF f

\* A command that has made one more file.
LEMMA MakerIs ==
    ASSUME NEW o, IsWork(o), NEW path
    PROVE  [[o EXCEPT !.at = o.at + 1] EXCEPT !.made = o.made \cup {path}] = Maker(o, path)
<1> DEFINE f == [o EXCEPT !.at = o.at + 1]
<1>1. f = Work7(o.kind, o.day, o.plan, o.at + 1, o.made, o.opened, o.failed)
  BY AtIs
<1> HIDE DEF f
<1>2. /\ IsWork(f) /\ f.kind = o.kind /\ f.day = o.day /\ f.plan = o.plan
      /\ f.at = o.at + 1 /\ f.opened = o.opened /\ f.failed = o.failed
  BY <1>1 DEF IsWork, Work7
<1>3. [f EXCEPT !.made = o.made \cup {path}] =
          Work7(f.kind, f.day, f.plan, f.at, o.made \cup {path}, f.opened, f.failed)
  BY <1>2, MadeIs
<1>4. [f EXCEPT !.made = o.made \cup {path}] = Maker(o, path)
  BY <1>2, <1>3 DEF Maker
<1> QED BY <1>4 DEF f

\* The command of p is now o.
Becomes(p, o) == op' = [q \in Procs |-> IF q = p THEN o ELSE op[q]]

\* What each assignment to op[p] makes of the command.
LEMMA OpSteps ==
    ASSUME op = [q \in Procs |-> op[q]], NEW p \in Procs, IsWork(op[p])
    PROVE  /\ Advance(p) => Becomes(p, Ahead(op[p], 1))
           /\ op' = [op EXCEPT ![p].at = @ + 3] => Becomes(p, Ahead(op[p], 3))
           /\ Abort(p) => Becomes(p, Taken(op[p]))
           /\ Made(p) => Becomes(p, Maker(op[p], Now(p).path))
           /\ \A plan : op' = [op EXCEPT ![p].plan = plan] => Becomes(p, Planned(op[p], plan))
<1> DEFINE o == op[p]
<1>1. ASSUME NEW n, op' = [op EXCEPT ![p].at = @ + n]
      PROVE  Becomes(p, Ahead(o, n))
  <2>1. op' = [q \in Procs |-> IF q = p THEN [o EXCEPT !.at = o.at + n] ELSE op[q]]
    BY <1>1, Zenon
  <2>2. [o EXCEPT !.at = o.at + n] = Ahead(o, n)
    BY AtIs, Zenon DEF Ahead
  <2> QED BY <2>1, <2>2, Zenon DEF Becomes
<1>2. ASSUME Abort(p) PROVE Becomes(p, Taken(o))
  <2>1. op' = [q \in Procs |-> IF q = p THEN [[o EXCEPT !.failed = TRUE] EXCEPT !.at = 1]
                              ELSE op[q]]
    BY <1>2 DEF Abort
  <2>2. [[o EXCEPT !.failed = TRUE] EXCEPT !.at = 1] = Taken(o)
    BY TakenIs, Zenon
  <2> QED BY <2>1, <2>2, Zenon DEF Becomes
<1>3. ASSUME Made(p) PROVE Becomes(p, Maker(o, Now(p).path))
  <2>1. op' = [q \in Procs |->
                IF q = p THEN [[o EXCEPT !.at = o.at + 1] EXCEPT !.made = o.made \cup {Now(p).path}]
                ELSE op[q]]
    BY <1>3 DEF Made
  <2>2. [[o EXCEPT !.at = o.at + 1] EXCEPT !.made = o.made \cup {Now(p).path}]
            = Maker(o, Now(p).path)
    BY MakerIs, Zenon
  <2> QED BY <2>1, <2>2, Zenon DEF Becomes
<1>4. ASSUME NEW plan, op' = [op EXCEPT ![p].plan = plan]
      PROVE  Becomes(p, Planned(o, plan))
  <2>1. op' = [q \in Procs |-> IF q = p THEN [o EXCEPT !.plan = plan] ELSE op[q]]
    BY <1>4
  <2>2. [o EXCEPT !.plan = plan] = Planned(o, plan)
    BY PlannedIs, Zenon
  <2> QED BY <2>1, <2>2, Zenon DEF Becomes
<1> QED BY <1>1, <1>2, <1>3, <1>4 DEF Advance

\* A command keeps its plan, and with it its shape, on each of its steps.
LEMMA SamePlan ==
    ASSUME NEW o, PlanIs(o), NEW at, NEW made, NEW failed
    PROVE  PlanIs(Work7(o.kind, o.day, o.plan, at, made, o.opened, failed))
<1> DEFINE x == Work7(o.kind, o.day, o.plan, at, made, o.opened, failed)
<1>1. x.kind = o.kind /\ x.day = o.day /\ x.plan = o.plan /\ x.opened = o.opened
  BY WorkFields
<1> HIDE DEF x
<1>2. Made1(x) = Made1(o) /\ Shown(x) = Shown(o) /\ Asked(x) = Asked(o) /\ Said(x) = Said(o)
  BY <1>1 DEF Made1, Shown, Asked, Said
<1>3. SamplePlan(o) => SamplePlan(x)
  BY <1>1, <1>2 DEF SamplePlan
<1>4. PlanIs(x)
  BY <1>1, <1>2, <1>3 DEF PlanIs
<1> QED BY <1>4 DEF x

\* A command keeps its shape while it moves along its plan.
LEMMA ShapeOf ==
    ASSUME NEW o, Shape(o), NEW at \in Nat \ {0}, NEW made, NEW failed \in BOOLEAN,
           \A path \in made : /\ Makes(o.kind, path)
                              /\ path[1] = "manifest" => ~failed /\ at > Len(o.plan)
    PROVE  Shape(Work7(o.kind, o.day, o.plan, at, made, o.opened, failed))
<1> DEFINE x == Work7(o.kind, o.day, o.plan, at, made, o.opened, failed)
<1>1. /\ x.kind = o.kind /\ x.day = o.day /\ x.plan = o.plan /\ x.at = at
      /\ x.made = made /\ x.opened = o.opened /\ x.failed = failed
  BY WorkFields
<1>2. PlanIs(x)
  BY SamePlan DEF Shape
<1>3. x = Work7(x.kind, x.day, x.plan, x.at, x.made, x.opened, x.failed)
  BY <1>1
<1> HIDE DEF x
<1>4. o.kind \in Kinds /\ o.opened \in Ledgers
  BY DEF Shape
<1> QED BY <1>1, <1>2, <1>3, <1>4 DEF Shape, Finished

\* Every plan is finite.
LEMMA PlanLength ==
    ASSUME NEW o, Shape(o)
    PROVE  Len(o.plan) \in Nat
<1>1. CASE o.kind = "accept"
  BY <1>1, AcceptIs
<1>2. CASE o.kind = "supersede"
  BY <1>2, SupersedeIs
<1>3. CASE o.kind = "reject"
  BY <1>3, RejectIs
<1>4. CASE o.kind = "refresh"
  BY <1>4, RefreshIs
<1>5. CASE o.kind = "sample"
  BY <1>5, SampleOpIs DEF Answered
<1> QED BY <1>1, <1>2, <1>3, <1>4, <1>5 DEF Shape, Kinds

\* A command that goes ahead keeps its shape.
LEMMA ShapeAhead ==
    ASSUME NEW o, Shape(o), NEW n \in Nat
    PROVE  Shape(Ahead(o, n))
<1>1. o.at \in Nat \ {0} /\ o.failed \in BOOLEAN /\ Len(o.plan) \in Nat
  BY PlanLength DEF Shape
<1>2. \A path \in o.made : /\ Makes(o.kind, path)
                           /\ path[1] = "manifest" => ~o.failed /\ o.at > Len(o.plan)
  BY DEF Shape, Finished
<1>3. o.at + n \in Nat \ {0} /\ (o.at > Len(o.plan) => o.at + n > Len(o.plan))
  BY <1>1
<1>4. \A path \in o.made : /\ Makes(o.kind, path)
                           /\ path[1] = "manifest" => ~o.failed /\ o.at + n > Len(o.plan)
  BY <1>2, <1>3
<1>5. Shape(Work7(o.kind, o.day, o.plan, o.at + n, o.made, o.opened, o.failed))
  BY <1>1, <1>3, <1>4, ShapeOf
<1> QED BY <1>5 DEF Ahead

\* A command that starts to take back its work keeps its shape.
LEMMA ShapeTaken ==
    ASSUME NEW o, Shape(o), ~Finished(o)
    PROVE  Shape(Taken(o))
<1>1. \A path \in o.made : Makes(o.kind, path) /\ path[1] # "manifest"
  BY DEF Shape
<1>2. \A path \in o.made : /\ Makes(o.kind, path)
                           /\ path[1] = "manifest" => ~TRUE /\ 1 > Len(o.plan)
  BY <1>1
<1>3. 1 \in Nat \ {0} /\ TRUE \in BOOLEAN
  OBVIOUS
<1>4. Shape(Work7(o.kind, o.day, o.plan, 1, o.made, o.opened, TRUE))
  BY <1>2, <1>3, ShapeOf, Zenon
<1> QED BY <1>4 DEF Taken

\* A command that makes what its step says keeps its shape.
LEMMA ShapeMaker ==
    ASSUME NEW o, Shape(o), Doing(o, "new") \/ Doing(o, "ledger")
    PROVE  Shape(Maker(o, Step1(o).path))
<1> DEFINE path == Step1(o).path
<1>1. o.at \in Nat \ {0} /\ ~o.failed /\ Len(o.plan) \in Nat /\ o.at <= Len(o.plan)
  BY PlanLength DEF Shape, Doing
<1>2. Makes(o.kind, path) /\ (path[1] = "manifest" => o.at = Len(o.plan))
  <2>1. CASE Doing(o, "new")
    BY <2>1, Creating
  <2>2. CASE Doing(o, "ledger")
    <3>1. o.kind = "reject" /\ path = <<"ledger">>
      BY <2>2, Rejection
    <3> QED BY <3>1 DEF Makes
  <2> QED BY <2>1, <2>2
<1>3. \A x \in o.made : Makes(o.kind, x) /\ x[1] # "manifest"
  BY <1>1 DEF Shape, Finished
<1> HIDE DEF path
<1>4. \A x \in o.made \cup {path} : /\ Makes(o.kind, x)
                                    /\ x[1] = "manifest" => ~o.failed /\ o.at + 1 > Len(o.plan)
  BY <1>1, <1>2, <1>3
<1>5. o.at + 1 \in Nat \ {0} /\ o.failed \in BOOLEAN
  BY <1>1 DEF Shape
<1>6. Shape(Work7(o.kind, o.day, o.plan, o.at + 1, o.made \cup {path}, o.opened, o.failed))
  BY <1>4, <1>5, ShapeOf, Zenon
<1> QED BY <1>6 DEF Maker, path
-----------------------------------------------------------------------------
(* What a write, or a removal, leaves as it was.                           *)

ScratchNames == {"pending", "execution", "output", "state"}

\* Files that are removed leave the others as they were.
LEMMA WithoutIs ==
    ASSUME NEW f, NEW paths
    PROVE  /\ DOMAIN Without(f, paths) = DOMAIN f \ paths
           /\ \A x \in DOMAIN Without(f, paths) : Without(f, paths)[x] = f[x]
BY DEF Without

\* g has all of f that a chain is replayed from.
KeepsChains(f, g) ==
    \A path \in DOMAIN f :
        \/ path[1] \in {"note", "history-manifest", "history-note", "history-ledger"}
        \/ path[1] = "evidence" /\ path[2].answer.failed = {}
        => path \in DOMAIN g /\ g[path] = f[path]

\* A chain outlives every change that keeps the files of chains.
LEMMA ChainsKept ==
    ASSUME NEW f, NEW g, KeepsChains(f, g), NEW chain, IsChain(chain), Replays(f, chain)
    PROVE  Replays(g, chain)
<1>1. \A path \in Needs(chain) : path \in DOMAIN g /\ g[path] = f[path]
  BY NeedsThere DEF KeepsChains
<1> QED BY <1>1, ReplaysKept

\* Evidence of failures is enough as long as none of it goes.
LEMMA EvidentMore ==
    ASSUME NEW P, NEW Q, NEW l, Evident(P, l),
           \A path \in P : path[1] = "evidence" /\ path[2].answer.failed # {} => path \in Q
    PROVE  Evident(Q, l)
<1> SUFFICES ASSUME NEW b \in Blocks, l[b].status = "rejected"
             PROVE  \E path \in Q : Condemns(path, l, b)
  BY DEF Evident
<1>1. PICK path \in P : Condemns(path, l, b)
  BY DEF Evident
<1>2. path \in Q
  BY <1>1 DEF Condemns
<1> QED BY <1>1, <1>2

\* A file is written where there was none, or in scratch.
Apart(f, path) == path \notin DOMAIN f \/ path[1] \in ScratchNames

\* A new file, or one in scratch, is no file of a chain that is there.
LEMMA ApartKeeps ==
    ASSUME NEW f, NEW path, NEW content, Apart(f, path)
    PROVE  KeepsChains(f, Written(f, path, content))
<1> DEFINE g == Written(f, path, content)
<1>1. DOMAIN g = DOMAIN f \cup {path} /\ \A x \in DOMAIN f : x # path => g[x] = f[x]
  BY DEF Written
<1> HIDE DEF g
<1>2. KeepsChains(f, g)
  BY <1>1 DEF Apart, KeepsChains, ScratchNames
<1> QED BY <1>2 DEF g

\* What is accepted depends on the manifest alone.
LEMMA SameAccepted ==
    ASSUME NEW f, NEW g, (Canonical \in DOMAIN g) <=> (Canonical \in DOMAIN f),
           Canonical \in DOMAIN f => g[Canonical] = f[Canonical]
    PROVE  AcceptedIn(g) = AcceptedIn(f)
BY DEF AcceptedIn

\* A chain with one more acceptance is a chain.
LEMMA ExtensionIsChain ==
    ASSUME NEW chain, IsExtension(chain)
    PROVE  IsChain(chain)
<1>1. /\ IsChain(Before(chain)) /\ IsEntry(Newest(chain))
      /\ chain = Append(Before(chain), Newest(chain))
  BY DEF IsExtension
<1>2. IsChain(Append(Before(chain), Newest(chain)))
  BY <1>1, Appended
<1> QED BY <1>1, <1>2

\* What an acceptance makes is a chain.
LEMMA MadeChain ==
    ASSUME NEW o, Shape(o), o.kind \in {"accept", "supersede"}
    PROVE  IsChain(Made1(o)) /\ IsExtension(Made1(o))
<1>1. IsExtension(Made1(o))
  BY AcceptIs, SupersedeIs
<1> QED BY <1>1, ExtensionIsChain

\* What holds of a command beside the steps of the others.
Beside(f, l, o) == Undone(f, o) /\ Rejecting(f, l, o) /\ Accepting(f, o)

\* An acceptance does not notice a change that keeps the files of chains.
LEMMA AcceptingKept ==
    ASSUME NEW f, NEW g, KeepsChains(f, g), AcceptedIn(g) = AcceptedIn(f),
           NEW o, Shape(o), Accepting(f, o)
    PROVE  Accepting(g, o)
<1>1. ASSUME o.kind \in {"accept", "supersede"}, ~o.failed, o.at = Len(o.plan)
      PROVE  Replays(g, Made1(o))
  <2>1. IsChain(Made1(o)) /\ Replays(f, Made1(o))
    BY <1>1, MadeChain DEF Accepting
  <2> QED BY <2>1, ChainsKept
<1> QED BY <1>1 DEF Accepting

\* A command does not notice that a file of nobody's is written.
LEMMA WriteBeside ==
    ASSUME NEW f, NEW l, NEW o, Shape(o), Beside(f, l, o), NEW path, NEW content,
           Apart(f, path), path[1] # "manifest", o.failed => path \notin o.made
    PROVE  Beside(Written(f, path, content), l, o)
<1> DEFINE g == Written(f, path, content)
<1>1. /\ DOMAIN g = DOMAIN f \cup {path}
      /\ \A x \in DOMAIN f : x # path => g[x] = f[x]
      /\ KeepsChains(f, g)
  <2>1. KeepsChains(f, g)
    BY ApartKeeps
  <2> QED BY <2>1 DEF Written
<1>2. AcceptedIn(g) = AcceptedIn(f)
  <2>1. Canonical # path
    BY DEF Canonical
  <2> QED BY <1>1, <2>1, SameAccepted
<1> HIDE DEF g
<1>3. Undone(g, o)
  BY <1>1 DEF Beside, Undone
<1>4. Rejecting(g, l, o)
  <2>1. DOMAIN f \ o.made \subseteq DOMAIN g \ o.made /\ DOMAIN f \subseteq DOMAIN g
    BY <1>1
  <2>2. Evident(DOMAIN f \ o.made, o.opened) => Evident(DOMAIN g \ o.made, o.opened)
    BY <2>1 DEF Evident
  <2> QED BY <2>1, <2>2 DEF Beside, Rejecting
<1>5. Accepting(g, o)
  BY <1>1, <1>2, AcceptingKept DEF Beside
<1> QED BY <1>3, <1>4, <1>5 DEF Beside, g

\* The commands of one scope and of the other make different files.
LEMMA MakesApart ==
    ASSUME NEW k \in Kinds, NEW j \in Kinds, NEW path, Makes(k, path), Makes(j, path)
    PROVE  k # "sample" /\ j # "sample" /\ Scope(k) = Scope(j)
BY DEF Makes, Scope, Kinds

\* What a command takes back, beside one under the other lock.
LEMMA RemoveBeside ==
    ASSUME NEW f, NEW l, NEW o, Shape(o), Beside(f, l, o), NEW r, Shape(r), r.failed,
           o.kind # "sample" => Scope(o.kind) # Scope(r.kind), NEW paths \in SUBSET r.made
    PROVE  Beside(Without(f, paths), l, o)
<1> DEFINE g == Without(f, paths)
<1>1. DOMAIN g = DOMAIN f \ paths /\ \A x \in DOMAIN g : g[x] = f[x]
  BY WithoutIs
<1> HIDE DEF g
<1>2. \A path \in paths : Makes(r.kind, path) /\ path[1] # "manifest"
  BY DEF Shape, Finished
<1>3. AcceptedIn(g) = AcceptedIn(f)
  <2>1. Canonical \notin paths
    BY <1>2 DEF Canonical
  <2> QED BY <1>1, <2>1, SameAccepted
<1>4. Undone(g, o)
  BY <1>1 DEF Beside, Undone
<1>5. Rejecting(g, l, o)
  <2>1. CASE o.kind # "reject"
    BY <2>1 DEF Rejecting
  <2>2. CASE o.kind = "reject"
    <3>1. r.kind # "reject"
      BY <2>2
    <3>2. \A path \in paths : ~(path[1] = "evidence" /\ path[2].answer.failed # {})
      BY <1>2, <3>1 DEF Makes
    <3>3. Evident(DOMAIN g \ o.made, o.opened)
      <4>1. Evident(DOMAIN f \ o.made, o.opened)
        BY <2>2 DEF Beside, Rejecting
      <4>2. \A path \in DOMAIN f \ o.made :
                path[1] = "evidence" /\ path[2].answer.failed # {} => path \in DOMAIN g \ o.made
        BY <1>1, <3>2
      <4> QED BY <4>1, <4>2, EvidentMore
    <3>4. Shown(o).answer.failed # {}
      BY <2>2, RejectIs
    <3>5. <<"evidence", Shown(o)>> \in DOMAIN f => <<"evidence", Shown(o)>> \in DOMAIN g
      <4> DEFINE path == <<"evidence", Shown(o)>>
      <4>1. path[1] = "evidence" /\ path[2] = Shown(o)
        OBVIOUS
      <4> QED BY <1>1, <3>2, <3>4, <4>1
    <3> QED BY <2>2, <3>3, <3>5 DEF Beside, Rejecting
  <2> QED BY <2>1, <2>2
<1>6. Accepting(g, o)
  <2>1. CASE o.kind \in {"sample", "reject"}
    BY <2>1 DEF Accepting
  <2>2. CASE o.kind \notin {"sample", "reject"}
    <3>1. r.kind = "reject"
      BY <2>2 DEF Shape, Kinds, Scope
    <3>2. \A path \in paths :
             /\ path[1] \notin {"note", "history-manifest", "history-note", "history-ledger"}
             /\ ~(path[1] = "evidence" /\ path[2].answer.failed = {})
      BY <1>2, <3>1 DEF Makes
    <3>3. KeepsChains(f, g)
      BY <1>1, <3>2 DEF KeepsChains
    <3> QED BY <1>3, <3>3, AcceptingKept DEF Beside
  <2> QED BY <2>1, <2>2
<1> QED BY <1>4, <1>5, <1>6 DEF Beside, g

-----------------------------------------------------------------------------
(* What the steps of a command leave true of it.                           *)

\* The fields of a command that goes ahead.
LEMMA AheadFields ==
    ASSUME NEW o, NEW n
    PROVE  /\ Ahead(o, n).kind = o.kind /\ Ahead(o, n).day = o.day
           /\ Ahead(o, n).plan = o.plan /\ Ahead(o, n).at = o.at + n
           /\ Ahead(o, n).made = o.made /\ Ahead(o, n).opened = o.opened
           /\ Ahead(o, n).failed = o.failed
           /\ Made1(Ahead(o, n)) = Made1(o) /\ Shown(Ahead(o, n)) = Shown(o)
           /\ Asked(Ahead(o, n)) = Asked(o) /\ Said(Ahead(o, n)) = Said(o)
BY WorkFields DEF Ahead, Made1, Shown, Asked, Said

\* The fields of a command that starts to take back its work.
LEMMA TakenFields ==
    ASSUME NEW o
    PROVE  /\ Taken(o).kind = o.kind /\ Taken(o).day = o.day
           /\ Taken(o).plan = o.plan /\ Taken(o).at = 1
           /\ Taken(o).made = o.made /\ Taken(o).opened = o.opened
           /\ Taken(o).failed = TRUE
           /\ Made1(Taken(o)) = Made1(o) /\ Shown(Taken(o)) = Shown(o)
           /\ Asked(Taken(o)) = Asked(o) /\ Said(Taken(o)) = Said(o)
<1> DEFINE x == Taken(o)
<1>1. x = Work7(o.kind, o.day, o.plan, 1, o.made, o.opened, TRUE)
  BY DEF Taken
<1> HIDE DEF x
<1>2. /\ x.kind = o.kind /\ x.day = o.day /\ x.plan = o.plan /\ x.at = 1
      /\ x.made = o.made /\ x.opened = o.opened /\ x.failed = TRUE
  BY <1>1 DEF Work7
<1>3. Made1(x) = Made1(o) /\ Shown(x) = Shown(o) /\ Asked(x) = Asked(o) /\ Said(x) = Said(o)
  BY <1>2 DEF Made1, Shown, Asked, Said
<1> QED BY <1>2, <1>3 DEF x

\* The fields of a command that has made one more file.
LEMMA MakerFields ==
    ASSUME NEW o, NEW path
    PROVE  /\ Maker(o, path).kind = o.kind /\ Maker(o, path).day = o.day
           /\ Maker(o, path).plan = o.plan /\ Maker(o, path).at = o.at + 1
           /\ Maker(o, path).made = o.made \cup {path} /\ Maker(o, path).opened = o.opened
           /\ Maker(o, path).failed = o.failed
           /\ Made1(Maker(o, path)) = Made1(o) /\ Shown(Maker(o, path)) = Shown(o)
           /\ Asked(Maker(o, path)) = Asked(o) /\ Said(Maker(o, path)) = Said(o)
BY WorkFields DEF Maker, Made1, Shown, Asked, Said

\* Going ahead without touching a file.
LEMMA AheadBeside ==
    ASSUME NEW f, NEW l, NEW o, Shape(o), Beside(f, l, o), ~o.failed, o.at <= Len(o.plan),
           NEW n \in Nat \ {0}, o.kind = "reject" => o.at > 1,
           o.kind \in {"accept", "supersede"} /\ o.at + n = Len(o.plan) => Replays(f, Made1(o))
    PROVE  Beside(f, l, Ahead(o, n))
<1> DEFINE x == Ahead(o, n)
<1>1. /\ x.kind = o.kind /\ x.plan = o.plan /\ x.at = o.at + n /\ x.made = o.made
      /\ x.opened = o.opened /\ x.failed = o.failed
      /\ Made1(x) = Made1(o) /\ Shown(x) = Shown(o)
  BY AheadFields
<1> HIDE DEF x
<1>2. o.at \in Nat \ {0} /\ Len(o.plan) \in Nat
  BY PlanLength DEF Shape
<1>3. Undone(f, x)
  BY <1>1 DEF Undone
<1>4. Rejecting(f, l, x)
  BY <1>1 DEF Beside, Rejecting
<1>5. Accepting(f, x)
  <2>1. ~Finished(o)
    BY <1>2 DEF Finished
  <2>2. x.at # 1
    BY <1>1, <1>2
  <2> QED BY <1>1, <2>1, <2>2 DEF Beside, Accepting
<1> QED BY <1>3, <1>4, <1>5 DEF Beside, x

\* Everything that a command makes, but the manifest, it knows how to take back.
LEMMA AllUndone ==
    ASSUME NEW kind \in Kinds, NEW path, Makes(kind, path), path[1] # "manifest"
    PROVE  \E i \in 1..Len(UndoOrder(kind)) : path[1] = UndoOrder(kind)[i]
<1>1. CASE kind = "accept"
  <2>1. UndoOrder(kind) = <<"note", "evidence">>
    BY <1>1 DEF UndoOrder
  <2> DEFINE u == <<"note", "evidence">>
  <2>2. Len(u) = 2 /\ u[1] = "note" /\ u[2] = "evidence"
    OBVIOUS
  <2>3. path[1] \in {"note", "evidence"}
    BY <1>1 DEF Makes
  <2> QED BY <2>1, <2>2, <2>3
<1>2. CASE kind = "supersede"
  <2> DEFINE u == <<"note", "history-note", "history-ledger", "history-manifest", "evidence">>
  <2>1. UndoOrder(kind) = u
    BY <1>2 DEF UndoOrder
  <2>2. /\ Len(u) = 5 /\ u[1] = "note" /\ u[2] = "history-note" /\ u[3] = "history-ledger"
        /\ u[4] = "history-manifest" /\ u[5] = "evidence"
    OBVIOUS
  <2>3. path[1] \in {"note", "history-manifest", "history-note", "history-ledger", "evidence"}
    BY <1>2 DEF Makes
  <2> HIDE DEF u
  <2> QED BY <2>1, <2>2, <2>3
<1>3. CASE kind = "reject"
  <2> DEFINE u == <<"ledger", "submission", "receipt", "evidence">>
  <2>1. UndoOrder(kind) = u
    BY <1>3 DEF UndoOrder
  <2>2. /\ Len(u) = 4 /\ u[1] = "ledger" /\ u[2] = "submission" /\ u[3] = "receipt"
        /\ u[4] = "evidence"
    OBVIOUS
  <2>3. path[1] \in {"ledger", "submission", "receipt", "evidence"}
    BY <1>3 DEF Makes
  <2> HIDE DEF u
  <2> QED BY <2>1, <2>2, <2>3
<1> QED BY <1>1, <1>2, <1>3 DEF Makes, Kinds

\* Starting to take back: all that was made is still to be undone.
LEMMA TakenBeside ==
    ASSUME NEW f, NEW l, NEW o, Shape(o), Beside(f, l, o), ~o.failed, o.at <= Len(o.plan)
    PROVE  Beside(f, l, Taken(o))
<1> DEFINE x == Taken(o)
<1>1. /\ x.kind = o.kind /\ x.plan = o.plan /\ x.at = 1 /\ x.made = o.made
      /\ x.opened = o.opened /\ x.failed = TRUE
      /\ Made1(x) = Made1(o) /\ Shown(x) = Shown(o)
  BY TakenFields
<1> HIDE DEF x
<1>2. o.at \in Nat \ {0} /\ Len(o.plan) \in Nat /\ o.kind \in Kinds /\ ~Finished(o)
  BY PlanLength DEF Shape, Finished
<1>3. Undone(f, x)
  <2>1. \A path \in o.made : Makes(o.kind, path) /\ path[1] # "manifest"
    BY <1>2 DEF Shape
  <2>2. \A path \in o.made : \E i \in 1..Len(UndoOrder(o.kind)) : path[1] = UndoOrder(o.kind)[i]
    BY <1>2, <2>1, AllUndone
  <2> QED BY <1>1, <2>2 DEF Undone
<1>4. Rejecting(f, l, x)
  BY <1>1 DEF Beside, Rejecting
<1>5. Accepting(f, x)
  BY <1>1, <1>2 DEF Beside, Accepting, Finished
<1> QED BY <1>3, <1>4, <1>5 DEF Beside, x

\* Creating the next file of the plan.
LEMMA MakerBeside ==
    ASSUME NEW f, NEW l, NEW o, Shape(o), Beside(f, l, o), Doing(o, "new"), NEW content,
           Step1(o).path \notin DOMAIN f,
           IsChain(AcceptedIn(f)), Replays(f, AcceptedIn(f))
    PROVE  Beside(Written(f, Step1(o).path, content), l, Maker(o, Step1(o).path))
<1> DEFINE path == Step1(o).path
           g == Written(f, path, content)
           x == Maker(o, path)
<1>1. /\ x.kind = o.kind /\ x.plan = o.plan /\ x.at = o.at + 1 /\ x.made = o.made \cup {path}
      /\ x.opened = o.opened /\ x.failed = o.failed
      /\ Made1(x) = Made1(o) /\ Shown(x) = Shown(o)
  BY MakerFields
<1>2. /\ o.at \in Nat \ {0} /\ Len(o.plan) \in Nat /\ o.kind \in Kinds
      /\ o.at <= Len(o.plan) /\ ~o.failed
  BY PlanLength DEF Shape, Doing
<1>3. /\ o.kind \in {"accept", "supersede", "reject"}
      /\ o.at = 1 => path = <<"evidence", Shown(o)>>
      /\ path[1] = "manifest" => o.at = Len(o.plan)
      /\ path[1] # "ledger"
  BY Creating
<1>5. path \notin DOMAIN f
  OBVIOUS
<1> HIDE DEF x, path
<1>4. DOMAIN g = DOMAIN f \cup {path} /\ \A y \in DOMAIN f : y # path => g[y] = f[y]
  BY DEF Written
<1> HIDE DEF g
<1>6. Undone(g, x)
  BY <1>1, <1>2 DEF Undone
<1>7. Rejecting(g, l, x)
  <2>1. CASE o.kind # "reject"
    BY <1>1, <2>1 DEF Rejecting
  <2>2. CASE o.kind = "reject"
    <3>1. DOMAIN f \ o.made \subseteq DOMAIN g \ x.made
      BY <1>1, <1>4, <1>5
    <3>2. Evident(DOMAIN f \ o.made, o.opened)
      BY <2>2 DEF Beside, Rejecting
    <3>3. Evident(DOMAIN g \ x.made, o.opened)
      BY <3>1, <3>2 DEF Evident
    <3>4. <<"evidence", Shown(o)>> \in DOMAIN g
      <4>1. CASE o.at = 1
        BY <1>3, <1>4, <4>1
      <4>2. CASE o.at > 1
        BY <1>2, <1>4, <2>2, <4>2 DEF Beside, Rejecting
      <4> QED BY <1>2, <4>1, <4>2
    <3>5. \/ l = o.opened
          \/ l = Rejected(o.opened, Shown(o).answer.failed) /\ <<"ledger">> \in o.made
      BY <2>2 DEF Beside, Rejecting
    <3> QED BY <1>1, <1>2, <2>2, <3>3, <3>4, <3>5 DEF Rejecting
  <2> QED BY <2>1, <2>2
<1>8. Accepting(g, x)
  <2>1. CASE o.kind = "reject"
    BY <1>1, <2>1 DEF Accepting
  <2>2. CASE o.kind \in {"accept", "supersede"} /\ path[1] = "manifest"
    <3>1. Finished(x) /\ x.at # Len(x.plan)
      BY <1>1, <1>2, <1>3, <2>2 DEF Finished
    <3> QED BY <1>1, <2>2, <3>1 DEF Accepting
  <2>3. CASE o.kind \in {"accept", "supersede"} /\ path[1] # "manifest"
    <3>1. Canonical # path
      BY <2>3 DEF Canonical
    <3>2. AcceptedIn(g) = AcceptedIn(f)
      BY <1>4, <3>1, SameAccepted
    <3>3. path \notin Needs(AcceptedIn(f))
      BY <1>5, NeedsThere
    <3>4. ~Finished(o)
      BY <1>2 DEF Finished
    <3>5. o.made \cap Needs(AcceptedIn(f)) = {}
      BY <2>3, <3>4 DEF Beside, Accepting
    <3>6. o.at + 1 # Len(o.plan)
      <4>1. o.kind # "sample"
        BY <2>3
      <4>2. \/ o.kind = "accept" /\ Len(o.plan) = 4 /\ o.at \in {1, 2, 4}
            \/ o.kind = "supersede" /\ Len(o.plan) = 7 /\ o.at \in 1..5
        BY <2>3, <4>1, LockedDoing
      <4>3. CASE o.kind = "accept" /\ Len(o.plan) = 4 /\ o.at \in {1, 2}
        BY <4>3
      <4>4. CASE o.kind = "accept" /\ o.at = 4
        BY <4>4, <2>3, <4>2
      <4>5. CASE o.kind = "supersede" /\ Len(o.plan) = 7 /\ o.at \in 1..5
        BY <4>5
      <4> QED BY <4>2, <4>3, <4>4, <4>5
    <3> QED BY <1>1, <2>3, <3>2, <3>3, <3>5, <3>6 DEF Accepting
  <2> QED BY <1>3, <2>1, <2>2, <2>3
<1> QED BY <1>6, <1>7, <1>8 DEF Beside, x, g, path

\* The ledger takes the rejection, of which the evidence is there.
LEMMA LedgerBeside ==
    ASSUME NEW f, NEW o, Shape(o), Beside(f, o.opened, o), Doing(o, "ledger")
    PROVE  /\ <<"evidence", Shown(o)>> \in DOMAIN f
           /\ Beside(f, Rejected(o.opened, Shown(o).answer.failed), Maker(o, <<"ledger">>))
<1> DEFINE x == Maker(o, <<"ledger">>)
<1>1. /\ x.kind = o.kind /\ x.plan = o.plan /\ x.made = o.made \cup {<<"ledger">>}
      /\ x.opened = o.opened /\ x.failed = o.failed /\ Shown(x) = Shown(o)
  BY MakerFields
<1> HIDE DEF x
<1>2. o.kind = "reject" /\ o.at = 4 /\ ~o.failed
  BY Rejection DEF Doing
<1>3. /\ <<"evidence", Shown(o)>> \in DOMAIN f
      /\ Evident(DOMAIN f \ o.made, o.opened)
  BY <1>2 DEF Beside, Rejecting
<1>4. Undone(f, x) /\ Accepting(f, x)
  BY <1>1, <1>2 DEF Undone, Accepting
<1>5. Evident(DOMAIN f \ x.made, x.opened)
  <2>1. \A path \in DOMAIN f \ o.made :
           path[1] = "evidence" /\ path[2].answer.failed # {} => path \in DOMAIN f \ x.made
    BY <1>1
  <2>2. Evident(DOMAIN f \ x.made, o.opened)
    BY <1>3, <2>1, EvidentMore
  <2> QED BY <1>1, <2>2
<1>6. Rejecting(f, Rejected(o.opened, Shown(o).answer.failed), x)
  BY <1>1, <1>2, <1>3, <1>5 DEF Rejecting
<1> QED BY <1>3, <1>4, <1>6 DEF Beside, x

\* What is to be taken back next, and the ledger after that.
Next1(o) == {path \in o.made : path[1] = UndoOrder(o.kind)[o.at]}
PutBack(l, o) == IF <<"ledger">> \in Next1(o) THEN o.opened ELSE l

\* Taking back the next files; what is accepted does not change.
LEMMA BackBeside ==
    ASSUME NEW f, NEW l, NEW o, Shape(o), Beside(f, l, o),
           o.failed, o.at <= Len(UndoOrder(o.kind))
    PROVE  /\ Beside(Without(f, Next1(o)), PutBack(l, o), Ahead(o, 1))
           /\ AcceptedIn(Without(f, Next1(o))) = AcceptedIn(f)
           /\ IF o.kind = "reject" THEN PutBack(l, o) = o.opened
              ELSE o.kind \in {"accept", "supersede"} /\ PutBack(l, o) = l
<1> DEFINE x == Ahead(o, 1)
           u == UndoOrder(o.kind)
           paths == Next1(o)
           g == Without(f, paths)
           m == PutBack(l, o)
<1>1. /\ x.kind = o.kind /\ x.plan = o.plan /\ x.at = o.at + 1 /\ x.made = o.made
      /\ x.opened = o.opened /\ x.failed = o.failed
  <2>1. x = Work7(o.kind, o.day, o.plan, o.at + 1, o.made, o.opened, o.failed)
    BY DEF Ahead
  <2> HIDE DEF x
  <2> QED BY <2>1 DEF Work7
<1>2. o.at \in Nat \ {0} /\ o.kind \in Kinds /\ o.failed = TRUE /\ ~Finished(o)
  BY DEF Shape, Finished
<1>3. o.kind \in {"accept", "supersede", "reject"}
  <2>1. Len(<<>>) = 0
    OBVIOUS
  <2>2. o.kind \in {"sample", "refresh"} => UndoOrder(o.kind) = <<>>
    BY DEF UndoOrder
  <2> QED BY <1>2, <2>1, <2>2 DEF Kinds
<1>4. Len(u) \in Nat /\ (o.kind = "reject" => u[1] = "ledger")
  BY <1>3 DEF UndoOrder
<1>5. paths = {path \in o.made : path[1] = u[o.at]} /\ o.at <= Len(u)
  BY DEF Next1
<1>6. m = IF <<"ledger">> \in paths THEN o.opened ELSE l
  BY DEF PutBack
<1> HIDE DEF x, u, paths, m
<1>7. DOMAIN g = DOMAIN f \ paths /\ \A y \in DOMAIN g : g[y] = f[y]
  BY DEF Without
<1> HIDE DEF g
<1>8. \A path \in o.made : Makes(o.kind, path) /\ path[1] # "manifest"
  BY <1>2 DEF Shape
<1>9. AcceptedIn(g) = AcceptedIn(f)
  <2>1. Canonical \notin paths
    BY <1>5, <1>8 DEF Canonical
  <2> QED BY <1>7, <2>1, SameAccepted
<1>10. IF o.kind = "reject" THEN m = o.opened
       ELSE o.kind \in {"accept", "supersede"} /\ m = l
  <2>1. CASE o.kind # "reject"
    <3>1. <<"ledger">> \notin o.made
      BY <1>3, <1>8, <2>1 DEF Makes
    <3> QED BY <1>3, <1>5, <1>6, <2>1, <3>1
  <2>2. CASE o.kind = "reject"
    <3>1. l = o.opened \/ (<<"ledger">> \in o.made /\ o.at = 1)
      BY <1>2, <2>2 DEF Beside, Rejecting
    <3> QED BY <1>4, <1>5, <1>6, <2>2, <3>1
  <2> QED BY <2>1, <2>2
<1>11. Undone(g, x)
  <2> SUFFICES ASSUME NEW path \in o.made \cap DOMAIN g
               PROVE  \E i \in (o.at + 1)..Len(u) : path[1] = u[i]
    BY <1>1 DEF Undone, u
  <2>1. path[1] # u[o.at] /\ path \in DOMAIN f
    BY <1>5, <1>7
  <2>2. PICK i \in o.at..Len(u) : path[1] = u[i]
    BY <1>2, <2>1 DEF Beside, Undone, u
  <2> QED BY <1>2, <1>4, <2>1, <2>2
<1>12. Rejecting(g, m, x)
  <2>1. CASE o.kind # "reject"
    BY <1>1, <2>1 DEF Rejecting
  <2>2. CASE o.kind = "reject"
    <3>1. DOMAIN g \ o.made = DOMAIN f \ o.made
      BY <1>5, <1>7
    <3>2. Evident(DOMAIN f \ o.made, o.opened)
      BY <2>2 DEF Beside, Rejecting
    <3> QED BY <1>1, <1>2, <1>10, <2>2, <3>1, <3>2 DEF Rejecting
  <2> QED BY <2>1, <2>2
<1>13. Accepting(g, x)
  BY <1>1, <1>2, <1>9 DEF Beside, Accepting, Finished
<1>14. Beside(g, m, x)
  BY <1>11, <1>12, <1>13 DEF Beside
<1> QED BY <1>9, <1>10, <1>14 DEF x, g, m, paths

\* The manifest is written: nothing changes for those who do not write it, and
\* the command that does is over.
LEMMA ManifestBeside ==
    ASSUME NEW f, NEW l, NEW o, Shape(o), Beside(f, l, o), NEW content,
           o.kind \in {"sample", "reject"}
    PROVE  Beside(Written(f, Canonical, content), l, o)
<1> DEFINE g == Written(f, Canonical, content)
<1>1. DOMAIN g = DOMAIN f \cup {Canonical}
  BY DEF Written
<1> HIDE DEF g
<1>2. Undone(g, o)
  <2>1. ASSUME o.failed PROVE Canonical \notin o.made
    BY <2>1 DEF Shape, Finished, Canonical
  <2> QED BY <1>1, <2>1 DEF Beside, Undone
<1>3. Rejecting(g, l, o)
  <2>1. DOMAIN f \ o.made \subseteq DOMAIN g \ o.made
    BY <1>1
  <2>2. Evident(DOMAIN f \ o.made, o.opened) => Evident(DOMAIN g \ o.made, o.opened)
    BY <2>1 DEF Evident
  <2> QED BY <1>1, <2>2 DEF Beside, Rejecting
<1>4. Accepting(g, o)
  BY DEF Accepting
<1> QED BY <1>2, <1>3, <1>4 DEF Beside, g

\* The manifest is replaced last, so that nothing remains to be undone.
LEMMA ManifestOver ==
    ASSUME NEW f, NEW l, NEW o, Shape(o), o.kind = "supersede", ~o.failed, o.at = Len(o.plan)
    PROVE  Beside(f, l, Ahead(o, 1))
<1> DEFINE x == Ahead(o, 1)
<1>1. x.kind = o.kind /\ x.plan = o.plan /\ x.at = o.at + 1 /\ x.failed = o.failed
  BY AheadFields
<1> HIDE DEF x
<1>2. Len(o.plan) \in Nat
  BY PlanLength
<1>3. Finished(x) /\ x.at # Len(x.plan)
  BY <1>1, <1>2 DEF Finished
<1>4. Beside(f, l, x)
  BY <1>1, <1>3 DEF Beside, Undone, Rejecting, Accepting
<1> QED BY <1>4 DEF x

-----------------------------------------------------------------------------
(* Samples that were certified.                                            *)

\* g has the sample of m as it was in f.
KeepsSample(f, g, m) ==
    \A i \in 1..3 : <<Artifacts[i], m>> \in DOMAIN f =>
        <<Artifacts[i], m>> \in DOMAIN g /\ g[<<Artifacts[i], m>>] = f[<<Artifacts[i], m>>]

\* A sample stands as long as its files do.
LEMMA SampleKept ==
    ASSUME NEW f, NEW g, NEW e, KeepsSample(f, g, e.m), Complete(f, e)
    PROVE  /\ Complete(g, e)
           /\ \A o : Settled(f, e, o) => Settled(g, e, o)
<1>1. \A i \in 1..3 : /\ <<Artifacts[i], e.m>> \in DOMAIN g
                      /\ g[<<Artifacts[i], e.m>>] = f[<<Artifacts[i], e.m>>]
  BY DEF KeepsSample, Complete
<1>2. <<"output", e.m>> = <<Artifacts[2], e.m>>
  BY DEF Artifacts
<1>3. g[<<"output", e.m>>] = f[<<"output", e.m>>]
  BY <1>1, <1>2
<1>4. Complete(g, e)
  BY <1>1, <1>3 DEF Complete
<1>5. ASSUME NEW o, Settled(f, e, o) PROVE Settled(g, e, o)
  BY <1>1, <1>5 DEF Settled
<1> QED BY <1>4, <1>5

\* Two answers to one question do not get mixed up without it showing.
LEMMA PutSample ==
    ASSUME NEW f, NEW e, NEW o, Complete(f, e), Settled(f, e, o), Answered(o), ~o.failed,
           NEW i \in 1..3, o.at = 3 * i + 3
    PROVE  LET g == Written(f, <<Artifacts[i], Asked(o)>>, Said(o))
           IN  /\ Complete(g, e)
               /\ \A x : Settled(f, e, x) /\ (Answered(x) => Said(x) # Said(o)) => Settled(g, e, x)
<1> DEFINE m == Asked(o)
           a == Said(o)
           g == Written(f, <<Artifacts[i], m>>, a)
<1>1. Answered(o) /\ Settled(f, e, o)
  OBVIOUS
<1> HIDE DEF m, a
<1>2. /\ DOMAIN g = DOMAIN f \cup {<<Artifacts[i], m>>}
      /\ g[<<Artifacts[i], m>>] = a
      /\ \A x \in DOMAIN f : x # <<Artifacts[i], m>> => g[x] = f[x]
  BY DEF Written
<1> HIDE DEF g
<1>3. \A j, k \in 1..3 : Artifacts[j] = Artifacts[k] => j = k
  BY DEF Artifacts
<1>4. CASE e.m # m
  <2>1. KeepsSample(f, g, e.m)
    BY <1>2, <1>4 DEF KeepsSample
  <2> QED BY <2>1, SampleKept DEF m, a, g
<1>5. CASE e.m = m
  <2>1. \A j \in 1..3 : <<Artifacts[j], m>> \in DOMAIN f /\ <<Artifacts[j], m>> \in DOMAIN g
    BY <1>2, <1>5 DEF Complete
  <2>2. g[<<Artifacts[i], m>>] = a
    BY <1>2
  <2>3. \A j \in 1..3 \ {i} : g[<<Artifacts[j], m>>] = f[<<Artifacts[j], m>>]
    BY <1>2, <1>3, <2>1
  <2>4. <<"output", m>> = <<Artifacts[2], m>> /\ 2 \in 1..3
    BY DEF Artifacts
  <2>5. Complete(g, e)
    <3>1. CASE a = e.answer
      <4>1. \/ \E j \in 1..3 : g[<<Artifacts[j], m>>] # g[<<"output", m>>]
            \/ g[<<"output", m>>] = e.answer
        BY <2>2, <2>4, <3>1
      <4> QED BY <1>5, <2>1, <4>1 DEF Complete
    <3>2. CASE a # e.answer
      <4>1. PICK j \in 1..3 \ {i} : f[<<Artifacts[j], m>>] # a
        BY <1>1, <1>5, <3>2 DEF Settled, m, a
      <4>2. \E k \in 1..3 : g[<<Artifacts[k], m>>] # g[<<"output", m>>]
        BY <2>2, <2>3, <2>4, <4>1
      <4> QED BY <1>5, <2>1, <4>2 DEF Complete
    <3> QED BY <3>1, <3>2
  <2>6. ASSUME NEW x, Settled(f, e, x), Answered(x) => Said(x) # a
        PROVE  Settled(g, e, x)
    <3> SUFFICES ASSUME Answered(x), ~x.failed, Asked(x) = e.m, Said(x) # e.answer,
                        NEW k \in 1..3, x.at = 3 + 3 * k
                 PROVE  \E j \in 1..3 \ {k} : g[<<Artifacts[j], e.m>>] # Said(x)
      BY DEF Settled
    <3>1. PICK j \in 1..3 \ {k} : f[<<Artifacts[j], e.m>>] # Said(x)
      BY <2>6 DEF Settled
    <3>2. g[<<Artifacts[j], e.m>>] # Said(x)
      BY <1>5, <2>2, <2>3, <2>6, <3>1
    <3> QED BY <3>2
  <2> QED BY <2>5, <2>6 DEF m, a, g
<1> QED BY <1>4, <1>5

\* The step of a command that leaves the samples alone leaves it settled.
LEMMA SettledAhead ==
    ASSUME NEW f, NEW e, NEW o, Settled(f, e, o), o.at \in Nat, NEW n \in Nat,
           ~o.failed, Answered(o) => \A i \in 1..3 : o.at + n # 3 + 3 * i
    PROVE  Settled(f, e, Ahead(o, n))
<1> DEFINE x == Ahead(o, n)
<1>1. x.kind = o.kind /\ x.plan = o.plan /\ x.at = o.at + n /\ x.failed = o.failed
  BY AheadFields
<1> HIDE DEF x
<1>2. Answered(x) => Answered(o)
  BY <1>1 DEF Answered
<1>3. Settled(f, e, x)
  BY <1>1, <1>2 DEF Settled
<1> QED BY <1>3 DEF x

-----------------------------------------------------------------------------
(* What each part of the invariant asks of a step of one command.          *)

\* The commands after a step of one of them.
LEMMA CommandsNext ==
    ASSUME Commands, NEW p \in Procs, NEW o, Becomes(p, o),
           o # None => Shape(o) /\ Beside(disk', ledger', o),
           \A q \in Procs \ {p} : Live(q) => Beside(disk', ledger', op[q])
    PROVE  Commands'
<1>1. op' = [q \in Procs |-> op'[q]] /\ op'[p] = o /\ \A q \in Procs \ {p} : op'[q] = op[q]
  BY DEF Becomes
<1>2. ASSUME NEW q \in Procs, op'[q] # None
      PROVE  Shape(op'[q]) /\ Beside(disk', ledger', op'[q])
  BY <1>1, <1>2 DEF Commands, Live
<1> QED BY <1>1, <1>2 DEF Commands, Live, Beside

\* For commands that write, or take back, what no other command makes.
LEMMA CommandsBeside ==
    ASSUME Commands, NEW q \in Procs, Live(q)
    PROVE  Shape(op[q]) /\ Beside(disk, ledger, op[q])
BY DEF Commands, Beside

\* The locks after a step that takes and gives back none.
LEMMA LockingNext ==
    ASSUME Locking, NEW p \in Procs, NEW o, Becomes(p, o), inside' = inside,
           Live(p), o.kind = op[p].kind
    PROVE  Locking'
<1>1. op'[p] = o /\ \A q \in Procs \ {p} : op'[q] = op[q]
  BY DEF Becomes
<1> QED BY <1>1 DEF Locking, Locks!TypeOK, Live

\* The days of the samples after a step that starts none.
LEMMA DaysNext ==
    ASSUME Days1, NEW p \in Procs, NEW o, Becomes(p, o), commands' = commands,
           o # None => Live(p) /\ o.kind = op[p].kind /\ o.day = op[p].day
    PROVE  Days1'
<1>1. op'[p] = o /\ \A q \in Procs \ {p} : op'[q] = op[q]
  BY DEF Becomes
<1> QED BY <1>1 DEF Days1, Live

\* The verdicts after a step of one command.
LEMMA VerdictsNext ==
    ASSUME Verdicts, NEW p \in Procs, NEW o, Becomes(p, o),
           \A e : Verdict(e) =>
               /\ Complete(disk', e)
               /\ o # None => Settled(disk', e, o)
               /\ \A q \in Procs \ {p} : Live(q) => Settled(disk', e, op[q]),
           \A path \in DOMAIN disk' : path[1] = "evidence" =>
               \/ path \in DOMAIN disk
               \/ Live(p) /\ Certifies(op[p]) /\ path[2] = Shown(op[p]),
           o # None /\ Certifies(o) => Verdict(Shown(o))
    PROVE  Verdicts'
<1>1. op'[p] = o /\ \A q \in Procs \ {p} : op'[q] = op[q]
  BY DEF Becomes
<1>2. ASSUME NEW e, Verdict(e) PROVE Stands(disk', op', e)
  <2>1. /\ Complete(disk', e)
        /\ o # None => Settled(disk', e, o)
        /\ \A q \in Procs \ {p} : Live(q) => Settled(disk', e, op[q])
    BY <1>2
  <2>2. \A q \in Procs : op'[q] # None => Settled(disk', e, op'[q])
    BY <1>1, <2>1 DEF Live
  <2> QED BY <1>2, <2>1, <2>2 DEF Verdict, Stands
<1>3. ASSUME NEW path \in DOMAIN disk', path[1] = "evidence"
      PROVE  Stands(disk', op', path[2])
  <2>1. Verdict(path[2])
    BY <1>3 DEF Verdicts
  <2> QED BY <1>2, <2>1
<1>4. ASSUME NEW q \in Procs, op'[q] # None, Certifies(op'[q])
      PROVE  Stands(disk', op', Shown(op'[q]))
  <2>1. Verdict(Shown(op'[q]))
    BY <1>1, <1>4 DEF Verdicts, Live
  <2> QED BY <1>2, <2>1
<1> QED BY <1>3, <1>4 DEF Verdicts, Live, Verdict

\* No two commands are under one lock.
LEMMA Exclusive ==
    ASSUME Locking, NEW p \in Procs, NEW q \in Procs, p # q, Live(p), Live(q),
           op[p].kind # "sample", op[q].kind # "sample"
    PROVE  Scope(op[p].kind) # Scope(op[q].kind)
<1>1. inside[p] = Scope(op[p].kind) /\ inside[q] = Scope(op[q].kind)
      /\ inside[p] \cap inside[q] = {}
  BY DEF Locking
<1>2. Scope(op[p].kind) # {}
  BY DEF Scope
<1> QED BY <1>1, <1>2

\* No other command notices what one of them writes.
LEMMA OthersWrite ==
    ASSUME Locking, Commands, NEW p \in Procs, Live(p), NEW path, NEW content,
           \/ path[1] \in ScratchNames
           \/ /\ path \notin DOMAIN disk /\ path[1] # "manifest"
              /\ op[p].kind # "sample" /\ Makes(op[p].kind, path)
    PROVE  \A q \in Procs \ {p} :
              Live(q) => Beside(Written(disk, path, content), ledger, op[q])
<1> SUFFICES ASSUME NEW q \in Procs \ {p}, Live(q)
             PROVE  Beside(Written(disk, path, content), ledger, op[q])
  OBVIOUS
<1>1. /\ Shape(op[q]) /\ Beside(disk, ledger, op[q])
      /\ op[q].kind \in Kinds /\ op[p].kind \in Kinds
  BY CommandsBeside DEF Shape
<1>2. Apart(disk, path) /\ path[1] # "manifest"
  BY DEF Apart, ScratchNames
<1>3. path \notin op[q].made
  <2>1. CASE path[1] \in ScratchNames
    <3>1. ~Makes(op[q].kind, path)
      BY <1>1, <2>1 DEF Makes, ScratchNames
    <3> QED BY <1>1, <3>1 DEF Shape
  <2>2. CASE op[p].kind # "sample" /\ Makes(op[p].kind, path)
    <3> SUFFICES ASSUME path \in op[q].made PROVE FALSE
      OBVIOUS
    <3>1. Makes(op[q].kind, path)
      BY <1>1 DEF Shape
    <3>2. op[q].kind # "sample" /\ Scope(op[p].kind) = Scope(op[q].kind)
      BY <1>1, <2>2, <3>1, MakesApart
    <3> QED BY <2>2, <3>2, Exclusive
  <2> QED BY <2>1, <2>2
<1> QED BY <1>1, <1>2, <1>3, WriteBeside

\* A step that only changes the command itself.
LEMMA OwnStep ==
    ASSUME Inv, NEW p \in Procs, Live(p), NEW o, Becomes(p, o),
           UNCHANGED <<ledger, audits, protocol, disk, inside, commands, edits>>,
           o.kind = op[p].kind, o.day = op[p].day, Shape(o), Beside(disk, ledger, o),
           Certifies(o) => Certifies(op[p]) /\ Shown(o) = Shown(op[p]),
           \A e : Verdict(e) => Settled(disk, e, o)
    PROVE  Inv'
<1>1. Typing' /\ Chained' /\ Evident(DOMAIN disk, ledger)'
  BY DEF Inv, Typing, Chained
<1>2. Locking'
  BY LockingNext DEF Inv
<1>3. Days1'
  BY DaysNext DEF Inv
<1>4. Commands'
  <2>1. \A q \in Procs \ {p} : Live(q) => Beside(disk, ledger, op[q])
    BY CommandsBeside DEF Inv
  <2> QED BY <2>1, CommandsNext DEF Inv
<1>5. Verdicts'
  <2>1. \A e : Verdict(e) => Complete(disk, e) /\ \A q \in Procs : Live(q) => Settled(disk, e, op[q])
    BY DEF Verdict, Stands, Live
  <2>2. Certifies(o) => Verdict(Shown(o))
    BY DEF Inv, Verdicts
  <2> QED BY <2>1, <2>2, VerdictsNext DEF Inv
<1> QED BY <1>1, <1>2, <1>3, <1>4, <1>5 DEF Inv

-----------------------------------------------------------------------------
(* The steps of a command.                                                 *)

\* What is known of a command that is at a step.
LEMMA AtDoing ==
    ASSUME Inv, NEW p \in Procs, NEW do, At(p, do)
    PROVE  /\ Live(p) /\ Doing(op[p], do) /\ Now(p) = Step1(op[p])
           /\ Shape(op[p]) /\ Beside(disk, ledger, op[p])
           /\ op[p].at \in Nat \ {0} /\ op[p].failed = FALSE /\ op[p].at <= Len(op[p].plan)
           /\ ~Finished(op[p])
<1>1. Live(p) /\ Doing(op[p], do) /\ Now(p) = Step1(op[p])
  BY DEF At, Idle, Live, Doing, Now, Step1
<1>2. Shape(op[p]) /\ Beside(disk, ledger, op[p])
  BY <1>1, CommandsBeside DEF Inv
<1>3. op[p].at \in Nat \ {0} /\ op[p].failed = FALSE /\ op[p].at <= Len(op[p].plan)
  BY <1>1, <1>2 DEF Shape, Doing
<1>4. ~Finished(op[p])
  BY <1>2, <1>3, PlanLength DEF Finished
<1> QED BY <1>1, <1>2, <1>3, <1>4

Same == UNCHANGED <<ledger, audits, protocol, disk, inside, commands, edits>>

\* A command that fails touches nothing but itself.
LEMMA OwnAbort ==
    ASSUME Inv, NEW p \in Procs, NEW do, At(p, do), Abort(p), Same
    PROVE  Inv'
<1> DEFINE o == op[p]
           x == Taken(o)
<1>1. /\ Live(p) /\ Shape(o) /\ Beside(disk, ledger, o)
      /\ ~o.failed /\ o.at <= Len(o.plan) /\ ~Finished(o)
  BY AtDoing
<1>2. Becomes(p, x)
  BY <1>1, OpSteps DEF Inv, Commands, Shape, IsWork
<1>3. x.kind = o.kind /\ x.day = o.day /\ x.failed = TRUE
  BY TakenFields
<1>4. Shape(x) /\ Beside(disk, ledger, x)
  BY <1>1, ShapeTaken, TakenBeside
<1>5. ~Certifies(x) /\ \A e : Settled(disk, e, x)
  BY <1>3 DEF Certifies, Settled
<1> HIDE DEF x
<1> QED BY <1>1, <1>2, <1>3, <1>4, <1>5, OwnStep DEF Same

\* A step that only looks touches nothing but its command.
LEMMA OwnAhead ==
    ASSUME Inv, NEW p \in Procs, NEW do, At(p, do), NEW n \in Nat \ {0}, Same,
           Becomes(p, Ahead(op[p], n)),
           do \in {"look", "look-again", "validate", "report"},
           do = "look-again" => \A m, i : <<Artifacts[i], m>> = Now(p).path
                                            => <<Artifacts[i], m>> \notin DOMAIN disk,
           do = "look" => n \in {1, 3},
           do # "look" => n = 1,
           do = "validate" => Replays(disk, Made1(op[p]))
    PROVE  Inv'
<1> DEFINE o == op[p]
           x == Ahead(o, n)
<1>1. /\ Live(p) /\ Shape(o) /\ Beside(disk, ledger, o) /\ Doing(o, do)
      /\ o.failed = FALSE /\ o.at \in Nat \ {0} /\ o.at <= Len(o.plan)
      /\ Now(p) = Step1(o)
  BY AtDoing
<1>2. x.kind = o.kind /\ x.day = o.day /\ x.failed = o.failed /\ Shown(x) = Shown(o)
      /\ x.plan = o.plan /\ x.at = o.at + n
  BY AheadFields
<1>3. Becomes(p, x)
  OBVIOUS
<1> HIDE DEF x
<1>4. Shape(x)
  BY <1>1, ShapeAhead DEF x
<1>5. Beside(disk, ledger, x)
  <2>1. o.kind = "reject" => o.at > 1
    BY <1>1, LockedDoing
  <2>2. ASSUME o.kind \in {"accept", "supersede"} PROVE do = "validate"
    BY <1>1, <2>2, LockedDoing
  <2> QED BY <1>1, <2>1, <2>2, AheadBeside DEF x
<1>6. ASSUME NEW e, Verdict(e) PROVE Settled(disk, e, x)
  <2>1. Complete(disk, e) /\ Settled(disk, e, o)
    BY <1>1, <1>6 DEF Verdict, Stands, Live
  <2>2. CASE ~(Answered(o) /\ Asked(o) = e.m)
    <3>1. Answered(x) = Answered(o) /\ Asked(x) = Asked(o)
      BY <1>2 DEF Answered, Asked
    <3> QED BY <2>2, <3>1 DEF Settled
  <2>3. CASE Answered(o) /\ Asked(o) = e.m
    <3>1. o.kind = "sample"
      BY <2>3 DEF Answered
    <3>2. do \in {"look", "look-again"}
      BY <1>1, <3>1, SampleDoes
    <3>3. \A i \in 1..3 : o.at + n # 3 + 3 * i
      <4>1. CASE do = "look"
        <5>1. o.at = 1 \/ o.at = 2 \/ \E i \in 1..3 : o.at = 3 * i + 1
          BY <1>1, <3>1, <4>1, SampleDoing
        <5>2. n = 1 \/ n = 3
          BY <4>1
        <5> QED BY <5>1, <5>2
      <4>2. CASE do = "look-again"
        <5>1. \/ o.at = 1 \/ o.at = 2
              \/ \E i \in 1..3 : /\ o.at = 3 * i + 2
                                 /\ Step1(o) = Step("look-again", <<Artifacts[i], Asked(o)>>, Said(o))
          BY <1>1, <3>1, <4>2, SampleDoing
        <5>2. ASSUME NEW i \in 1..3,
                     Step1(o) = Step("look-again", <<Artifacts[i], Asked(o)>>, Said(o))
              PROVE  FALSE
          <6>1. Now(p).path = <<Artifacts[i], Asked(o)>>
            BY <1>1, <5>2 DEF Step
          <6>2. <<Artifacts[i], Asked(o)>> \notin DOMAIN disk
            BY <4>2, <6>1
          <6> QED BY <2>1, <2>3, <6>2 DEF Complete
        <5>3. n = 1
          BY <4>2
        <5> QED BY <5>1, <5>2, <5>3
      <4> QED BY <3>2, <4>1, <4>2
    <3> QED BY <1>1, <2>1, <3>3, SettledAhead DEF x
  <2> QED BY <2>2, <2>3
<1>7. Certifies(x) => Certifies(o)
  BY <1>2 DEF Certifies
<1> QED BY <1>1, <1>2, <1>3, <1>4, <1>5, <1>6, <1>7, OwnStep DEF Same

\* Step Look.
LEMMA LookNext ==
    ASSUME Inv, NEW p \in Procs, Look(p)
    PROVE  Inv'
<1>1. At(p, "look") /\ Same
  BY DEF Look, around, bounds, Same
<1>2. CASE Abort(p)
  BY <1>1, <1>2, OwnAbort
<1>3. CASE Advance(p)
  <2>1. Becomes(p, Ahead(op[p], 1))
    BY <1>1, <1>3, AtDoing, OpSteps DEF Inv, Commands, Shape, IsWork
  <2>2. 1 \in Nat \ {0}
    OBVIOUS
  <2> QED BY <1>1, <2>1, <2>2, OwnAhead
<1>4. CASE op' = [op EXCEPT ![p].at = @ + 3]
  <2>1. Becomes(p, Ahead(op[p], 3))
    BY <1>1, <1>4, AtDoing, OpSteps DEF Inv, Commands, Shape, IsWork
  <2>2. 3 \in Nat \ {0}
    OBVIOUS
  <2> QED BY <1>1, <2>1, <2>2, OwnAhead
<1> QED BY <1>2, <1>3, <1>4 DEF Look

\* What stands between the two looks and the rename: a whole sample is there.
LEMMA LookAgainNext ==
    ASSUME Inv, NEW p \in Procs, LookAgain(p)
    PROVE  Inv'
<1>1. At(p, "look-again") /\ Same
  BY DEF LookAgain, around, bounds, Same
<1>2. CASE Abort(p)
  BY <1>1, <1>2, OwnAbort
<1>3. CASE Advance(p) /\ Now(p).path \notin DOMAIN disk
  <2>1. Becomes(p, Ahead(op[p], 1))
    BY <1>1, <1>3, AtDoing, OpSteps DEF Inv, Commands, Shape, IsWork
  <2>2. 1 \in Nat \ {0}
    OBVIOUS
  <2>3. \A m, i : <<Artifacts[i], m>> = Now(p).path => <<Artifacts[i], m>> \notin DOMAIN disk
    BY <1>3
  <2> QED BY <1>1, <2>1, <2>2, <2>3, OwnAhead
<1> QED BY <1>2, <1>3 DEF LookAgain, Exists

\* Step Validate: what is accepted next can be replayed.
LEMMA ValidateNext ==
    ASSUME Inv, NEW p \in Procs, Validate(p)
    PROVE  Inv'
<1>1. At(p, "validate") /\ Same
  BY DEF Validate, around, bounds, Same
<1>2. CASE Abort(p)
  BY <1>1, <1>2, OwnAbort
<1>3. CASE Advance(p) /\ Valid(Now(p).content)
  <2>1. Becomes(p, Ahead(op[p], 1))
    BY <1>1, <1>3, AtDoing, OpSteps DEF Inv, Commands, Shape, IsWork
  <2>2. 1 \in Nat \ {0}
    OBVIOUS
  <2>3. Now(p).content = Made1(op[p])
    BY <1>1, AtDoing, Validating
  <2>4. Provenance(Made1(op[p]))
    BY <1>3, <2>3 DEF Valid
  <2>5. Replays(disk, Made1(op[p]))
    BY <2>4, ProvenanceIs
  <2> QED BY <1>1, <2>1, <2>2, <2>5, OwnAhead
<1> QED BY <1>2, <1>3 DEF Validate

\* Step Report.
LEMMA ReportNext ==
    ASSUME Inv, NEW p \in Procs, Report(p)
    PROVE  Inv'
<1>1. At(p, "report") /\ Same /\ Advance(p)
  BY DEF Report, around, bounds, Same
<1>2. Becomes(p, Ahead(op[p], 1))
  BY <1>1, AtDoing, OpSteps DEF Inv, Commands, Shape, IsWork
<1>3. 1 \in Nat \ {0}
  OBVIOUS
<1> QED BY <1>1, <1>2, <1>3, OwnAhead

\* Step Fail.
LEMMA FailNext ==
    ASSUME Inv, NEW p \in Procs, Fail(p)
    PROVE  Inv'
<1>1. PICK do : At(p, do)
  BY DEF Fail
<1>2. Abort(p) /\ Same
  BY DEF Fail, around, bounds, Same
<1> QED BY <1>1, <1>2, OwnAbort

\* No other command notices that the manifest is written under its lock.
LEMMA OthersManifest ==
    ASSUME Locking, Commands, NEW p \in Procs, Live(p), NEW content,
           op[p].kind \in {"accept", "supersede", "refresh"}
    PROVE  \A q \in Procs \ {p} :
              Live(q) => Beside(Written(disk, Canonical, content), ledger, op[q])
<1> SUFFICES ASSUME NEW q \in Procs \ {p}, Live(q)
             PROVE  Beside(Written(disk, Canonical, content), ledger, op[q])
  OBVIOUS
<1>1. Shape(op[q]) /\ Beside(disk, ledger, op[q]) /\ op[q].kind \in Kinds
  BY CommandsBeside DEF Shape
<1>2. op[q].kind # "sample" => Scope(op[p].kind) # Scope(op[q].kind)
  BY Exclusive
<1>3. op[q].kind \in {"sample", "reject"}
  BY <1>1, <1>2 DEF Kinds, Scope
<1> QED BY <1>1, <1>3, ManifestBeside

\* A new file, or one in scratch, keeps the chain and the evidence.
LEMMA WriteKeeps ==
    ASSUME Chained, Evident(DOMAIN disk, ledger), NEW path, NEW content,
           Apart(disk, path), path[1] # "manifest",
           disk' = Written(disk, path, content), ledger' = ledger
    PROVE  Chained' /\ Evident(DOMAIN disk, ledger)'
<1>1. /\ DOMAIN disk' = DOMAIN disk \cup {path}
      /\ \A x \in DOMAIN disk : x # path => disk'[x] = disk[x]
  BY DEF Written
<1>2. AcceptedIn(disk') = AcceptedIn(disk)
  <2>1. Canonical # path
    BY DEF Canonical
  <2> QED BY <1>1, <2>1, SameAccepted
<1>3. KeepsChains(disk, disk')
  BY ApartKeeps
<1>4. Replays(disk', AcceptedIn(disk))
  BY <1>3, ChainsKept DEF Chained
<1>5. Evident(DOMAIN disk', ledger')
  BY <1>1 DEF Evident
<1> QED BY <1>2, <1>4, <1>5 DEF Chained

\* The accepted manifest becomes what can be replayed.
LEMMA ManifestKeeps ==
    ASSUME Chained, Evident(DOMAIN disk, ledger), NEW chain,
           IsChain(chain), Replays(disk, chain),
           disk' = Written(disk, Canonical, chain), ledger' = ledger
    PROVE  Chained' /\ Evident(DOMAIN disk, ledger)' /\ AcceptedIn(disk') = chain
<1>1. /\ DOMAIN disk' = DOMAIN disk \cup {Canonical}
      /\ disk'[Canonical] = chain
      /\ \A x \in DOMAIN disk : x # Canonical => disk'[x] = disk[x]
  BY DEF Written
<1>2. AcceptedIn(disk') = chain
  BY <1>1 DEF AcceptedIn
<1>3. KeepsChains(disk, disk')
  BY <1>1 DEF KeepsChains, Canonical
<1>4. Replays(disk', chain)
  BY <1>3, ChainsKept
<1>5. Evident(DOMAIN disk', ledger')
  BY <1>1 DEF Evident
<1> QED BY <1>2, <1>4, <1>5 DEF Chained

\* A file that is no artifact changes no sample.
LEMMA NoSample ==
    ASSUME NEW f, NEW path, NEW content, path[1] \notin {"execution", "output", "state"}
    PROVE  \A m : KeepsSample(f, Written(f, path, content), m)
<1>1. \A m : \A i \in 1..3 : <<Artifacts[i], m>> # path
  BY DEF Artifacts
<1> QED BY <1>1 DEF KeepsSample, Written

\* The verdicts, when a command that has certified nothing new writes no artifact.
LEMMA SampleStays ==
    ASSUME NEW g, \A m : KeepsSample(disk, g, m), NEW e, Verdict(e)
    PROVE  /\ Complete(g, e)
           /\ \A q \in Procs : Live(q) => Settled(g, e, op[q])
           /\ \A o : Settled(disk, e, o) => Settled(g, e, o)
BY SampleKept DEF Verdict, Stands, Live

\* Step Put: the artifacts of a sample, and the refresh that changes nothing.
LEMMA PutNext ==
    ASSUME Inv, NEW p \in Procs, Put(p)
    PROVE  Inv'
<1> DEFINE o == op[p]
           x == Ahead(o, 1)
           path == Now(p).path
           content == Now(p).content
<1>1. /\ Live(p) /\ Shape(o) /\ Beside(disk, ledger, o) /\ Doing(o, "put")
      /\ o.failed = FALSE /\ o.at \in Nat \ {0} /\ o.at <= Len(o.plan) /\ ~Finished(o)
      /\ Now(p) = Step1(o)
  BY AtDoing DEF Put
<1>2. /\ Becomes(p, x) /\ disk' = Written(disk, path, content)
      /\ UNCHANGED <<ledger, audits, protocol, inside, commands, edits>>
  BY <1>1, OpSteps DEF Put, Inv, Commands, Shape, IsWork, around, bounds
<1>3. /\ x.kind = o.kind /\ x.plan = o.plan /\ x.at = o.at + 1 /\ x.failed = o.failed
      /\ Shown(x) = Shown(o) /\ x.day = o.day
  BY AheadFields, Zenon
<1>4. 1 \in Nat /\ 1 \in Nat \ {0}
  OBVIOUS
<1>5. Shape(x)
  BY <1>1, <1>4, ShapeAhead
<1> HIDE DEF x
<1>6. Locking' /\ Days1'
  BY <1>1, <1>2, <1>3, LockingNext, DaysNext DEF Inv
<1>7. \/ /\ o.kind = "sample" /\ Answered(o)
         /\ \/ o.at = 3 /\ path = Pending
            \/ \E i \in 1..3 : o.at = 3 * i + 3 /\ path = <<Artifacts[i], Asked(o)>>
                               /\ content = Said(o)
      \/ /\ o.kind = "refresh" /\ o.at = 1
         /\ path = Canonical /\ content = o.plan[1].content
  BY <1>1, Putting DEF Step
<1> HIDE DEF path, content
<1>8. CASE o.kind = "sample"
  <2>1. path[1] \in ScratchNames
    BY <1>7, <1>8 DEF Pending, Artifacts, ScratchNames
  <2>2. Apart(disk, path) /\ path[1] # "manifest" /\ path[1] # "evidence"
    BY <2>1 DEF Apart, ScratchNames
  <2>3. DOMAIN disk' = DOMAIN disk \cup {path} /\ disk'[path] = content
        /\ \A y \in DOMAIN disk : y # path => disk'[y] = disk[y]
    BY <1>2 DEF Written
  <2>4. Typing'
    <3>1. CASE path = Pending
      BY <1>2, <2>3, <3>1 DEF Inv, Typing, Pending
    <3>2. CASE path[2] = Asked(o) /\ content = Said(o)
      <4>1. Said(o).failed \subseteq Active(Asked(o).ledger)
        <5>1. Answered(o)
          BY <1>7, <1>8
        <5> QED BY <1>1, <5>1, AnswerIs
      <4> QED BY <1>2, <2>3, <3>2, <4>1 DEF Inv, Typing
    <3> QED BY <1>7, <1>8, <3>1, <3>2
  <2>5. Chained' /\ Evident(DOMAIN disk, ledger)'
    BY <1>2, <2>2, WriteKeeps DEF Inv
  <2>6. Commands'
    <3>1. Beside(disk', ledger, o)
      BY <1>1, <1>2, <2>2, WriteBeside
    <3>2. Beside(disk', ledger, x)
      BY <1>1, <1>4, <1>8, <3>1, AheadBeside DEF x
    <3>3. \A q \in Procs \ {p} : Live(q) => Beside(disk', ledger, op[q])
      BY <1>1, <1>2, <2>1, OthersWrite DEF Inv
    <3> QED BY <1>2, <1>5, <3>2, <3>3, CommandsNext DEF Inv
  <2>7. Verdicts'
    <3>1. ASSUME NEW e, Verdict(e)
          PROVE  /\ Complete(disk', e)
                 /\ Settled(disk', e, x)
                 /\ \A q \in Procs \ {p} : Live(q) => Settled(disk', e, op[q])
      <4>1. Complete(disk, e) /\ \A q \in Procs : Live(q) => Settled(disk, e, op[q])
        BY <3>1 DEF Verdict, Stands, Live
      <4>2. \A y \in {1, 2, 3} : o.at = 3 \/ o.at = 3 * y + 3 => \A i \in 1..3 : o.at + 1 # 3 + 3 * i
        BY <1>1
      <4>3. Settled(disk, e, x)
        <5>1. \A i \in 1..3 : o.at + 1 # 3 + 3 * i
          BY <1>7, <1>8, <4>2
        <5> QED BY <1>1, <1>4, <4>1, <5>1, SettledAhead DEF x
      <4>4. CASE path = Pending
        <5>1. \A m : KeepsSample(disk, disk', m)
          BY <1>2, <4>4, NoSample DEF Pending
        <5> QED BY <3>1, <4>3, <5>1, SampleStays
      <4>5. ASSUME NEW i \in 1..3, o.at = 3 * i + 3, path = <<Artifacts[i], Asked(o)>>,
                   content = Said(o)
            PROVE  /\ Complete(disk', e)
                   /\ Settled(disk', e, x)
                   /\ \A q \in Procs \ {p} : Live(q) => Settled(disk', e, op[q])
        <5>1. Answered(o) /\ Settled(disk, e, o) /\ ~o.failed
          BY <1>1, <1>7, <1>8, <4>1
        <5>2. /\ Complete(disk', e)
              /\ \A y : Settled(disk, e, y) /\ (Answered(y) => Said(y) # Said(o))
                          => Settled(disk', e, y)
          BY <1>2, <4>1, <4>5, <5>1, PutSample
        <5>3. Settled(disk', e, x)
          <6>1. \A j \in 1..3 : x.at # 3 + 3 * j
            BY <1>1, <1>3, <4>5
          <6> QED BY <6>1 DEF Settled
        <5>4. ASSUME NEW q \in Procs \ {p}, Live(q) PROVE Settled(disk', e, op[q])
          <6>1. Answered(op[q]) => Said(op[q]) # Said(o)
            <7>1. ASSUME Answered(op[q]) PROVE Said(op[q]).no = op[q].day
              <8>1. Shape(op[q])
                BY <5>4, CommandsBeside DEF Inv
              <8> QED BY <7>1, <8>1, AnswerIs
            <7>2. Said(o).no = o.day
              BY <1>1, <5>1, AnswerIs
            <7>3. ASSUME Answered(op[q]) PROVE op[q].day # o.day
              BY <1>1, <1>8, <5>4, <7>3 DEF Inv, Days1, Answered
            <7> QED BY <7>1, <7>2, <7>3
          <6> QED BY <4>1, <5>2, <5>4, <6>1
        <5> QED BY <5>2, <5>3, <5>4
      <4> QED BY <1>7, <1>8, <4>4, <4>5
    <3>2. ~Certifies(x)
      BY <1>3, <1>8 DEF Certifies
    <3>3. \A y \in DOMAIN disk' : y[1] = "evidence" => y \in DOMAIN disk
      BY <2>2, <2>3
    <3> QED BY <1>2, <3>1, <3>2, <3>3, VerdictsNext DEF Inv
  <2> QED BY <1>6, <2>4, <2>5, <2>6, <2>7 DEF Inv
<1>9. CASE o.kind = "refresh"
  <2>1. path = Canonical /\ content = AcceptedIn(disk)
    BY <1>1, <1>7, <1>9 DEF Beside, Accepting
  <2>2. DOMAIN disk' = DOMAIN disk \cup {Canonical}
        /\ \A y \in DOMAIN disk : y # Canonical => disk'[y] = disk[y]
    BY <1>2, <2>1 DEF Written
  <2>3. Typing'
    BY <1>2, <2>2 DEF Inv, Typing, Canonical
  <2>4. Chained' /\ Evident(DOMAIN disk, ledger)'
    BY <1>2, <2>1, ManifestKeeps DEF Inv, Chained
  <2>5. Commands'
    <3>1. Beside(disk', ledger, x)
      BY <1>1, <1>3, <1>7, <1>9 DEF Beside, Undone, Rejecting, Accepting
    <3>2. \A q \in Procs \ {p} : Live(q) => Beside(disk', ledger, op[q])
      BY <1>1, <1>2, <1>9, <2>1, OthersManifest DEF Inv
    <3> QED BY <1>2, <1>5, <3>1, <3>2, CommandsNext DEF Inv
  <2>6. Verdicts'
    <3>1. \A m : KeepsSample(disk, disk', m)
      BY <1>2, <2>1, NoSample DEF Canonical
    <3>2. ~Certifies(x) /\ ~Answered(x)
      BY <1>3, <1>9 DEF Certifies, Answered
    <3>3. \A e : Settled(disk', e, x)
      BY <3>2 DEF Settled
    <3>4. \A y \in DOMAIN disk' : y[1] = "evidence" => y \in DOMAIN disk
      BY <2>2 DEF Canonical
    <3>5. \A e : Verdict(e) => Complete(disk', e) /\ \A q \in Procs : Live(q) => Settled(disk', e, op[q])
      BY <3>1, SampleStays
    <3> QED BY <1>2, <3>2, <3>3, <3>4, <3>5, VerdictsNext DEF Inv
  <2> QED BY <1>6, <2>3, <2>4, <2>5, <2>6 DEF Inv
<1> QED BY <1>7, <1>8, <1>9

\* A command that certifies writes, or takes back, no artifact.
LEMMA CertifiedNext ==
    ASSUME Inv, NEW p \in Procs, Live(p), NEW x, Becomes(p, x),
           x.kind = op[p].kind, x.kind # "sample", Shown(x) = Shown(op[p]),
           Certifies(x) => Certifies(op[p]),
           \A m : KeepsSample(disk, disk', m),
           \A path \in DOMAIN disk' : path[1] = "evidence" =>
               path \in DOMAIN disk \/ (Certifies(op[p]) /\ path[2] = Shown(op[p]))
    PROVE  Verdicts'
<1>1. ~Answered(x)
  BY DEF Answered
<1>2. \A e : Settled(disk', e, x)
  BY <1>1 DEF Settled
<1>3. \A e : Verdict(e) => Complete(disk', e) /\ \A q \in Procs : Live(q) => Settled(disk', e, op[q])
  BY SampleStays
<1>4. Certifies(x) => Verdict(Shown(x))
  BY DEF Inv, Verdicts
<1> QED BY <1>2, <1>3, <1>4, VerdictsNext DEF Inv

\* No command under a lock makes an artifact of a sample.
LEMMA NoArtifact ==
    ASSUME NEW kind, NEW path, Makes(kind, path)
    PROVE  path[1] \notin {"execution", "output", "state"}
BY DEF Makes

\* Step WriteNew.
LEMMA WriteNewNext ==
    ASSUME Inv, NEW p \in Procs, WriteNew(p)
    PROVE  Inv'
<1> DEFINE o == op[p]
           path == Now(p).path
           content == Now(p).content
           x == Maker(o, path)
<1>1. /\ Live(p) /\ Shape(o) /\ Beside(disk, ledger, o) /\ Doing(o, "new")
      /\ o.failed = FALSE /\ o.at \in Nat \ {0} /\ o.at <= Len(o.plan) /\ ~Finished(o)
      /\ Now(p) = Step1(o)
  BY AtDoing DEF WriteNew
<1>2. CASE Exists(path)
  <2>1. At(p, "new") /\ Abort(p) /\ Same
    BY <1>2 DEF WriteNew, around, bounds, Same
  <2> QED BY <2>1, OwnAbort
<1>3. CASE ~Exists(path)
  <2>1. /\ Made(p) /\ disk' = Written(disk, path, content) /\ path \notin DOMAIN disk
        /\ UNCHANGED <<ledger, audits, protocol, inside, commands, edits>>
    BY <1>3 DEF WriteNew, Exists, around, bounds
  <2>2. Becomes(p, x)
    BY <1>1, <2>1, OpSteps DEF Inv, Commands, Shape, IsWork
  <2>3. x.kind = o.kind /\ x.day = o.day /\ x.failed = o.failed /\ Shown(x) = Shown(o)
    BY MakerFields
  <2>4. Shape(x)
    BY <1>1, ShapeMaker
  <2>5. /\ o.kind \in {"accept", "supersede", "reject"}
        /\ Makes(o.kind, path)
        /\ path[1] = "evidence" => path = <<"evidence", Shown(o)>>
        /\ path[1] = "manifest" => /\ o.kind = "accept" /\ o.at = Len(o.plan)
                                   /\ path = Canonical /\ content = Made1(o)
    BY <1>1, Creating
  <2>6. IsChain(AcceptedIn(disk)) /\ Replays(disk, AcceptedIn(disk))
    BY DEF Inv, Chained
  <2>7. Beside(disk', ledger, x)
    BY <1>1, <2>1, <2>6, MakerBeside
  <2> HIDE DEF x, path, content
  <2>8. /\ DOMAIN disk' = DOMAIN disk \cup {path}
        /\ \A y \in DOMAIN disk : y # path => disk'[y] = disk[y]
    BY <2>1 DEF Written
  <2>9. path[1] \notin {"execution", "output", "state"}
    BY <2>5, NoArtifact
  <2>10. Typing' /\ Locking' /\ Days1'
    <3>1. Typing'
      BY <2>1, <2>8, <2>9 DEF Inv, Typing
    <3> QED BY <1>1, <2>1, <2>2, <2>3, <3>1, LockingNext, DaysNext DEF Inv
  <2>11. Verdicts'
    <3>1. \A m : KeepsSample(disk, disk', m)
      BY <2>1, <2>9, NoSample
    <3>2. \A y \in DOMAIN disk' : y[1] = "evidence" =>
             y \in DOMAIN disk \/ (Certifies(o) /\ y[2] = Shown(o))
      BY <1>1, <2>5, <2>8 DEF Certifies
    <3>3. x.kind # "sample" /\ (Certifies(x) => Certifies(o))
      BY <2>3, <2>5 DEF Certifies
    <3> QED BY <1>1, <2>2, <2>3, <3>1, <3>2, <3>3, CertifiedNext
  <2>12. /\ Chained' /\ Evident(DOMAIN disk, ledger)'
         /\ \A q \in Procs \ {p} : Live(q) => Beside(disk', ledger, op[q])
    <3>1. CASE path[1] = "manifest"
      <4>1. IsChain(Made1(o)) /\ Replays(disk, Made1(o))
        BY <1>1, <2>5, <3>1, MadeChain DEF Beside, Accepting
      <4> QED BY <1>1, <2>1, <2>5, <3>1, <4>1, ManifestKeeps, OthersManifest DEF Inv
    <3>2. CASE path[1] # "manifest"
      <4>1. Apart(disk, path)
        BY <2>1 DEF Apart
      <4>2. o.kind # "sample"
        BY <2>5
      <4> QED BY <1>1, <2>1, <2>5, <3>2, <4>1, <4>2, WriteKeeps, OthersWrite DEF Inv
    <3> QED BY <3>1, <3>2
  <2>13. Commands'
    BY <2>1, <2>2, <2>4, <2>7, <2>12, CommandsNext DEF Inv
  <2> QED BY <2>10, <2>11, <2>12, <2>13 DEF Inv
<1> QED BY <1>2, <1>3

\* Step Replace.
LEMMA ReplaceNext ==
    ASSUME Inv, NEW p \in Procs, Replace(p)
    PROVE  Inv'
<1> DEFINE o == op[p]
           x == Ahead(o, 1)
<1>1. /\ Live(p) /\ Shape(o) /\ Beside(disk, ledger, o) /\ Doing(o, "replace")
      /\ o.failed = FALSE /\ o.at \in Nat \ {0} /\ o.at <= Len(o.plan) /\ ~Finished(o)
      /\ Now(p) = Step1(o)
  BY AtDoing DEF Replace
<1>2. CASE Abort(p) /\ UNCHANGED disk
  <2>1. At(p, "replace") /\ Same
    BY <1>2 DEF Replace, around, bounds, Same
  <2> QED BY <1>2, <2>1, OwnAbort
<1>3. CASE Advance(p) /\ disk' = Written(disk, Canonical, Now(p).content)
  <2>1. o.kind = "supersede" /\ o.at = Len(o.plan) /\ Now(p).content = Made1(o)
    BY <1>1, Replacing
  <2>2. /\ disk' = Written(disk, Canonical, Made1(o))
        /\ UNCHANGED <<ledger, audits, protocol, inside, commands, edits>>
    BY <1>3, <2>1 DEF Replace, around, bounds
  <2>3. Becomes(p, x)
    BY <1>1, <1>3, OpSteps DEF Inv, Commands, Shape, IsWork
  <2>4. x.kind = o.kind /\ x.day = o.day /\ x.failed = o.failed /\ Shown(x) = Shown(o)
    BY AheadFields, Zenon
  <2>5. Shape(x)
    <3>1. 1 \in Nat
      OBVIOUS
    <3> QED BY <1>1, <3>1, ShapeAhead
  <2>6. Beside(disk', ledger, x)
    BY <1>1, <2>1, ManifestOver
  <2> HIDE DEF x
  <2>7. DOMAIN disk' = DOMAIN disk \cup {Canonical}
        /\ \A y \in DOMAIN disk : y # Canonical => disk'[y] = disk[y]
    BY <2>2 DEF Written
  <2>8. Typing' /\ Locking' /\ Days1'
    <3>1. Typing'
      BY <2>2, <2>7 DEF Inv, Typing, Canonical
    <3> QED BY <1>1, <2>2, <2>3, <2>4, <3>1, LockingNext, DaysNext DEF Inv
  <2>9. Verdicts'
    <3>1. \A m : KeepsSample(disk, disk', m)
      BY <2>2, NoSample DEF Canonical
    <3>2. \A y \in DOMAIN disk' : y[1] = "evidence" => y \in DOMAIN disk
      BY <2>7 DEF Canonical
    <3>3. x.kind # "sample" /\ (Certifies(x) => Certifies(o))
      BY <2>1, <2>4 DEF Certifies
    <3> QED BY <1>1, <2>3, <2>4, <3>1, <3>2, <3>3, CertifiedNext
  <2>10. IsChain(Made1(o)) /\ Replays(disk, Made1(o))
    BY <1>1, <2>1, MadeChain DEF Beside, Accepting
  <2>11. Chained' /\ Evident(DOMAIN disk, ledger)'
    BY <2>2, <2>10, ManifestKeeps DEF Inv
  <2>12. \A q \in Procs \ {p} : Live(q) => Beside(disk', ledger, op[q])
    BY <1>1, <2>1, <2>2, OthersManifest DEF Inv
  <2>13. Commands'
    BY <2>2, <2>3, <2>5, <2>6, <2>12, CommandsNext DEF Inv
  <2> QED BY <2>8, <2>9, <2>11, <2>13 DEF Inv
<1> QED BY <1>2, <1>3 DEF Replace

\* Only a rejection depends on the ledger.
LEMMA AnyLedger ==
    ASSUME NEW f, NEW l, NEW m, NEW o, Beside(f, l, o), o.kind # "reject"
    PROVE  Beside(f, m, o)
BY DEF Beside, Rejecting

\* One rejection at a time.
LEMMA OthersLedger ==
    ASSUME Locking, Commands, NEW p \in Procs, Live(p), op[p].kind = "reject"
    PROVE  \A q \in Procs \ {p} : Live(q) => op[q].kind # "reject"
<1> SUFFICES ASSUME NEW q \in Procs \ {p}, Live(q), op[q].kind = "reject" PROVE FALSE
  OBVIOUS
<1> QED BY Exclusive

\* A rejection changes the status of what failed, and no wording.
LEMMA RejectedIs ==
    ASSUME NEW l \in Ledgers, NEW failed
    PROVE  /\ Rejected(l, failed) \in Ledgers
           /\ \A b \in Blocks : /\ Rejected(l, failed)[b].word = l[b].word
                                /\ b \notin failed => Rejected(l, failed)[b] = l[b]
<1>1. \A b \in Blocks : l[b] \in [word : Words, status : Statuses]
  BY DEF Ledgers
<1>2. \A b \in Blocks : /\ [l[b] EXCEPT !.status = "rejected"] \in [word : Words, status : Statuses]
                        /\ [l[b] EXCEPT !.status = "rejected"].word = l[b].word
  BY <1>1 DEF Statuses
<1> QED BY <1>1, <1>2 DEF Rejected, Ledgers

\* Step ReplaceLedger.
LEMMA ReplaceLedgerNext ==
    ASSUME Inv, NEW p \in Procs, ReplaceLedger(p)
    PROVE  Inv'
<1> DEFINE o == op[p]
           path == <<"ledger">>
           x == Maker(o, path)
           failed == Shown(o).answer.failed
<1>1. /\ Live(p) /\ Shape(o) /\ Beside(disk, ledger, o) /\ Doing(o, "ledger")
      /\ o.failed = FALSE /\ o.at \in Nat \ {0} /\ o.at <= Len(o.plan) /\ ~Finished(o)
      /\ Now(p) = Step1(o)
  BY AtDoing DEF ReplaceLedger
<1>2. CASE Abort(p) /\ UNCHANGED ledger
  <2>1. At(p, "ledger") /\ Same
    BY <1>2 DEF ReplaceLedger, around, bounds, Same
  <2> QED BY <1>2, <2>1, OwnAbort
<1>3. CASE ledger = o.opened /\ Made(p) /\ ledger' = Now(p).content
  <2>1. /\ o.kind = "reject" /\ Now(p).path = path
        /\ Now(p).content = Rejected(o.opened, failed)
    BY <1>1, Rejection
  <2>2. /\ ledger' = Rejected(o.opened, failed)
        /\ UNCHANGED <<audits, protocol, disk, inside, commands, edits>>
    BY <1>3, <2>1 DEF ReplaceLedger, around, bounds
  <2>3. Becomes(p, x)
    BY <1>1, <1>3, <2>1, OpSteps DEF Inv, Commands, Shape, IsWork
  <2>4. x.kind = o.kind /\ x.day = o.day /\ x.failed = o.failed /\ Shown(x) = Shown(o)
    BY MakerFields, Zenon
  <2>5. Shape(x)
    BY <1>1, <2>1, ShapeMaker
  <2>6. <<"evidence", Shown(o)>> \in DOMAIN disk /\ Beside(disk, ledger', x)
    BY <1>1, <1>3, <2>2, LedgerBeside
  <2> HIDE DEF x, failed
  <2>7. o.opened \in Ledgers /\ Shown(o).m.ledger = o.opened
    BY <1>1, <2>1, RejectIs DEF Shape
  <2>8. /\ ledger' \in Ledgers
        /\ \A b \in Blocks : /\ ledger'[b].word = o.opened[b].word
                             /\ b \notin failed => ledger'[b] = o.opened[b]
    BY <2>2, <2>7, RejectedIs
  <2>9. Typing' /\ Locking' /\ Days1' /\ Chained'
    <3>1. Typing'
      BY <2>2, <2>8 DEF Inv, Typing
    <3>2. Chained'
      BY <2>2 DEF Inv, Chained
    <3> QED BY <1>1, <2>2, <2>3, <2>4, <3>1, <3>2, LockingNext, DaysNext DEF Inv
  <2>10. Verdicts'
    <3>1. \A m : KeepsSample(disk, disk', m)
      BY <2>2 DEF KeepsSample
    <3>2. x.kind # "sample" /\ (Certifies(x) => Certifies(o))
      BY <2>1, <2>4 DEF Certifies
    <3> QED BY <1>1, <2>2, <2>3, <2>4, <3>1, <3>2, CertifiedNext
  <2>11. Evident(DOMAIN disk, ledger)'
    <3> SUFFICES ASSUME NEW b \in Blocks, ledger'[b].status = "rejected"
                 PROVE  \E y \in DOMAIN disk : Condemns(y, ledger', b)
      BY <2>2 DEF Evident
    <3>1. CASE b \in failed
      <4> DEFINE y == <<"evidence", Shown(o)>>
      <4>1. y[1] = "evidence" /\ y[2] = Shown(o)
        OBVIOUS
      <4> HIDE DEF y
      <4>2. y \in DOMAIN disk
        BY <2>6 DEF y
      <4>3. Condemns(y, ledger', b)
        BY <2>7, <2>8, <3>1, <4>1 DEF Condemns, failed
      <4> QED BY <4>2, <4>3
    <3>2. CASE b \notin failed
      <4>1. ledger[b].status = "rejected"
        BY <1>3, <2>8, <3>2
      <4>2. PICK y \in DOMAIN disk : Condemns(y, ledger, b)
        BY <4>1 DEF Inv, Evident
      <4>3. Condemns(y, ledger', b)
        BY <1>3, <2>8, <4>2 DEF Condemns
      <4> QED BY <4>3
    <3> QED BY <3>1, <3>2
  <2>12. Commands'
    <3>1. \A q \in Procs \ {p} : Live(q) => Beside(disk', ledger', op[q])
      <4> SUFFICES ASSUME NEW q \in Procs \ {p}, Live(q) PROVE Beside(disk, ledger', op[q])
        BY <2>2
      <4>1. op[q].kind # "reject"
        BY <1>1, <2>1, OthersLedger DEF Inv
      <4>2. Beside(disk, ledger, op[q])
        BY CommandsBeside DEF Inv
      <4> QED BY <4>1, <4>2, AnyLedger
    <3> QED BY <2>2, <2>3, <2>5, <2>6, <3>1, CommandsNext DEF Inv
  <2> QED BY <2>9, <2>10, <2>11, <2>12 DEF Inv
<1> QED BY <1>2, <1>3 DEF ReplaceLedger

\* Step TakeBack.
LEMMA TakeBackNext ==
    ASSUME Inv, NEW p \in Procs, TakeBack(p)
    PROVE  Inv'
<1> DEFINE o == op[p]
           x == Ahead(o, 1)
           paths == Next1(o)
<1>1. Live(p) /\ Shape(o) /\ Beside(disk, ledger, o) /\ o.failed /\ IsWork(o)
  BY CommandsBeside DEF TakeBack, Idle, Live, Inv, Shape, IsWork
<1>2. /\ o.at <= Len(UndoOrder(o.kind))
      /\ ledger' = PutBack(ledger, o) /\ disk' = Without(disk, paths)
      /\ Advance(p)
      /\ UNCHANGED <<audits, protocol, inside, commands, edits>>
  <2>1. Left(p) = paths
    BY DEF Left, Next1
  <2>2. Len(UndoOrder(o.kind)) \in Nat /\ o.at \in Nat
    BY <1>1 DEF Shape, UndoOrder, Kinds
  <2>3. ~(o.at > Len(UndoOrder(o.kind)))
    BY <1>1 DEF TakeBack, Done
  <2>4. o.at <= Len(UndoOrder(o.kind))
    BY <2>2, <2>3
  <2> QED BY <2>1, <2>4 DEF TakeBack, PutBack, around, bounds
<1>3. Becomes(p, x)
  BY <1>1, <1>2, OpSteps DEF Inv, Commands
<1>4. x.kind = o.kind /\ x.day = o.day /\ x.failed = o.failed /\ Shown(x) = Shown(o)
  BY AheadFields, Zenon
<1>5. Shape(x)
  <2>1. 1 \in Nat
    OBVIOUS
  <2> QED BY <1>1, <2>1, ShapeAhead
<1>6. /\ Beside(disk', ledger', x)
      /\ AcceptedIn(disk') = AcceptedIn(disk)
      /\ IF o.kind = "reject" THEN ledger' = o.opened
         ELSE o.kind \in {"accept", "supersede"} /\ ledger' = ledger
  BY <1>1, <1>2, BackBeside
<1> HIDE DEF x
<1>7. paths \subseteq o.made
  BY DEF Next1
<1> HIDE DEF paths
<1>8. DOMAIN disk' = DOMAIN disk \ paths /\ \A y \in DOMAIN disk' : disk'[y] = disk[y]
  BY <1>2 DEF Without
<1>9. \A y \in paths : Makes(o.kind, y) /\ y[1] # "manifest"
  BY <1>1, <1>7 DEF Shape, Finished
<1>10. Typing' /\ Locking' /\ Days1'
  <2>1. ledger' \in Ledgers
    BY <1>1, <1>6 DEF Shape, Inv, Typing
  <2>2. Typing'
    BY <1>2, <1>8, <2>1 DEF Inv, Typing
  <2> QED BY <1>1, <1>2, <1>3, <1>4, <2>2, LockingNext, DaysNext DEF Inv
<1>11. Verdicts'
  <2>1. \A m : KeepsSample(disk, disk', m)
    <3>1. \A m : \A i \in 1..3 : <<Artifacts[i], m>> \notin paths
      <4>1. \A y \in paths : y[1] \notin {"execution", "output", "state"}
        BY <1>9, NoArtifact
      <4> QED BY <4>1 DEF Artifacts
    <3> QED BY <1>8, <3>1 DEF KeepsSample
  <2>2. x.kind # "sample" /\ ~Certifies(x)
    BY <1>1, <1>4, <1>6 DEF Certifies
  <2> QED BY <1>1, <1>3, <1>4, <1>8, <2>1, <2>2, CertifiedNext
<1>12. Commands'
  <2>1. \A q \in Procs \ {p} : Live(q) => Beside(disk', ledger', op[q])
    <3> SUFFICES ASSUME NEW q \in Procs \ {p}, Live(q) PROVE Beside(disk', ledger', op[q])
      OBVIOUS
    <3>1. Shape(op[q]) /\ Beside(disk, ledger, op[q])
      BY CommandsBeside DEF Inv
    <3>2. op[q].kind # "sample" => Scope(op[q].kind) # Scope(o.kind)
      BY <1>1, <1>6, Exclusive DEF Inv
    <3>3. Beside(disk', ledger, op[q])
      BY <1>1, <1>2, <1>7, <3>1, <3>2, RemoveBeside
    <3>4. CASE o.kind # "reject"
      BY <1>6, <3>3, <3>4
    <3>5. CASE o.kind = "reject"
      BY <1>1, <3>3, <3>5, OthersLedger, AnyLedger DEF Inv
    <3> QED BY <3>4, <3>5
  <2> QED BY <1>3, <1>5, <1>6, <2>1, CommandsNext DEF Inv
<1>13. Chained'
  <2>1. IsChain(AcceptedIn(disk)) /\ Replays(disk, AcceptedIn(disk))
    BY DEF Inv, Chained
  <2>2. Replays(disk', AcceptedIn(disk))
    <3>1. CASE o.kind = "reject"
      <4>1. KeepsChains(disk, disk')
        BY <1>8, <1>9, <3>1 DEF KeepsChains, Makes
      <4> QED BY <2>1, <4>1, ChainsKept
    <3>2. CASE o.kind \in {"accept", "supersede"}
      <4>1. o.made \cap Needs(AcceptedIn(disk)) = {}
        BY <1>1, <3>2 DEF Beside, Accepting, Finished
      <4>2. \A y \in Needs(AcceptedIn(disk)) : y \in DOMAIN disk' /\ disk'[y] = disk[y]
        BY <1>7, <1>8, <2>1, <4>1, NeedsThere
      <4> QED BY <2>1, <4>2, ReplaysKept
    <3> QED BY <1>6, <3>1, <3>2
  <2> QED BY <1>6, <2>1, <2>2 DEF Chained
<1>14. Evident(DOMAIN disk, ledger)'
  <2>1. CASE o.kind = "reject"
    <3>1. Evident(DOMAIN disk \ o.made, o.opened) /\ ledger' = o.opened
      BY <1>1, <1>6, <2>1 DEF Beside, Rejecting
    <3>2. DOMAIN disk \ o.made \subseteq DOMAIN disk'
      BY <1>7, <1>8
    <3> QED BY <3>1, <3>2 DEF Evident
  <2>2. CASE o.kind # "reject"
    <3>1. Evident(DOMAIN disk, ledger) /\ ledger' = ledger
      BY <1>6, <2>2 DEF Inv
    <3>2. \A y \in DOMAIN disk : y[1] = "evidence" /\ y[2].answer.failed # {} => y \in DOMAIN disk'
      BY <1>6, <1>8, <1>9, <2>2 DEF Makes
    <3>3. Evident(DOMAIN disk', ledger)
      BY <3>1, <3>2, EvidentMore
    <3> QED BY <3>1, <3>3
  <2> QED BY <2>1, <2>2
<1> QED BY <1>10, <1>11, <1>12, <1>13, <1>14 DEF Inv

\* A command is over, or its process dies.
LEMMA OverNext ==
    ASSUME Inv, NEW p \in Procs, op' = [op EXCEPT ![p] = None],
           IF inside[p] = {} THEN UNCHANGED inside ELSE Locks!Leave(p),
           UNCHANGED <<ledger, audits, protocol, disk, commands>>,
           edits' = edits \/ (edits < MaxEdits /\ edits' = edits + 1)
    PROVE  Inv'
<1>1. Becomes(p, None)
  BY DEF Becomes, Inv, Commands
<1>2. Typing' /\ Chained' /\ Evident(DOMAIN disk, ledger)'
  BY AuditAssumption DEF Inv, Typing, Chained
<1>3. Locking'
  <2>1. \A q \in Procs : inside'[q] \subseteq inside[q] /\ (q # p => inside'[q] = inside[q])
    BY DEF Locks!Leave, Inv, Locking, Locks!TypeOK
  <2>2. Locks!TypeOK'
    BY DEF Locks!Leave, Inv, Locking, Locks!TypeOK
  <2>3. \A q \in Procs : op'[q] # None => q # p /\ op'[q] = op[q]
    BY <1>1 DEF Becomes
  <2> QED BY <2>1, <2>2, <2>3 DEF Inv, Locking, Live
<1>4. Days1'
  BY <1>1, DaysNext DEF Inv
<1>5. Commands'
  <2>1. \A q \in Procs \ {p} : Live(q) => Beside(disk, ledger, op[q])
    BY CommandsBeside DEF Inv
  <2> QED BY <1>1, <2>1, CommandsNext DEF Inv
<1>6. Verdicts'
  <2>1. \A e : Verdict(e) => Complete(disk, e) /\ \A q \in Procs : Live(q) => Settled(disk, e, op[q])
    BY DEF Verdict, Stands, Live
  <2> QED BY <1>1, <2>1, VerdictsNext DEF Inv
<1> QED BY <1>2, <1>3, <1>4, <1>5, <1>6 DEF Inv

\* Steps Leave and Die.
LEMMA LeaveNext ==
    ASSUME Inv, NEW p \in Procs, Leave(p) \/ Die(p)
    PROVE  Inv'
<1>1. /\ op' = [op EXCEPT ![p] = None]
      /\ IF inside[p] = {} THEN UNCHANGED inside ELSE Locks!Leave(p)
      /\ UNCHANGED <<ledger, audits, protocol, disk, commands>>
      /\ edits' = edits \/ (edits < MaxEdits /\ edits' = edits + 1)
  BY DEF Leave, Die, around, bounds
<1> QED BY <1>1, OverNext

-----------------------------------------------------------------------------
(* What happens around the commands.                                       *)

\* The verdicts after a step of no command.
LEMMA AroundVerdicts ==
    ASSUME Inv, op' = op, \A m : KeepsSample(disk, disk', m),
           \A path \in DOMAIN disk' : path[1] = "evidence" => path \in DOMAIN disk
    PROVE  Verdicts'
<1>1. ASSUME NEW e, Verdict(e) PROVE Stands(disk', op', e)
  <2>1. Complete(disk', e) /\ \A q \in Procs : Live(q) => Settled(disk', e, op[q])
    BY <1>1, SampleStays
  <2> QED BY <1>1, <2>1 DEF Verdict, Stands, Live
<1>2. ASSUME NEW path \in DOMAIN disk', path[1] = "evidence"
      PROVE  Stands(disk', op', path[2])
  <2>1. Verdict(path[2])
    BY <1>2 DEF Inv, Verdicts
  <2> QED BY <1>1, <2>1
<1>3. ASSUME NEW q \in Procs, op'[q] # None, Certifies(op'[q])
      PROVE  Stands(disk', op', Shown(op'[q]))
  <2>1. Verdict(Shown(op[q]))
    BY <1>3 DEF Inv, Verdicts, Live
  <2> QED BY <1>1, <2>1
<1> QED BY <1>2, <1>3 DEF Verdicts, Live, Verdict

\* The commands after a step of none of them.
LEMMA AroundCommands ==
    ASSUME Inv, op' = op, inside' = inside, commands' = commands,
           \A q \in Procs : Live(q) => Beside(disk', ledger', op[q])
    PROVE  Locking' /\ Days1' /\ Commands'
<1>1. Locking' /\ Days1'
  BY DEF Inv, Locking, Days1, Locks!TypeOK, Live
<1>2. Commands'
  BY DEF Inv, Commands, Live, Beside
<1> QED BY <1>1, <1>2

\* Step EditLedger: no rejection has the lock, and a new wording is no rejected one.
LEMMA EditLedgerNext ==
    ASSUME Inv, EditLedger
    PROVE  Inv'
<1>1. /\ edits < MaxEdits /\ edits' = edits + 1
      /\ UNCHANGED <<commands, op, inside, protocol, audits, disk>>
  BY DEF EditLedger, Edit, around
<1>2. \A b \in Blocks : ledger[b] \in [word : Words, status : Statuses]
  BY DEF Inv, Typing, Ledgers
<1>3. /\ ledger' \in Ledgers
      /\ \A b \in Blocks : ledger'[b].status = "rejected" => ledger'[b] = ledger[b]
  <2>1. PICK b \in Blocks :
          \/ \E w \in Words \ {ledger[b].word} :
               ledger' = [ledger EXCEPT ![b] = [word |-> w, status |-> "unreviewed"]]
          \/ ledger' = [ledger EXCEPT ![b].status = "accepted"]
    BY DEF EditLedger
  <2>2. ASSUME NEW w \in Words,
               ledger' = [ledger EXCEPT ![b] = [word |-> w, status |-> "unreviewed"]]
        PROVE  /\ ledger' \in Ledgers
               /\ \A c \in Blocks : ledger'[c].status = "rejected" => ledger'[c] = ledger[c]
    <3>1. [word |-> w, status |-> "unreviewed"] \in [word : Words, status : Statuses]
      BY DEF Statuses
    <3> QED BY <2>2, <3>1 DEF Inv, Typing, Ledgers
  <2>3. CASE ledger' = [ledger EXCEPT ![b].status = "accepted"]
    <3> DEFINE new == [ledger[b] EXCEPT !.status = "accepted"]
    <3>1. new \in [word : Words, status : Statuses] /\ new.status = "accepted"
      BY <1>2 DEF Statuses
    <3>2. ledger' = [ledger EXCEPT ![b] = new]
      BY <2>3
    <3> HIDE DEF new
    <3> QED BY <3>1, <3>2 DEF Inv, Typing, Ledgers
  <2> QED BY <2>1, <2>2, <2>3
<1>4. Typing' /\ Chained'
  BY <1>1, <1>3, AuditAssumption DEF Inv, Typing, Chained
<1>5. Evident(DOMAIN disk, ledger)'
  <2> SUFFICES ASSUME NEW b \in Blocks, ledger'[b].status = "rejected"
               PROVE  \E y \in DOMAIN disk : Condemns(y, ledger', b)
    BY <1>1 DEF Evident
  <2>1. ledger'[b] = ledger[b]
    BY <1>3
  <2>2. PICK y \in DOMAIN disk : Condemns(y, ledger, b)
    BY <2>1 DEF Inv, Evident
  <2> QED BY <2>1, <2>2 DEF Condemns
<1>6. Locking' /\ Days1' /\ Commands'
  <2>1. ASSUME NEW q \in Procs, Live(q) PROVE Beside(disk', ledger', op[q])
    <3>1. Beside(disk, ledger, op[q])
      BY <2>1, CommandsBeside DEF Inv
    <3>2. op[q].kind # "reject"
      BY <2>1 DEF EditLedger, LedgerIsFree, Inv, Locking, Scope
    <3>3. Beside(disk, ledger', op[q])
      BY <3>1, <3>2, AnyLedger
    <3> QED BY <1>1, <3>3
  <2> QED BY <1>1, <2>1, AroundCommands
<1>7. Verdicts'
  BY <1>1, AroundVerdicts DEF KeepsSample
<1> QED BY <1>4, <1>5, <1>6, <1>7 DEF Inv

\* Steps EditProtocol and Audit.
LEMMA OutsideNext ==
    ASSUME Inv, EditProtocol \/ Audit
    PROVE  Inv'
<1>1. /\ edits < MaxEdits /\ edits' = edits + 1
      /\ UNCHANGED <<commands, op, inside, ledger, disk>>
  BY DEF EditProtocol, Audit, Edit
<1>2. Typing'
  <2>1. CASE EditProtocol
    BY <1>1, <2>1, AuditAssumption DEF EditProtocol, Inv, Typing
  <2>2. CASE Audit
    <3>1. PICK b \in Blocks, text \in Texts :
            audits' = [audits EXCEPT ![b] = [word |-> ledger[b].word, text |-> text]]
      BY <2>2 DEF Audit
    <3>2. [word |-> ledger[b].word, text |-> text] \in [word : Words, text : Texts]
      BY DEF Inv, Typing, Ledgers
    <3>3. audits' \in [Blocks -> [word : Words, text : Texts]]
      BY <3>1, <3>2 DEF Inv, Typing
    <3> QED BY <1>1, <2>2, <3>3, AuditAssumption DEF Audit, Inv, Typing
  <2> QED BY <2>1, <2>2
<1>3. Chained' /\ Evident(DOMAIN disk, ledger)'
  BY <1>1 DEF Inv, Chained
<1>4. Locking' /\ Days1' /\ Commands'
  <2>1. \A q \in Procs : Live(q) => Beside(disk', ledger', op[q])
    BY <1>1, CommandsBeside DEF Inv
  <2> QED BY <1>1, <2>1, AroundCommands
<1>5. Verdicts'
  BY <1>1, AroundVerdicts DEF KeepsSample
<1> QED BY <1>2, <1>3, <1>4, <1>5 DEF Inv

\* Step WritePreview.
LEMMA WritePreviewNext ==
    ASSUME Inv, WritePreview
    PROVE  Inv'
<1>1. /\ disk' = Written(disk, Pending, Preview)
      /\ UNCHANGED <<ledger, audits, protocol, inside, op, commands, edits>>
  BY DEF WritePreview, around, bounds
<1>2. Pending[1] = "pending"
  BY DEF Pending
<1> DEFINE m == Preview
<1> HIDE DEF m
<1>3. disk' = Written(disk, Pending, m)
  BY <1>1 DEF m
<1>4. DOMAIN disk' = DOMAIN disk \cup {Pending}
      /\ \A y \in DOMAIN disk : y # Pending => disk'[y] = disk[y]
  BY <1>3 DEF Written
<1>5. Typing'
  BY <1>1, <1>2, <1>4 DEF Inv, Typing
<1>6. Apart(disk, Pending)
  BY <1>2 DEF Apart, ScratchNames
<1>7. Chained' /\ Evident(DOMAIN disk, ledger)'
  BY <1>1, <1>2, <1>3, <1>6, WriteKeeps DEF Inv
<1>8. Locking' /\ Days1' /\ Commands'
  <2>1. ASSUME NEW q \in Procs, Live(q) PROVE Beside(disk', ledger, op[q])
    <3>1. Shape(op[q]) /\ Beside(disk, ledger, op[q])
      BY <2>1, CommandsBeside DEF Inv
    <3>2. Pending \notin op[q].made
      <4>1. ~Makes(op[q].kind, Pending)
        BY <1>2, <3>1 DEF Makes, Shape
      <4> QED BY <3>1, <4>1 DEF Shape
    <3> QED BY <1>2, <1>3, <1>6, <3>1, <3>2, WriteBeside
  <2> QED BY <1>1, <2>1, AroundCommands
<1>9. Verdicts'
  <2>1. \A k : KeepsSample(disk, disk', k)
    BY <1>2, <1>3, NoSample
  <2> QED BY <1>1, <1>2, <1>4, <2>1, AroundVerdicts
<1> QED BY <1>5, <1>7, <1>8, <1>9 DEF Inv

-----------------------------------------------------------------------------
(* A command that begins.                                                  *)

\* The command x is at the beginning of its plan.
Opened(x, kind, plan, l) ==
    /\ IsWork(x) /\ x.kind = kind /\ x.plan = plan
    /\ x.at = 1 /\ x.made = {} /\ x.opened = l /\ ~x.failed /\ x.failed \in BOOLEAN

\* A command as it starts.
LEMMA OpenedIs ==
    ASSUME NEW STATE kind, NEW STATE day, NEW STATE plan
    PROVE  Opened(Work(kind, day, plan), kind, plan, ledger)
<1> DEFINE x == Work(kind, day, plan)
<1>1. /\ x.kind = kind /\ x.day = day /\ x.plan = plan /\ x.at = 1 /\ x.made = {}
      /\ x.opened = ledger
  BY DEF Work
<1>2. x.failed = FALSE
  BY DEF Work
<1>3. IsWork(x)
  BY DEF Work, IsWork, Work7
<1> HIDE DEF x
<1>4. Opened(x, kind, plan, ledger)
  BY <1>1, <1>2, <1>3 DEF Opened
<1> QED BY <1>4 DEF x

\* A command has its shape as it starts.
LEMMA OpenedShape ==
    ASSUME NEW x, NEW kind \in Kinds, NEW plan, NEW l \in Ledgers, Opened(x, kind, plan, l), PlanIs(x)
    PROVE  Shape(x)
<1>1. x.at \in Nat \ {0}
  BY DEF Opened
<1> QED BY <1>1 DEF Opened, Shape, IsWork

\* A command has nothing to undo as it starts.
LEMMA OpenedBeside ==
    ASSUME NEW x, NEW kind \in Kinds, NEW plan, NEW l, Opened(x, kind, plan, l), NEW f,
           kind \in {"accept", "supersede"} => Len(plan) # 1,
           kind = "reject" => Evident(DOMAIN f, l),
           kind = "refresh" => plan[1].content = AcceptedIn(f)
    PROVE  Beside(f, l, x)
<1>1. Undone(f, x)
  BY DEF Opened, Undone
<1>2. Rejecting(f, l, x)
  <2>1. DOMAIN f \ {} = DOMAIN f
    OBVIOUS
  <2>2. x.kind = kind /\ x.made = {} /\ x.opened = l /\ x.at = 1
    BY DEF Opened
  <2> QED BY <2>1, <2>2 DEF Rejecting
<1>3. Accepting(f, x)
  BY DEF Opened, Accepting
<1> QED BY <1>1, <1>2, <1>3 DEF Beside

\* A command starts.
LEMMA OpenNext ==
    ASSUME Inv, NEW p \in Procs, ~Live(p), NEW x, Becomes(p, x),
           Shape(x), Beside(disk, ledger, x), x.at = 1,
           commands < MaxCommands, commands' = commands + 1,
           UNCHANGED <<ledger, audits, protocol, disk, edits>>,
           \/ x.kind = "sample" /\ x.day = commands' /\ inside' = inside
           \/ x.kind # "sample" /\ Locks!Enter(p, Scope(x.kind)),
           Certifies(x) => Verdict(Shown(x))
    PROVE  Inv'
<1>1. op'[p] = x /\ \A q \in Procs \ {p} : op'[q] = op[q]
  BY DEF Becomes
<1>2. commands \in Nat /\ commands' \in 0..MaxCommands
  BY AuditAssumption DEF Inv, Typing
<1>3. Typing' /\ Chained' /\ Evident(DOMAIN disk, ledger)'
  BY <1>2 DEF Inv, Typing, Chained
<1>4. Locking'
  <2>1. CASE x.kind = "sample"
    BY <1>1, <2>1 DEF Inv, Locking, Live, Locks!TypeOK
  <2>2. CASE x.kind # "sample"
    <3> DEFINE s == Scope(x.kind)
    <3>1. s \in SUBSET {"manifest", "ledger"}
      BY DEF Scope
    <3>2. Locks!Enter(p, s)
      BY <2>2
    <3> HIDE DEF s
    <3>3. /\ Locks!TypeOK' /\ inside'[p] = s
          /\ \A q \in Procs \ {p} : inside'[q] = inside[q] /\ inside[q] \cap s = {}
      BY <3>1, <3>2 DEF Inv, Locking, Locks!TypeOK, Locks!Enter
    <3>4. \A q, r \in Procs : q # r => inside'[q] \cap inside'[r] = {}
      <4>1. \A q, r \in Procs \ {p} : q # r => inside'[q] \cap inside'[r] = {}
        BY <3>3 DEF Inv, Locking
      <4>2. \A q \in Procs \ {p} : inside'[q] \cap inside'[p] = {} /\ inside'[p] \cap inside'[q] = {}
        BY <3>3
      <4> QED BY <4>1, <4>2
    <3>5. ASSUME NEW q \in Procs, op'[q] # None, op'[q].kind # "sample"
          PROVE  inside'[q] = Scope(op'[q].kind)
      <4>1. CASE q = p
        BY <1>1, <3>3, <4>1 DEF s
      <4>2. CASE q # p
        BY <1>1, <3>3, <3>5, <4>2 DEF Inv, Locking, Live
      <4> QED BY <4>1, <4>2
    <3> QED BY <3>3, <3>4, <3>5 DEF Locking, Live
  <2> QED BY <2>1, <2>2
<1>5. Days1'
  <2>1. ASSUME NEW q \in Procs \ {p}, op[q] # None, op[q].kind = "sample"
        PROVE  op[q].day \in 1..commands' /\ op[q].day # commands'
    BY <1>2, <2>1 DEF Inv, Days1, Live
  <2>2. ASSUME x.kind = "sample" PROVE x.day = commands'
    BY <2>2
  <2>3. commands' \in 1..commands'
    BY <1>2
  <2> QED BY <1>1, <2>1, <2>2, <2>3 DEF Inv, Days1, Live
<1>6. Commands'
  <2>1. \A q \in Procs \ {p} : Live(q) => Beside(disk, ledger, op[q])
    BY CommandsBeside DEF Inv
  <2> QED BY <2>1, CommandsNext DEF Inv
<1>7. Verdicts'
  <2>1. \A e : Verdict(e) => Complete(disk, e) /\ \A q \in Procs : Live(q) => Settled(disk, e, op[q])
    BY DEF Verdict, Stands, Live
  <2>2. \A e : Settled(disk, e, x)
    BY DEF Settled
  <2> QED BY <2>1, <2>2, VerdictsNext DEF Inv
<1> QED BY <1>3, <1>4, <1>5, <1>6, <1>7 DEF Inv

\* Step Ask.
LEMMA AskNext ==
    ASSUME Inv, NEW p \in Procs, Ask(p)
    PROVE  Inv'
<1> DEFINE day == commands + 1
           step == Step("answer", Pending, Preview)
           plan == <<step>>
           x == Work("sample", day, plan)
<1>1. /\ ~Live(p) /\ commands < MaxCommands /\ commands' = day
      /\ UNCHANGED <<ledger, audits, protocol, disk, edits, inside>>
  BY DEF Ask, Idle, Live, around
<1>2. op' = [op EXCEPT ![p] = x]
  BY <1>1 DEF Ask
<1>3. Opened(x, "sample", plan, ledger)
  BY OpenedIs
<1>4. x.day = day
  BY DEF Work
<1>5. commands' = commands + 1 /\ x.day = commands'
  BY <1>1, <1>4
<1> HIDE DEF x, day
<1>6. Becomes(p, x)
  BY <1>2 DEF Becomes, Inv, Commands
<1>7. plan[1] = step /\ step = Step("answer", Pending, step.content)
  BY DEF Step
<1> HIDE DEF step
<1>8. plan = <<Step("answer", Pending, plan[1].content)>> /\ Len(plan) = 1
  BY <1>7
<1> HIDE DEF plan
<1>9. x.kind = "sample" /\ x.plan = plan /\ x.at = 1
  BY <1>3 DEF Opened
<1>10. PlanIs(x)
  BY <1>8, <1>9 DEF PlanIs, SamplePlan
<1>11. Shape(x) /\ Beside(disk, ledger, x)
  <2>1. "sample" \in Kinds /\ ledger \in Ledgers
    BY DEF Kinds, Inv, Typing
  <2> QED BY <1>3, <1>10, <2>1, OpenedShape, OpenedBeside
<1>12. ~Certifies(x)
  BY <1>9 DEF Certifies
<1> QED BY <1>1, <1>5, <1>6, <1>9, <1>11, <1>12, OpenNext

\* Step Answer.
LEMMA AnswerNext ==
    ASSUME Inv, NEW p \in Procs, Answer(p)
    PROVE  Inv'
<1> DEFINE o == op[p]
<1>1. /\ Live(p) /\ Shape(o) /\ Beside(disk, ledger, o) /\ Doing(o, "answer")
      /\ o.failed = FALSE /\ o.at \in Nat \ {0} /\ o.at <= Len(o.plan) /\ ~Finished(o)
      /\ Now(p) = Step1(o) /\ Same
  BY AtDoing DEF Answer, Same, around, bounds
<1>2. o.kind = "sample" /\ o.at = 1
  <2>1. o.kind = "sample"
    BY <1>1, Scratching
  <2> QED BY <1>1, <2>1, Answering
<1>3. o.made = {}
  BY <1>1, <1>2 DEF Shape, Makes
<1>4. PICK plan :
        /\ op' = [op EXCEPT ![p].plan = plan]
        /\ \/ plan = <<>>
           \/ \E m, a : /\ plan = SampleSteps(m, a) /\ a.no = o.day
                        /\ a.failed \subseteq Active(m.ledger)
  <2>1. CASE op' = [op EXCEPT ![p].plan = <<>>]
    BY <2>1
  <2>2. ASSUME NEW failed \in SUBSET Active(Now(p).content.ledger),
               op' = [op EXCEPT ![p].plan =
                    SampleSteps(Now(p).content, [no |-> o.day, failed |-> failed])]
        PROVE  \E plan :
                 /\ op' = [op EXCEPT ![p].plan = plan]
                 /\ \E m, a : /\ plan = SampleSteps(m, a) /\ a.no = o.day
                              /\ a.failed \subseteq Active(m.ledger)
    <3> DEFINE a == [no |-> o.day, failed |-> failed]
               m == Now(p).content
    <3>1. a.no = o.day /\ a.failed \subseteq Active(m.ledger)
      OBVIOUS
    <3>2. op' = [op EXCEPT ![p].plan = SampleSteps(m, a)]
      BY <2>2
    <3> HIDE DEF a, m
    <3> QED BY <3>1, <3>2
  <2> QED BY <2>1, <2>2 DEF Answer
<1> DEFINE x == Planned(o, plan)
<1>5. Becomes(p, x)
  BY <1>1, <1>4, OpSteps DEF Inv, Commands, Shape, IsWork
<1>6. /\ x.kind = o.kind /\ x.day = o.day /\ x.plan = plan /\ x.at = o.at /\ x.made = o.made
      /\ x.opened = o.opened /\ x.failed = o.failed
      /\ x = Work7(x.kind, x.day, x.plan, x.at, x.made, x.opened, x.failed)
  BY WorkFields DEF Planned
<1> HIDE DEF x
<1>7. SamplePlan(x)
  <2>1. CASE plan = <<>>
    BY <1>6, <2>1 DEF SamplePlan
  <2>2. ASSUME NEW m, NEW a, plan = SampleSteps(m, a), a.no = o.day,
               a.failed \subseteq Active(m.ledger)
        PROVE  SamplePlan(x)
    <3>1. SampleShape(plan, m, a)
      BY <2>2, SampleIs
    <3>2. plan[3] = Step("put", Pending, m)
      BY <3>1 DEF SampleShape
    <3>3. plan[3 * 1 + 3] = Step("put", <<Artifacts[1], m>>, a)
      BY <3>1 DEF SampleShape
    <3>4. Asked(x) = m
      BY <1>6, <3>2 DEF Asked, Step
    <3>5. Said(x) = a
      BY <1>6, <3>3, 3 * 1 + 3 = 6 DEF Said, Step
    <3> QED BY <1>6, <2>2, <3>4, <3>5 DEF SamplePlan
  <2> QED BY <1>4, <2>1, <2>2
<1>8. PlanIs(x)
  BY <1>2, <1>6, <1>7 DEF PlanIs
<1>9. Shape(x)
  BY <1>1, <1>2, <1>3, <1>6, <1>8 DEF Shape
<1>10. Beside(disk, ledger, x)
  BY <1>1, <1>2, <1>6 DEF Beside, Undone, Rejecting, Accepting
<1>11. ~Certifies(x) /\ \A e : Settled(disk, e, x)
  BY <1>2, <1>6 DEF Certifies, Settled
<1> QED BY <1>1, <1>5, <1>6, <1>9, <1>10, <1>11, OwnStep DEF Same

\* A sample that a command finds whole is a verdict from then on.
LEMMA CertifiedIs ==
    ASSUME Inv, NEW v \in {"passed", "failed"}, HasSample(v)
    PROVE  /\ Verdict(Evidence(Preview))
           /\ Evidence(Preview).m = Preview
           /\ IF v = "passed" THEN Evidence(Preview).answer.failed = {}
              ELSE Evidence(Preview).answer.failed # {}
<1> DEFINE m == Preview
           e == Evidence(m)
           answer == disk[<<"output", m>>]
<1>1. Sampled(m) = v
  BY DEF HasSample
<1>2. e = [m |-> m, answer |-> answer]
  BY DEF Evidence
<1> HIDE DEF m
<1>3. /\ Given(m) = DOMAIN Artifacts
      /\ \A i \in DOMAIN Artifacts : disk[<<Artifacts[i], m>>] = disk[<<"output", m>>]
      /\ v = IF disk[<<"output", m>>].failed = {} THEN "passed" ELSE "failed"
  BY <1>1 DEF Sampled
<1>4. DOMAIN Artifacts = 1..3
  BY DEF Artifacts
<1>5. \A i \in 1..3 : <<Artifacts[i], m>> \in DOMAIN disk /\ disk[<<Artifacts[i], m>>] = answer
  BY <1>3, <1>4 DEF Given, Exists
<1> HIDE DEF answer, e
<1>6. e.m = m /\ e.answer = answer /\ e = [m |-> e.m, answer |-> e.answer]
  BY <1>2
<1>7. Complete(disk, e)
  BY <1>5, <1>6 DEF Complete, answer
<1>8. \A o : Settled(disk, e, o)
  <2> SUFFICES ASSUME NEW o, Asked(o) = e.m, Said(o) # e.answer, NEW i \in 1..3
               PROVE  \E j \in 1..3 \ {i} : disk[<<Artifacts[j], e.m>>] # Said(o)
    BY DEF Settled
  <2>1. PICK j \in 1..3 : j # i
    BY 1 \in 1..3, 2 \in 1..3
  <2>2. disk[<<Artifacts[j], e.m>>] # Said(o)
    BY <1>5, <1>6
  <2> QED BY <2>1, <2>2
<1>9. Verdict(e)
  BY <1>6, <1>7, <1>8 DEF Verdict, Stands
<1>10. IF v = "passed" THEN e.answer.failed = {} ELSE e.answer.failed # {}
  BY <1>3, <1>6 DEF answer
<1> QED BY <1>6, <1>9, <1>10 DEF m, e

\* A chain extended by one acceptance, taken apart.
LEMMA Extension ==
    ASSUME NEW past, IsChain(past), NEW m, NEW day, NEW e,
           m.ledger \in Ledgers, e.answer.failed = {}
    PROVE  /\ IsExtension(Append(past, Entry(m, day, e)))
           /\ Before(Append(past, Entry(m, day, e))) = past
           /\ Newest(Append(past, Entry(m, day, e))) = Entry(m, day, e)
<1> DEFINE new == Entry(m, day, e)
           chain == Append(past, new)
<1>1. new.m = m /\ new.evidence = e /\ IsEntry(new)
  BY DEF Entry, IsEntry
<1> HIDE DEF new
<1>2. Newest(chain) = new /\ Before(chain) = past
  BY <1>1, Appended, Zenon
<1>3. chain = Append(Before(chain), Newest(chain))
  BY <1>2, Zenon
<1> HIDE DEF chain
<1>4. IsExtension(chain)
  BY <1>1, <1>2, <1>3 DEF IsExtension
<1> QED BY <1>2, <1>4 DEF chain, new

\* The evidence that a plan creates first, and what it accepts last.
LEMMA FirstAndLast ==
    ASSUME NEW chain, NEW e, NEW day, NEW plan
    PROVE  /\ plan = AcceptSteps(chain) =>
                 Len(plan) = 4 /\ plan[1].path[2] = Newest(chain).evidence /\ plan[4].content = chain
           /\ plan = SupersedeSteps(chain) =>
                 Len(plan) = 7 /\ plan[1].path[2] = Newest(chain).evidence /\ plan[7].content = chain
           /\ plan = RejectSteps(e, day) => plan[1].path[2] = e
           /\ plan = <<Step("put", Canonical, chain)>> =>
                 Len(plan) = 1 /\ plan[1].content = chain
<1>1. \A path, content, do : /\ New(path, content).path = path
                             /\ New(path, content).content = content
                             /\ Step(do, path, content).content = content
  BY DEF New, Step
<1>2. \A x : <<"evidence", x>>[2] = x
  OBVIOUS
<1>3. ASSUME plan = AcceptSteps(chain)
      PROVE  Len(plan) = 4 /\ plan[1].path[2] = Newest(chain).evidence /\ plan[4].content = chain
  <2>1. /\ plan[1] = New(<<"evidence", Newest(chain).evidence>>, None)
        /\ plan[4] = New(Canonical, chain)
        /\ Len(plan) = 4
    BY <1>3 DEF AcceptSteps
  <2> QED BY <1>1, <1>2, <2>1
<1>4. ASSUME plan = SupersedeSteps(chain)
      PROVE  Len(plan) = 7 /\ plan[1].path[2] = Newest(chain).evidence /\ plan[7].content = chain
  <2>1. /\ plan[1] = New(<<"evidence", Newest(chain).evidence>>, None)
        /\ plan[7] = Step("replace", Canonical, chain)
        /\ Len(plan) = 7
    BY <1>4 DEF SupersedeSteps
  <2> QED BY <1>1, <1>2, <2>1
<1>5. ASSUME plan = RejectSteps(e, day) PROVE plan[1].path[2] = e
  <2>1. plan[1] = New(<<"evidence", e>>, None)
    BY <1>5 DEF RejectSteps
  <2> QED BY <1>1, <1>2, <2>1
<1>6. ASSUME plan = <<Step("put", Canonical, chain)>>
      PROVE  Len(plan) = 1 /\ plan[1].content = chain
  <2>1. Len(plan) = 1 /\ plan[1] = Step("put", Canonical, chain)
    BY <1>6
  <2> QED BY <1>1, <2>1
<1> QED BY <1>3, <1>4, <1>5, <1>6

\* An acceptance as it starts.
LEMMA NewAccept ==
    ASSUME NEW chain, IsExtension(chain), Before(chain) = <<>>, NEW f, NEW l \in Ledgers,
           NEW x, NEW plan, plan = AcceptSteps(chain), Opened(x, "accept", plan, l)
    PROVE  Shape(x) /\ Beside(f, l, x) /\ Shown(x) = Newest(chain).evidence
<1>1. Len(plan) = 4 /\ plan[1].path[2] = Newest(chain).evidence /\ plan[4].content = chain
  BY FirstAndLast
<1>2. x.kind = "accept" /\ x.plan = plan
  BY DEF Opened
<1>3. Shown(x) = Newest(chain).evidence /\ Made1(x) = chain
  BY <1>1, <1>2 DEF Shown, Made1
<1>4. PlanIs(x)
  BY <1>2, <1>3 DEF PlanIs
<1>5. "accept" \in Kinds /\ Len(plan) # 1
  BY <1>1 DEF Kinds
<1>6. Shape(x) /\ Beside(f, l, x)
  BY <1>4, <1>5, OpenedShape, OpenedBeside
<1> QED BY <1>3, <1>6

\* A supersede as it starts.
LEMMA NewSupersede ==
    ASSUME NEW chain, IsExtension(chain), Before(chain) # <<>>,
           Newest(Before(chain)).m.ledger # Newest(chain).m.ledger, NEW f, NEW l \in Ledgers,
           NEW x, NEW plan, plan = SupersedeSteps(chain), Opened(x, "supersede", plan, l)
    PROVE  Shape(x) /\ Beside(f, l, x) /\ Shown(x) = Newest(chain).evidence
<1>1. Len(plan) = 7 /\ plan[1].path[2] = Newest(chain).evidence /\ plan[7].content = chain
  BY FirstAndLast
<1>2. x.kind = "supersede" /\ x.plan = plan
  BY DEF Opened
<1>3. Shown(x) = Newest(chain).evidence /\ Made1(x) = chain
  BY <1>1, <1>2 DEF Shown, Made1
<1>4. PlanIs(x)
  BY <1>2, <1>3 DEF PlanIs
<1>5. "supersede" \in Kinds /\ Len(plan) # 1
  BY <1>1 DEF Kinds
<1>6. Shape(x) /\ Beside(f, l, x)
  BY <1>4, <1>5, OpenedShape, OpenedBeside
<1> QED BY <1>3, <1>6

\* A rejection as it starts.
LEMMA NewReject ==
    ASSUME NEW e, NEW day, NEW f, NEW l \in Ledgers, e.m.ledger = l, e.answer.failed # {},
           Evident(DOMAIN f, l),
           NEW x, NEW plan, plan = RejectSteps(e, day), Opened(x, "reject", plan, l), x.day = day
    PROVE  Shape(x) /\ Beside(f, l, x) /\ Shown(x) = e
<1>1. plan[1].path[2] = e
  BY FirstAndLast
<1>2. x.kind = "reject" /\ x.plan = plan /\ x.opened = l
  BY DEF Opened
<1>3. Shown(x) = e
  BY <1>1, <1>2 DEF Shown
<1>4. PlanIs(x)
  BY <1>2, <1>3 DEF PlanIs
<1>5. "reject" \in Kinds
  BY DEF Kinds
<1>6. Shape(x) /\ Beside(f, l, x)
  BY <1>4, <1>5, OpenedShape, OpenedBeside
<1> QED BY <1>3, <1>6

\* A refresh as it starts.
LEMMA NewRefresh ==
    ASSUME NEW f, NEW l \in Ledgers, NEW chain, chain = AcceptedIn(f),
           NEW x, NEW plan, plan = <<Step("put", Canonical, chain)>>,
           Opened(x, "refresh", plan, l)
    PROVE  Shape(x) /\ Beside(f, l, x)
<1>1. plan[1].content = chain
  BY FirstAndLast
<1>2. x.kind = "refresh" /\ x.plan = plan
  BY DEF Opened
<1>3. x.plan = <<Step("put", Canonical, x.plan[1].content)>>
  BY <1>1, <1>2, Zenon
<1>4. PlanIs(x)
  BY <1>2, <1>3 DEF PlanIs
<1>5. "refresh" \in Kinds
  BY DEF Kinds
<1>6. plan[1].content = AcceptedIn(f)
  BY <1>1
<1>7. Shape(x) /\ Beside(f, l, x)
  BY <1>4, <1>5, <1>6, OpenedShape, OpenedBeside
<1> QED BY <1>7

\* A refresh finds nothing to change: the sample of the manifest names it.
LEMMA RefreshedIs ==
    ASSUME Chained, RefreshPlan # <<>>
    PROVE  RefreshPlan = <<Step("put", Canonical, AcceptedIn(disk))>>
<1> DEFINE c == AcceptedIn(disk)
           n == Len(c)
           r == Refreshed
<1>1. Accepted = c
  BY DEF Accepted, AcceptedIn, Exists
<1>2. c # <<>> /\ Valid(r) /\ RefreshPlan = <<Step("put", Canonical, r)>>
  BY <1>1 DEF RefreshPlan
<1>3. r = [c EXCEPT ![n] = [c[n] EXCEPT !.m = Preview]]
  BY <1>1 DEF Refreshed
<1>4. IsChain(c) /\ Replays(disk, c)
  BY DEF Chained
<1> HIDE DEF r, c
<1>5. n \in Nat \ {0} /\ DOMAIN c = 1..n /\ c = [i \in 1..n |-> c[i]] /\ c[n] = Entry(c[n].m, c[n].day, c[n].evidence)
  BY <1>2, <1>4 DEF IsChain, IsEntry
<1> DEFINE m == Preview
           new == [c[n] EXCEPT !.m = m]
<1> HIDE DEF m
<1>6. new = Entry(m, c[n].day, c[n].evidence)
  <2> DEFINE day == c[n].day
             e == c[n].evidence
             old == c[n].m
             x == c[n]
  <2>1. x = [m |-> old, day |-> day, evidence |-> e]
    BY <1>5 DEF Entry
  <2> HIDE DEF x, day, e, old
  <2>2. [x EXCEPT !.m = m] = [m |-> m, day |-> day, evidence |-> e]
    BY <2>1
  <2> QED BY <2>2 DEF Entry, x, day, e
<1>7. new.evidence = c[n].evidence /\ new.m = m
  BY <1>6 DEF Entry
<1> HIDE DEF new, n
<1>8. r = [i \in 1..n |-> IF i = n THEN new ELSE c[i]]
  BY <1>3, <1>5 DEF new, m
<1>9. n \in DOMAIN r /\ n \in DOMAIN c /\ r[n] = new
  BY <1>5, <1>8
<1>10. Newest(Upto(r, n)) = new /\ Newest(Upto(c, n)) = c[n]
  BY <1>5, <1>9 DEF Newest, Upto
<1>11. new.evidence.m = new.m
  <2>1. Provenance(r)
    BY <1>2 DEF Valid
  <2> QED BY <1>9, <1>10, <2>1 DEF Provenance, Bound
<1>12. c[n].evidence.m = c[n].m
  BY <1>4, <1>9, <1>10 DEF Replays, BoundIn
<1>13. new = c[n]
  BY <1>5, <1>6, <1>7, <1>11, <1>12
<1>14. r = c
  BY <1>5, <1>8, <1>13
<1> QED BY <1>2, <1>14 DEF c

\* A command under a lock as it starts: it certifies a sample that is whole.
LEMMA BeginIs ==
    ASSUME Inv, NEW kind \in Kinds \ {"sample"}, NEW day, Plan(kind, day) # <<>>
    PROVE  LET x == Work(kind, day, Plan(kind, day))
           IN  /\ Shape(x) /\ Beside(disk, ledger, x)
               /\ Certifies(x) => Verdict(Shown(x))
<1> DEFINE plan == Plan(kind, day)
           x == Work(kind, day, plan)
           e == Evidence(Preview)
           m == Preview
<1>1. Opened(x, kind, plan, ledger)
  BY OpenedIs
<1>2. x.kind = kind /\ x.day = day
  BY DEF Work
<1>3. ledger \in Ledgers
  BY DEF Inv, Typing
<1>4. m.ledger = ledger
  BY DEF Preview
<1> HIDE DEF x
<1>5. CASE kind = "accept"
  <2> DEFINE past == <<>>
             chain == Append(past, Entry(m, day, e))
  <2>1. plan = AcceptSteps(chain) /\ HasSample("passed")
    BY <1>5 DEF Plan, AcceptPlan, Extended
  <2>2. Verdict(e) /\ e.answer.failed = {}
    BY <2>1, CertifiedIs, Zenon
  <2>3. IsChain(past)
    BY DEF IsChain
  <2> HIDE DEF plan, e, m, past
  <2>4. IsExtension(chain) /\ Before(chain) = past /\ Newest(chain) = Entry(m, day, e)
    BY <1>3, <1>4, <2>2, <2>3, Extension
  <2>7. past = <<>>
    BY DEF past
  <2> HIDE DEF chain
  <2>5. Shape(x) /\ Beside(disk, ledger, x) /\ Shown(x) = Newest(chain).evidence
    BY <1>1, <1>3, <1>5, <2>1, <2>4, <2>7, NewAccept
  <2>6. Shown(x) = e
    BY <2>4, <2>5 DEF Entry
  <2> QED BY <2>2, <2>5, <2>6 DEF plan, x
<1>6. CASE kind = "supersede"
  <2> DEFINE past == AcceptedIn(disk)
             chain == Append(past, Entry(m, day, e))
  <2>1. Accepted = past
    BY DEF Accepted, AcceptedIn, Exists
  <2>2. /\ plan = SupersedeSteps(chain) /\ HasSample("passed") /\ past # <<>>
        /\ LedgerChanged(past)
    BY <1>6, <2>1 DEF Plan, SupersedePlan, Extended
  <2>3. Verdict(e) /\ e.answer.failed = {}
    BY <2>2, CertifiedIs, Zenon
  <2>4. IsChain(past) /\ Newest(past).m.ledger # ledger
    BY <2>2 DEF Inv, Chained, LedgerChanged
  <2> HIDE DEF plan, e, m, past
  <2>5. IsExtension(chain) /\ Before(chain) = past /\ Newest(chain) = Entry(m, day, e)
    BY <1>3, <1>4, <2>3, <2>4, Extension
  <2> HIDE DEF chain
  <2>6. Newest(chain).m = m /\ Newest(chain).evidence = e
    BY <2>5 DEF Entry
  <2>7. Shape(x) /\ Beside(disk, ledger, x) /\ Shown(x) = Newest(chain).evidence
    BY <1>1, <1>3, <1>4, <1>6, <2>2, <2>4, <2>5, <2>6, NewSupersede
  <2> QED BY <2>3, <2>6, <2>7 DEF plan, x
<1>7. CASE kind = "reject"
  <2>1. plan = RejectSteps(e, day) /\ HasSample("failed")
    BY <1>7 DEF Plan, RejectPlan
  <2>2. Verdict(e) /\ e.m = m /\ e.answer.failed # {}
    BY <2>1, CertifiedIs
  <2>3. Evident(DOMAIN disk, ledger)
    BY DEF Inv
  <2> HIDE DEF plan, e, m
  <2>4. Shape(x) /\ Beside(disk, ledger, x) /\ Shown(x) = e
    BY <1>1, <1>2, <1>3, <1>4, <1>7, <2>1, <2>2, <2>3, NewReject
  <2> QED BY <2>2, <2>4 DEF plan, x
<1>8. CASE kind = "refresh"
  <2>1. plan = <<Step("put", Canonical, AcceptedIn(disk))>>
    BY <1>8, RefreshedIs DEF Plan, Inv
  <2> HIDE DEF plan
  <2>2. Shape(x) /\ Beside(disk, ledger, x)
    BY <1>1, <1>3, <1>8, <2>1, NewRefresh
  <2>3. ~Certifies(x)
    BY <1>2, <1>8 DEF Certifies
  <2> QED BY <2>2, <2>3 DEF plan, x
<1> QED BY <1>5, <1>6, <1>7, <1>8 DEF Kinds

\* Step Begin.
LEMMA BeginNext ==
    ASSUME Inv, NEW p \in Procs, NEW kind \in Kinds \ {"sample"}, NEW day \in Days,
           Begin(p, kind, day)
    PROVE  Inv'
<1> DEFINE x == Work(kind, day, Plan(kind, day))
<1>1. /\ ~Live(p) /\ commands < MaxCommands /\ commands' = commands + 1
      /\ op' = [op EXCEPT ![p] = x]
      /\ Locks!Enter(p, Scope(kind))
      /\ UNCHANGED <<ledger, audits, protocol, disk, edits>>
      /\ Plan(kind, day) # <<>>
  BY DEF Begin, Idle, Live, around
<1>2. /\ Shape(x) /\ Beside(disk, ledger, x)
      /\ Certifies(x) => Verdict(Shown(x))
  BY <1>1, BeginIs
<1>3. x.kind = kind /\ x.at = 1
  BY DEF Work
<1> HIDE DEF x
<1>4. Becomes(p, x)
  BY <1>1 DEF Becomes, Inv, Commands
<1>5. x.kind # "sample" /\ Locks!Enter(p, Scope(x.kind))
  BY <1>1, <1>3
<1> QED BY <1>1, <1>2, <1>3, <1>4, <1>5, OpenNext

-----------------------------------------------------------------------------
(* What the repository begins with.                                        *)

Judgement(failed) == [no |-> 0, failed |-> failed]

\* The artifacts in f are of the two wordings, and those of m fail nothing.
Sound(f) ==
    \A path \in DOMAIN f : path[1] \in {"execution", "output", "state"} =>
        /\ Active(path[2].ledger) = Blocks
        /\ f[path].failed \subseteq Blocks

\* The manifest of a ledger whose blocks are all accepted.
LEMMA ManifestIs ==
    ASSUME NEW word
    PROVE  /\ Manifest(word).ledger = Clean(word)
           /\ Active(Clean(word)) = Blocks
           /\ word \in Words => Clean(word) \in Ledgers
BY DEF Manifest, Clean, Active, Ledgers, Statuses

\* The manifests of two wordings only agree where there is no block.
LEMMA WordsDiffer ==
    ASSUME NEW word, NEW other, word # other, Manifest(word) = Manifest(other)
    PROVE  Blocks = {}
<1>1. Clean(word) = Clean(other)
  BY ManifestIs
<1>2. \A b \in Blocks : Clean(word)[b].word = word /\ Clean(other)[b].word = other
  BY DEF Clean
<1> QED BY <1>1, <1>2

\* The artifacts of a sample at the beginning.
LEMMA JudgedIs ==
    ASSUME NEW m, NEW failed
    PROVE  /\ \A path : path \in DOMAIN Judged(m, failed)
                            <=> \E i \in 1..3 : path = <<Artifacts[i], m>>
           /\ \A path \in DOMAIN Judged(m, failed) :
                 /\ path[1] \in {"execution", "output", "state"} /\ path[2] = m
                 /\ Judged(m, failed)[path] = Judgement(failed)
<1>1. DOMAIN Artifacts = 1..3
  BY DEF Artifacts
<1>2. \A i \in 1..3 : Artifacts[i] \in {"execution", "output", "state"}
  BY DEF Artifacts
<1> QED BY <1>1, <1>2 DEF Judged, Judgement

\* The files of an acceptance at the beginning.
LEMMA AcceptanceIs ==
    ASSUME NEW m, NEW day, NEW e, e = [m |-> m, answer |-> Judgement({})],
           NEW chain, chain = <<Entry(m, day, e)>>, NEW f, f = AcceptanceOf(m, day)
    PROVE  /\ DOMAIN f = {<<"evidence", e>>, <<"note", day>>, Canonical}
           /\ f[Canonical] = chain
           /\ f[<<"note", day>>] = Note(chain)
<1> DEFINE paths == {<<"evidence", e>>, <<"note", day>>, Canonical}
<1>1. f = [path \in paths |->
            CASE path = Canonical -> chain
              [] path = <<"note", day>> -> Note(chain)
              [] OTHER -> None]
  BY DEF AcceptanceOf, Judgement
<1>2. Canonical # <<"note", day>>
  BY DEF Canonical
<1> QED BY <1>1, <1>2

\* The sample that may be there.
Sampling(s, word) ==
    \A path \in DOMAIN s :
        \/ path[1] = "pending"
        \/ /\ path[1] \in {"execution", "output", "state"} /\ path[2] = Manifest(word)
           /\ \E failed \in SUBSET Blocks : s[path] = Judgement(failed)

\* The beginning has no sample or a whole one.
LEMMA SamplingIs ==
    ASSUME NEW word, NEW failed \in SUBSET Blocks, NEW s,
           \/ s = <<>>
           \/ s = Written(Judged(Manifest(word), failed), Pending, Manifest(word))
    PROVE  Sampling(s, word)
<1>1. CASE s = <<>>
  BY <1>1 DEF Sampling
<1>2. CASE s = Written(Judged(Manifest(word), failed), Pending, Manifest(word))
  <2> DEFINE m == Manifest(word)
             j == Judged(m, failed)
  <2>1. \A path \in DOMAIN j :
           /\ path[1] \in {"execution", "output", "state"} /\ path[2] = m
           /\ j[path] = Judgement(failed)
    BY JudgedIs
  <2>2. s = Written(j, Pending, m)
    BY <1>2
  <2> HIDE DEF j
  <2>3. DOMAIN s = DOMAIN j \cup {Pending} /\ \A path \in DOMAIN j : path # Pending => s[path] = j[path]
    BY <2>2 DEF Written
  <2>4. Pending[1] = "pending"
    BY DEF Pending
  <2> QED BY <2>1, <2>3, <2>4 DEF Sampling
<1> QED BY <1>1, <1>2

\* The artifacts of the beginning fail only blocks of their ledger.
LEMMA StartSound ==
    ASSUME NEW word, NEW other, NEW s, Sampling(s, word), NEW a,
           \A path \in DOMAIN a : path[1] \in {"execution", "output", "state"} =>
               path[2] = Manifest(other) /\ a[path] = Judgement({}),
           NEW f, f = Union(s, a)
    PROVE  Sound(f)
<1> SUFFICES ASSUME NEW path \in DOMAIN f, path[1] \in {"execution", "output", "state"}
             PROVE  Active(path[2].ledger) = Blocks /\ f[path].failed \subseteq Blocks
  BY DEF Sound
<1>1. \A failed : Judgement(failed).failed = failed
  BY DEF Judgement
<1>2. \/ path \in DOMAIN s /\ f[path] = s[path]
      \/ path \in DOMAIN a /\ f[path] = a[path]
  BY DEF Union
<1>3. /\ path[2] = Manifest(word) \/ path[2] = Manifest(other)
      /\ \E failed \in SUBSET Blocks : f[path] = Judgement(failed)
  <2>1. {} \in SUBSET Blocks
    OBVIOUS
  <2> QED BY <1>2, <2>1 DEF Sampling
<1> QED BY <1>1, <1>3, ManifestIs

\* The acceptance that may be there, of another wording, with its sample.
Standing(a, m, day, e, chain) ==
    /\ e = [m |-> m, answer |-> Judgement({})]
    /\ chain = <<Entry(m, day, e)>>
    /\ Canonical \in DOMAIN a /\ a[Canonical] = chain
    /\ <<"note", day>> \in DOMAIN a /\ a[<<"note", day>>] = Note(chain)
    /\ <<"evidence", e>> \in DOMAIN a
    /\ \A path \in DOMAIN a : path[1] = "evidence" => path[2] = e
    /\ \A i \in 1..3 : <<Artifacts[i], m>> \in DOMAIN a
    /\ \A path \in DOMAIN a : path[1] \in {"execution", "output", "state"} =>
           path[2] = m /\ a[path] = Judgement({})

\* The files of an acceptance at the beginning, with those of its sample.
LEMMA StandingIs ==
    ASSUME NEW m, NEW day, NEW e, e = [m |-> m, answer |-> Judgement({})],
           NEW chain, chain = <<Entry(m, day, e)>>, NEW a,
           a = Union(AcceptanceOf(m, day), Judged(m, {}))
    PROVE  Standing(a, m, day, e, chain)
<1> DEFINE c == AcceptanceOf(m, day)
           j == Judged(m, {})
<1>1. /\ DOMAIN c = {<<"evidence", e>>, <<"note", day>>, Canonical}
      /\ c[Canonical] = chain
      /\ c[<<"note", day>>] = Note(chain)
  BY AcceptanceIs
<1>2. /\ \A path : path \in DOMAIN j <=> \E i \in 1..3 : path = <<Artifacts[i], m>>
      /\ \A path \in DOMAIN j :
            /\ path[1] \in {"execution", "output", "state"} /\ path[2] = m
            /\ j[path] = Judgement({})
  BY JudgedIs
<1> HIDE DEF c, j
<1>3. DOMAIN a = DOMAIN c \cup DOMAIN j
  BY DEF Union, c, j
<1>4. /\ \A path \in DOMAIN c : a[path] = c[path]
      /\ \A path \in (DOMAIN j) \ DOMAIN c : a[path] = j[path]
  BY DEF Union, c, j
<1>5. \A path \in DOMAIN c : path[1] \in {"evidence", "note", "manifest"}
  BY <1>1 DEF Canonical
<1>6. \A path \in DOMAIN c : path[1] = "evidence" => path[2] = e
  BY <1>1 DEF Canonical
<1>7. \A path \in DOMAIN j : path \notin DOMAIN c
  BY <1>2, <1>5
<1>8. \A path \in DOMAIN a : path[1] = "evidence" => path[2] = e
  BY <1>2, <1>3, <1>6
<1>9. \A path \in DOMAIN a : path[1] \in {"execution", "output", "state"} =>
          path[2] = m /\ a[path] = Judgement({})
  BY <1>2, <1>3, <1>4, <1>5
<1>10. Canonical \in DOMAIN c /\ <<"note", day>> \in DOMAIN c /\ <<"evidence", e>> \in DOMAIN c
  BY <1>1
<1>11. \A i \in 1..3 : <<Artifacts[i], m>> \in DOMAIN j
  BY <1>2
<1> QED BY <1>1, <1>3, <1>4, <1>8, <1>9, <1>10, <1>11 DEF Standing

\* A chain of one.
LEMMA First ==
    ASSUME NEW new, IsEntry(new), NEW chain, chain = <<new>>
    PROVE  /\ IsChain(chain)
           /\ DOMAIN chain = {1} /\ Len(chain) = 1 /\ Newest(chain) = new
           /\ Upto(chain, 1) = chain
<1>1. chain \in Seq({new}) /\ Len(chain) = 1 /\ chain[1] = new /\ DOMAIN chain = {1}
  OBVIOUS
<1>2. {chain[i] : i \in DOMAIN chain} = {new}
  BY <1>1
<1> HIDE DEF Newest
<1>3. IsChain(chain)
  BY <1>1, <1>2 DEF IsChain
<1>4. Upto(chain, Len(chain)) = chain
  BY <1>3, Whole
<1> QED BY <1>1, <1>3, <1>4 DEF Newest

\* What is accepted at the beginning can be replayed.
LEMMA StartReplays ==
    ASSUME NEW word, NEW s, Sampling(s, word), NEW m, NEW day, NEW e, NEW chain,
           NEW a, Standing(a, m, day, e, chain), NEW f, f = Union(s, a)
    PROVE  /\ AcceptedIn(f) = chain
           /\ IsChain(chain) /\ Replays(f, chain)
<1> DEFINE new == Entry(m, day, e)
<1>1. new.m = m /\ new.day = day /\ new.evidence = e /\ IsEntry(new)
  BY DEF Entry, IsEntry
<1>2. e.m = m /\ e.answer.failed = {}
  BY DEF Standing, Judgement
<1> HIDE DEF new
<1>3. chain = <<new>>
  BY DEF Standing, new
<1>4. /\ IsChain(chain)
      /\ DOMAIN chain = {1} /\ Len(chain) = 1 /\ Newest(chain) = new
      /\ Upto(chain, 1) = chain
  BY <1>1, <1>3, First
<1>5. \A path \in DOMAIN s : path[1] \in {"pending", "execution", "output", "state"}
  BY DEF Sampling
<1>6. \A path \in DOMAIN a : path \notin DOMAIN s => path \in DOMAIN f /\ f[path] = a[path]
  BY DEF Union
<1>7. \A path \in DOMAIN a : path[1] \in {"manifest", "note", "evidence"} =>
          path \in DOMAIN f /\ f[path] = a[path]
  BY <1>5, <1>6
<1>8. Canonical \in DOMAIN f /\ f[Canonical] = chain
  BY <1>7 DEF Standing, Canonical
<1>9. <<"note", day>> \in DOMAIN f /\ f[<<"note", day>>] = Note(chain)
  BY <1>7 DEF Standing
<1>10. <<"evidence", e>> \in DOMAIN f
  BY <1>7 DEF Standing
<1>11. Noted(chain) = <<"note", day>> /\ Proof(chain) = <<"evidence", e>>
  BY <1>1, <1>4 DEF Noted, Proof
<1>12. BoundIn(f, chain)
  BY <1>1, <1>2, <1>4, <1>9, <1>10, <1>11 DEF BoundIn
<1>13. Replays(f, chain)
  BY <1>4, <1>12 DEF Replays
<1> QED BY <1>4, <1>8, <1>13 DEF AcceptedIn

\* The evidence at the beginning is of a whole sample.
LEMMA StartComplete ==
    ASSUME NEW word, NEW other, word # other, NEW s, Sampling(s, word), NEW day, NEW e, NEW chain,
           NEW a, Standing(a, Manifest(other), day, e, chain), NEW f, f = Union(s, a)
    PROVE  /\ \A path \in DOMAIN f : path[1] = "evidence" => path[2] = e
           /\ e = [m |-> e.m, answer |-> e.answer]
           /\ Complete(f, e)
<1> DEFINE m == Manifest(other)
<1>1. e.m = m /\ e.answer = Judgement({}) /\ e = [m |-> e.m, answer |-> e.answer]
  BY DEF Standing
<1>2. \A path \in DOMAIN f : \/ path \in DOMAIN s /\ f[path] = s[path]
                             \/ path \in DOMAIN a /\ f[path] = a[path]
  BY DEF Union
<1>3. DOMAIN f = DOMAIN s \cup DOMAIN a
  BY DEF Union
<1>4. \A path \in DOMAIN f : path[1] = "evidence" => path[2] = e
  BY <1>3 DEF Standing, Sampling
<1>5. ASSUME NEW i \in 1..3
      PROVE  <<Artifacts[i], m>> \in DOMAIN f /\ f[<<Artifacts[i], m>>] = Judgement({})
  <2> DEFINE path == <<Artifacts[i], m>>
  <2>1. path[1] \in {"execution", "output", "state"} /\ path[2] = m /\ path \in DOMAIN a
    BY DEF Artifacts, Standing
  <2>2. path \in DOMAIN f /\ path \in DOMAIN a
    BY <1>3, <2>1
  <2>3. CASE f[path] = a[path]
    BY <2>1, <2>2, <2>3 DEF Standing
  <2>4. CASE path \in DOMAIN s /\ f[path] = s[path]
    <3>1. PICK failed \in SUBSET Blocks : f[path] = Judgement(failed)
      BY <2>1, <2>4 DEF Sampling
    <3>2. m = Manifest(word)
      BY <2>1, <2>4 DEF Sampling
    <3>3. failed = {}
      BY <3>2, WordsDiffer
    <3> QED BY <2>2, <3>1, <3>3
  <2> QED BY <1>2, <2>2, <2>3, <2>4
<1>6. Artifacts[2] = "output" /\ 2 \in 1..3
  BY DEF Artifacts
<1>7. f[<<"output", e.m>>] = e.answer
  BY <1>1, <1>5, <1>6
<1>8. Complete(f, e)
  BY <1>1, <1>5, <1>7 DEF Complete
<1> QED BY <1>1, <1>4, <1>8

\* Nothing is accepted at the beginning, and there is no evidence.
LEMMA StartAlone ==
    ASSUME NEW word, NEW s, Sampling(s, word), NEW f, f = Union(s, <<>>)
    PROVE  /\ AcceptedIn(f) = <<>>
           /\ \A path \in DOMAIN f : path[1] # "evidence"
<1> DEFINE a == <<>>
<1>1. DOMAIN a = {}
  OBVIOUS
<1>2. f = Union(s, a)
  OBVIOUS
<1> HIDE DEF a
<1>3. DOMAIN f = DOMAIN s
  BY <1>1, <1>2 DEF Union
<1>4. \A path \in DOMAIN s : path[1] \in {"pending", "execution", "output", "state"}
  BY DEF Sampling
<1>5. Canonical[1] = "manifest"
  BY DEF Canonical
<1> QED BY <1>3, <1>4, <1>5 DEF AcceptedIn

\* The files of the beginning, with or without an acceptance.
LEMMA StartFiles ==
    ASSUME Init
    PROVE  /\ ledger \in Ledgers
           /\ \A b \in Blocks : ledger[b].status = "accepted"
           /\ Sound(disk)
           /\ Chained
           /\ AcceptedIn(disk) = <<>> \/ \E w \in Words : \E new : \E chain :
                /\ AcceptedIn(disk) = chain /\ chain = <<new>>
                /\ new.m = Manifest(w) /\ new.evidence.answer.failed = {}
           /\ \A path \in DOMAIN disk : path[1] = "evidence" =>
                /\ path[2] = [m |-> path[2].m, answer |-> path[2].answer]
                /\ Complete(disk, path[2])
<1>1. PICK word \in Words, other \in Words :
        /\ word # other
        /\ ledger = Clean(word)
        /\ \E sample \in {<<>>} \cup
                {Written(Judged(Manifest(word), failed), Pending, Manifest(word)) :
                    failed \in SUBSET Blocks},
              accepted \in {<<>>} \cup
                {Union(AcceptanceOf(Manifest(other), day), Judged(Manifest(other), {})) :
                    day \in Days} :
            disk = Union(sample, accepted)
  BY DEF Init
<1>2. PICK s, a : /\ disk = Union(s, a)
                  /\ \/ s = <<>>
                     \/ \E failed \in SUBSET Blocks :
                          s = Written(Judged(Manifest(word), failed), Pending, Manifest(word))
                  /\ \/ a = <<>>
                     \/ \E day \in Days :
                          a = Union(AcceptanceOf(Manifest(other), day), Judged(Manifest(other), {}))
  BY <1>1
<1>3. Sampling(s, word)
  <2>1. {} \in SUBSET Blocks
    OBVIOUS
  <2> QED BY <1>2, <2>1, SamplingIs
<1>4. ledger \in Ledgers /\ \A b \in Blocks : ledger[b].status = "accepted"
  BY <1>1, ManifestIs DEF Clean
<1> DEFINE f == Union(s, a)
           m == Manifest(other)
<1>5. CASE a = <<>>
  <2>1. AcceptedIn(f) = <<>> /\ \A path \in DOMAIN f : path[1] # "evidence"
    BY <1>3, <1>5, StartAlone
  <2>2. Sound(f)
    <3>1. \A path \in DOMAIN a : FALSE
      BY <1>5
    <3> HIDE DEF f
    <3>2. f = Union(s, a)
      BY DEF f
    <3> QED BY <1>3, <3>1, <3>2, StartSound
  <2> HIDE DEF f
  <2>3. AcceptedIn(disk) = <<>> /\ disk = f
    BY <1>2, <2>1 DEF f
  <2>4. Chained
    <3> DEFINE none == <<>>
    <3>1. IsChain(none) /\ Replays(disk, none)
      BY DEF IsChain, Replays
    <3> HIDE DEF none
    <3>2. none = AcceptedIn(disk)
      BY <2>3 DEF none
    <3> QED BY <3>1, <3>2 DEF Chained
  <2> QED BY <1>4, <2>1, <2>2, <2>3, <2>4
<1>6. ASSUME NEW day \in Days, a = Union(AcceptanceOf(m, day), Judged(m, {}))
      PROVE  /\ Sound(disk)
             /\ Chained
             /\ \E w \in Words : \E new : \E chain :
                  /\ AcceptedIn(disk) = chain /\ chain = <<new>>
                  /\ new.m = Manifest(w) /\ new.evidence.answer.failed = {}
             /\ \A path \in DOMAIN disk : path[1] = "evidence" =>
                  /\ path[2] = [m |-> path[2].m, answer |-> path[2].answer]
                  /\ Complete(disk, path[2])
  <2> DEFINE e == [m |-> m, answer |-> Judgement({})]
             new == Entry(m, day, e)
             chain == <<new>>
  <2>1. Standing(a, m, day, e, chain)
    BY <1>6, StandingIs
  <2>2. new.m = m /\ new.evidence.answer.failed = {}
    BY DEF Entry, Judgement
  <2> HIDE DEF e, new, f
  <2>3. disk = f /\ f = Union(s, a)
    BY <1>2 DEF f
  <2>7. chain = <<new>>
    OBVIOUS
  <2> HIDE DEF chain, m
  <2>4. AcceptedIn(disk) = chain /\ Chained
    BY <1>3, <2>1, <2>3, StartReplays DEF Chained
  <2>5. Sound(f)
    BY <1>3, <2>1, <2>3, StartSound DEF Standing, m
  <2>6. /\ \A path \in DOMAIN f : path[1] = "evidence" => path[2] = e
        /\ e = [m |-> e.m, answer |-> e.answer]
        /\ Complete(f, e)
    BY <1>1, <1>3, <2>1, <2>3, StartComplete DEF m
  <2> QED BY <2>2, <2>3, <2>4, <2>5, <2>6, <2>7 DEF m
<1> QED BY <1>2, <1>4, <1>5, <1>6

\* The initial states satisfy the invariant.
LEMMA InitInv == Init => Inv
<1> SUFFICES ASSUME Init PROVE Inv
  OBVIOUS
<1>1. /\ ledger \in Ledgers
      /\ \A b \in Blocks : ledger[b].status = "accepted"
      /\ Sound(disk)
      /\ Chained
      /\ \A path \in DOMAIN disk : path[1] = "evidence" =>
           /\ path[2] = [m |-> path[2].m, answer |-> path[2].answer]
           /\ Complete(disk, path[2])
  BY StartFiles
<1>2. \A p \in Procs : ~Live(p)
  BY DEF Init, Live
<1>3. Typing
  <2>1. audits \in [Blocks -> [word : Words, text : Texts]]
    BY <1>1 DEF Init, Ledgers, Texts
  <2>2. commands \in 0..MaxCommands /\ edits \in 0..MaxEdits /\ protocol \in 0..edits
    BY AuditAssumption DEF Init
  <2> QED BY <1>1, <2>1, <2>2 DEF Typing, Sound
<1>4. Locking
  BY <1>2 DEF Init, Locking, Locks!Init, Locks!TypeOK
<1>5. Days1
  BY <1>2 DEF Days1
<1>6. Commands
  BY <1>2 DEF Commands, Init
<1>7. Verdicts
  BY <1>1, <1>2 DEF Verdicts, Verdict, Stands, Live
<1>8. Evident(DOMAIN disk, ledger)
  BY <1>1 DEF Evident
<1> QED BY <1>1, <1>3, <1>4, <1>5, <1>6, <1>7, <1>8 DEF Inv

\* A step of none of the variables keeps the invariant.
LEMMA StillInv == Inv /\ UNCHANGED vars => Inv'
<1> SUFFICES ASSUME Inv, UNCHANGED vars PROVE Inv'
  OBVIOUS
<1>1. /\ ledger' = ledger /\ protocol' = protocol /\ audits' = audits /\ disk' = disk
      /\ inside' = inside /\ op' = op /\ commands' = commands /\ edits' = edits
  BY DEF vars, around, bounds
<1>2. Typing' /\ Locking' /\ Days1'
  BY <1>1 DEF Inv, Typing, Locking, Days1, Live, Locks!TypeOK
<1>3. Commands'
  BY <1>1 DEF Inv, Commands, Live
<1>4. Chained' /\ Evident(DOMAIN disk, ledger)'
  BY <1>1 DEF Inv, Chained
<1>5. Verdicts'
  BY <1>1 DEF Inv, Verdicts, Verdict, Live
<1> QED BY <1>2, <1>3, <1>4, <1>5 DEF Inv

\* Every step keeps it, one action at a time.
LEMMA StepInv == Inv /\ [Next]_vars => Inv'
<1> SUFFICES ASSUME Inv, [Next]_vars PROVE Inv'
  OBVIOUS
<1>1. ASSUME NEW p \in Procs, Ask(p) \/ Fail(p) \/ Die(p) PROVE Inv'
  BY <1>1, AskNext, FailNext, LeaveNext
<1>2. ASSUME NEW p \in Procs, Proceed(p) PROVE Inv'
  <2>1. CASE Answer(p)
    BY <2>1, AnswerNext
  <2>2. CASE Look(p) \/ LookAgain(p)
    BY <2>2, LookNext, LookAgainNext
  <2>3. CASE Put(p)
    BY <2>3, PutNext
  <2>4. CASE WriteNew(p)
    BY <2>4, WriteNewNext
  <2>5. CASE Validate(p)
    BY <2>5, ValidateNext
  <2>6. CASE Replace(p)
    BY <2>6, ReplaceNext
  <2>7. CASE ReplaceLedger(p) \/ Report(p)
    BY <2>7, ReplaceLedgerNext, ReportNext
  <2>8. CASE TakeBack(p)
    BY <2>8, TakeBackNext
  <2>9. CASE Leave(p)
    BY <2>9, LeaveNext
  <2> QED BY <1>2, <2>1, <2>2, <2>3, <2>4, <2>5, <2>6, <2>7, <2>8, <2>9 DEF Proceed
<1>3. ASSUME NEW p \in Procs, NEW kind \in Kinds \ {"sample"}, NEW day \in Days, Begin(p, kind, day)
      PROVE  Inv'
  BY <1>3, BeginNext
<1>4. CASE Around
  BY <1>4, EditLedgerNext, OutsideNext, WritePreviewNext DEF Around
<1>5. CASE UNCHANGED vars
  BY <1>5, StillInv
<1> QED BY <1>1, <1>2, <1>3, <1>4, <1>5 DEF Next

\* The invariant holds in every state of every behaviour.
THEOREM Invariant == Spec => []Inv
BY InitInv, StepInv, PTL DEF Spec

\* Every variable keeps its type, and what is in the files is of its kind.
THEOREM TypeCorrect == Spec => []TypeOK
<1>1. ASSUME Inv PROVE TypeOK
  <2>1. /\ ledger \in [Blocks -> [word : Words, status : Statuses]]
        /\ audits \in [Blocks -> [word : Words, text : Texts]]
        /\ \A path \in DOMAIN disk : path[1] \in {"execution", "output", "state"} =>
            disk[path].failed \subseteq Active(path[2].ledger)
        /\ commands \in 0..MaxCommands /\ edits \in 0..MaxEdits
    BY <1>1 DEF Inv, Typing, Ledgers
  <2>2. protocol \in 0..MaxEdits
    BY <1>1, AuditAssumption DEF Inv, Typing
  <2>3. Locks!TypeOK
    BY <1>1 DEF Inv, Locking
  <2>4. \A p \in Procs : Idle(p) \/ op[p].kind \in Kinds
    BY <1>1 DEF Inv, Commands, Shape, Idle, Live
  <2> QED BY <2>1, <2>2, <2>3, <2>4 DEF TypeOK
<1> QED BY <1>1, Invariant, PTL

\* What was accepted or rejected of a manifest is what a whole sample of it still
\* says, however many runs write samples of it at a time without a lock.
THEOREM VerdictsAgree == Spec => []OneVerdict
<1>1. ASSUME Inv PROVE OneVerdict
  <2> SUFFICES ASSUME NEW path \in DOMAIN disk, path[1] = "evidence",
                      Sampled(path[2].m) \in {"passed", "failed"}
               PROVE  Evidence(path[2].m) = path[2]
    BY DEF OneVerdict
  <2> DEFINE e == path[2]
  <2>1. e = [m |-> e.m, answer |-> e.answer] /\ Complete(disk, e)
    BY <1>1 DEF Inv, Verdicts, Verdict, Stands
  <2>2. \A i \in DOMAIN Artifacts : disk[<<Artifacts[i], e.m>>] = disk[<<"output", e.m>>]
    BY DEF Sampled
  <2>3. DOMAIN Artifacts = 1..3
    BY DEF Artifacts
  <2> HIDE DEF e
  <2>4. disk[<<"output", e.m>>] = e.answer
    BY <2>1, <2>2, <2>3 DEF Complete
  <2>5. Evidence(e.m) = e
    BY <2>1, <2>4 DEF Evidence
  <2> QED BY <2>5 DEF e
<1> QED BY <1>1, Invariant, PTL

\* No block is rejected without the evidence of a sample that failed its very
\* wording, also when a rejection fails or dies between its files and the ledger.
THEOREM RejectionsShown == Spec => []RejectedHaveEvidence
<1>1. ASSUME Inv PROVE RejectedHaveEvidence
  BY <1>1 DEF Inv, Evident, Condemns, RejectedHaveEvidence
<1> QED BY <1>1, Invariant, PTL

\* The command has nothing left to undo when it leaves.
LEMMA NothingIsLeft ==
    ASSUME Inv, NEW p \in Procs, Leave(p), op[p].failed, op[p].kind # "sample"
    PROVE  /\ \A path \in op[p].made : ~Exists(path)
           /\ op[p].kind = "reject" => ledger = op[p].opened
<1> DEFINE o == op[p]
<1>1. Live(p) /\ Shape(o) /\ Beside(disk, ledger, o)
  BY CommandsBeside DEF Leave, Idle, Live, Inv
<1>2. o.at > Len(UndoOrder(o.kind)) /\ o.failed
  BY DEF Leave, Done
<1>3. o.at \in Nat /\ Len(UndoOrder(o.kind)) \in Nat
  BY <1>1 DEF Shape, UndoOrder, Kinds
<1>4. \A path \in o.made : ~Exists(path)
  BY <1>1, <1>2, <1>3 DEF Beside, Undone, Exists
<1>5. ASSUME o.kind = "reject" PROVE ledger = o.opened
  <2>1. Len(UndoOrder(o.kind)) = 4
    BY <1>5 DEF UndoOrder
  <2>2. o.at # 1
    BY <1>2, <1>3, <2>1
  <2> QED BY <1>1, <1>2, <1>5, <2>2 DEF Beside, Rejecting
<1> QED BY <1>4, <1>5

\* A command that failed gives back its lock only when every file that it created
\* is gone and, for a rejection, the ledger is as it was opened.
THEOREM FailuresUndone == Spec => FailuresLeaveNoTrace
<1>1. ASSUME Inv, NEW p \in Procs, Leave(p) /\ op[p].failed /\ op[p].kind # "sample"
      PROVE  /\ \A path \in op[p].made : ~Exists(path)
             /\ op[p].kind = "reject" => ledger = op[p].opened
  BY <1>1, NothingIsLeft
<1>2. Inv => \A p \in Procs : Leave(p) /\ op[p].failed /\ op[p].kind # "sample" =>
                /\ \A path \in op[p].made : ~Exists(path)
                /\ op[p].kind = "reject" => ledger = op[p].opened
  BY <1>1
<1> QED BY <1>2, Invariant, PTL DEF FailuresLeaveNoTrace

-----------------------------------------------------------------------------
(* The chain of accepted audits.                                           *)

\* An acceptance, as the abstract chain has it.
Link(new) == [ledger |-> new.m.ledger, failed |-> new.evidence.answer.failed]
Linked(chain) == [i \in DOMAIN chain |-> Link(chain[i])]

IsLinked == Chain = Linked(AcceptedIn(disk))

\* What a step may do to what is accepted.
Grows(f, g) ==
    \E new : /\ AcceptedIn(g) = Append(AcceptedIn(f), new) /\ IsEntry(new)
             /\ new.m.ledger \in Ledgers /\ new.evidence.answer.failed = {}
             /\ \/ AcceptedIn(f) = <<>>
                \/ Newest(AcceptedIn(f)).m.ledger # new.m.ledger

\* What is accepted can be replayed, so that the abstract chain is that of the manifest.
LEMMA ChainIs == Inv => IsLinked
<1> SUFFICES ASSUME Inv PROVE IsLinked
  OBVIOUS
<1> DEFINE c == AcceptedIn(disk)
<1>1. Accepted = c
  BY DEF Accepted, AcceptedIn, Exists
<1>2. Provenance(c)
  BY ProvenanceIs DEF Inv, Chained
<1>3. Chain = [i \in DOMAIN c |-> [ledger |-> c[i].m.ledger,
                                   failed |-> c[i].evidence.answer.failed]]
  BY <1>1, <1>2 DEF Chain
<1> HIDE DEF c
<1>4. Linked(c) = [i \in DOMAIN c |-> [ledger |-> c[i].m.ledger,
                                       failed |-> c[i].evidence.answer.failed]]
  BY DEF Linked, Link
<1> QED BY <1>3, <1>4 DEF IsLinked, c

\* The abstract chain of a chain with one more acceptance.
LEMMA LinkedMore ==
    ASSUME NEW past, IsChain(past), NEW new, IsEntry(new)
    PROVE  /\ Linked(Append(past, new)) = Append(Linked(past), Link(new))
           /\ past # <<>> => /\ Linked(past) # <<>>
                             /\ Linked(past)[Len(Linked(past))] = Link(Newest(past))
<1> DEFINE n == Len(past)
           chain == Append(past, new)
<1>1. n \in Nat /\ DOMAIN past = 1..n
  BY Whole
<1>2. DOMAIN chain = 1..(n + 1) /\ chain[n + 1] = new /\ \A i \in 1..n : chain[i] = past[i]
  BY <1>1 DEF IsChain
<1>3. Linked(chain) = [i \in 1..(n + 1) |-> Link(chain[i])]
  BY <1>2 DEF Linked
<1>4. Linked(past) = [i \in 1..n |-> Link(past[i])]
  BY <1>1 DEF Linked
<1> HIDE DEF chain, n
<1>5. Linked(past) \in Seq({Link(past[i]) : i \in 1..n}) /\ Len(Linked(past)) = n
  BY <1>1, <1>4
<1>6. Append(Linked(past), Link(new)) = [i \in 1..(n + 1) |-> IF i = n + 1 THEN Link(new)
                                                              ELSE Link(past[i])]
  BY <1>1, <1>4, <1>5
<1>7. Linked(chain) = Append(Linked(past), Link(new))
  BY <1>1, <1>2, <1>3, <1>6
<1>8. ASSUME past # <<>> PROVE Linked(past) # <<>> /\ Linked(past)[n] = Link(past[n])
  <2>1. n # 0
    BY <1>1, <1>8 DEF IsChain, n
  <2> QED BY <1>1, <1>4, <1>5, <2>1
<1> QED BY <1>5, <1>7, <1>8 DEF Newest, chain, n

\* A refresh puts the manifest that is there, and a sample none.
LEMMA PutGrows ==
    ASSUME Inv, NEW p \in Procs, Put(p)
    PROVE  AcceptedIn(disk') = AcceptedIn(disk)
<1> DEFINE o == op[p]
           path == Now(p).path
           content == Now(p).content
<1>1. /\ Shape(o) /\ Beside(disk, ledger, o) /\ Doing(o, "put")
      /\ o.failed = FALSE /\ Now(p) = Step1(o)
  BY AtDoing DEF Put
<1>2. disk' = Written(disk, path, content)
  BY DEF Put
<1>3. \/ path[1] \in ScratchNames
      \/ /\ o.kind = "refresh" /\ o.at = 1
         /\ path = Canonical /\ content = o.plan[1].content
  BY <1>1, Putting DEF Step, Pending, Artifacts, ScratchNames
<1> HIDE DEF path, content
<1>4. CASE path[1] \in ScratchNames
  <2>1. Canonical # path
    BY <1>4 DEF Canonical, ScratchNames
  <2> QED BY <1>2, <2>1 DEF Written, AcceptedIn
<1>5. CASE o.kind = "refresh" /\ o.at = 1 /\ path = Canonical /\ content = o.plan[1].content
  <2>1. content = AcceptedIn(disk)
    BY <1>1, <1>5 DEF Beside, Accepting
  <2>2. AcceptedIn(disk') = content
    BY <1>2, <1>5 DEF Written, AcceptedIn
  <2> QED BY <2>1, <2>2
<1> QED BY <1>3, <1>4, <1>5

\* A manifest that extends the one before it.
LEMMA ExtensionGrows ==
    ASSUME NEW f, NEW g, NEW chain, IsExtension(chain), AcceptedIn(g) = chain,
           AcceptedIn(f) = Before(chain),
           Before(chain) # <<>> => Newest(Before(chain)).m.ledger # Newest(chain).m.ledger
    PROVE  Grows(f, g)
<1> DEFINE new == Newest(chain)
<1>1. chain = Append(AcceptedIn(f), new) /\ IsEntry(new) /\ new.m.ledger \in Ledgers
      /\ new.evidence.answer.failed = {}
  BY DEF IsExtension
<1>2. AcceptedIn(f) = <<>> \/ Newest(AcceptedIn(f)).m.ledger # new.m.ledger
  BY Zenon
<1> HIDE DEF new
<1>3. AcceptedIn(g) = Append(AcceptedIn(f), new)
  BY <1>1, Zenon
<1> QED BY <1>1, <1>2, <1>3 DEF Grows

\* An acceptance makes the first manifest.
LEMMA WriteNewGrows ==
    ASSUME Inv, NEW p \in Procs, WriteNew(p)
    PROVE  AcceptedIn(disk') = AcceptedIn(disk) \/ Grows(disk, disk')
<1> DEFINE o == op[p]
           path == Now(p).path
           content == Now(p).content
<1>1. Shape(o) /\ Doing(o, "new") /\ Now(p) = Step1(o)
  BY AtDoing DEF WriteNew
<1>2. CASE disk' = disk
  BY <1>2
<1>3. CASE path \notin DOMAIN disk /\ disk' = Written(disk, path, content)
  <2>1. path[1] = "manifest" => o.kind = "accept" /\ path = Canonical /\ content = Made1(o)
    BY <1>1, Creating
  <2>2. o.kind = "accept" => IsExtension(Made1(o)) /\ Before(Made1(o)) = <<>>
    BY <1>1, AcceptIs
  <2> HIDE DEF path, content
  <2>3. CASE path[1] # "manifest"
    <3>1. Canonical # path
      BY <2>3 DEF Canonical
    <3> QED BY <1>3, <3>1 DEF Written, AcceptedIn
  <2>4. CASE path[1] = "manifest"
    <3> DEFINE chain == Made1(o)
    <3>1. IsExtension(chain) /\ Before(chain) = <<>>
      BY <2>1, <2>2, <2>4
    <3>2. AcceptedIn(disk) = <<>> /\ AcceptedIn(disk') = chain
      BY <1>3, <2>1, <2>4 DEF Written, AcceptedIn
    <3> HIDE DEF chain
    <3>3. AcceptedIn(disk) = Before(chain)
      BY <3>1, <3>2, Zenon
    <3>4. Grows(disk, disk')
      BY <3>1, <3>2, <3>3, ExtensionGrows
    <3> QED BY <3>4
  <2> QED BY <2>3, <2>4
<1> QED BY <1>2, <1>3 DEF WriteNew, Exists

\* A supersede makes the next manifest.
LEMMA ReplaceGrows ==
    ASSUME Inv, NEW p \in Procs, Replace(p)
    PROVE  AcceptedIn(disk') = AcceptedIn(disk) \/ Grows(disk, disk')
<1> DEFINE o == op[p]
           chain == Made1(o)
<1>1. Shape(o) /\ Doing(o, "replace") /\ Now(p) = Step1(o)
  BY AtDoing DEF Replace
<1>2. CASE disk' = disk
  BY <1>2
<1>3. CASE Accepted = Before(Now(p).content) /\ disk' = Written(disk, Canonical, Now(p).content)
  <2>1. o.kind = "supersede" /\ Now(p).content = chain
    BY <1>1, Replacing
  <2>2. /\ IsExtension(chain) /\ Before(chain) # <<>>
        /\ Newest(Before(chain)).m.ledger # Newest(chain).m.ledger
    BY <1>1, <2>1, SupersedeIs
  <2> HIDE DEF chain
  <2>3. AcceptedIn(disk) = Before(chain)
    BY <1>3, <2>1 DEF Accepted, AcceptedIn, Exists
  <2>4. AcceptedIn(disk') = chain
    BY <1>3, <2>1 DEF Written, AcceptedIn
  <2> QED BY <2>2, <2>3, <2>4, ExtensionGrows
<1> QED BY <1>2, <1>3 DEF Replace

\* No manifest is taken back.
LEMMA TakeBackGrows ==
    ASSUME Inv, NEW p \in Procs, TakeBack(p)
    PROVE  AcceptedIn(disk') = AcceptedIn(disk)
<1> DEFINE o == op[p]
<1>1. Live(p) /\ Shape(o) /\ Beside(disk, ledger, o) /\ o.failed
  BY CommandsBeside DEF TakeBack, Idle, Live, Inv
<1>2. Left(p) = Next1(o) /\ disk' = Without(disk, Next1(o))
  BY DEF TakeBack, Left, Next1
<1>3. Len(UndoOrder(o.kind)) \in Nat /\ o.at \in Nat
  BY <1>1 DEF Shape, UndoOrder, Kinds
<1>4. ~(o.at > Len(UndoOrder(o.kind)))
  BY <1>1 DEF TakeBack, Done
<1>5. o.at <= Len(UndoOrder(o.kind))
  BY <1>3, <1>4
<1> QED BY <1>1, <1>2, <1>5, BackBeside

\* Every step leaves what is accepted, or adds one acceptance to it.
LEMMA StepGrows ==
    ASSUME Inv, [Next]_vars
    PROVE  AcceptedIn(disk') = AcceptedIn(disk) \/ Grows(disk, disk')
<1>1. ASSUME NEW p \in Procs, Ask(p) \/ Fail(p) \/ Die(p)
      PROVE  disk' = disk
  BY <1>1 DEF Ask, Fail, Die
<1>2. ASSUME NEW p \in Procs, Proceed(p)
      PROVE  AcceptedIn(disk') = AcceptedIn(disk) \/ Grows(disk, disk')
  <2>1. CASE Answer(p) \/ Look(p) \/ LookAgain(p) \/ Validate(p)
    BY <2>1 DEF Answer, Look, LookAgain, Validate
  <2>2. CASE ReplaceLedger(p) \/ Report(p) \/ Leave(p)
    BY <2>2 DEF ReplaceLedger, Report, Leave
  <2>3. CASE Put(p)
    BY <2>3, PutGrows
  <2>4. CASE WriteNew(p)
    BY <2>4, WriteNewGrows
  <2>5. CASE Replace(p)
    BY <2>5, ReplaceGrows
  <2>6. CASE TakeBack(p)
    BY <2>6, TakeBackGrows
  <2> QED BY <1>2, <2>1, <2>2, <2>3, <2>4, <2>5, <2>6 DEF Proceed
<1>3. ASSUME NEW p \in Procs, NEW kind, NEW day, Begin(p, kind, day)
      PROVE  disk' = disk
  BY <1>3 DEF Begin
<1>4. CASE EditLedger \/ EditProtocol \/ Audit
  BY <1>4 DEF EditLedger, EditProtocol, Audit
<1>5. CASE WritePreview
  <2>1. disk' = Written(disk, Pending, Preview) /\ Canonical # Pending
    BY <1>5 DEF WritePreview, Canonical, Pending
  <2> QED BY <2>1 DEF Written, AcceptedIn
<1>6. CASE UNCHANGED vars
  BY <1>6 DEF vars
<1> QED BY <1>1, <1>2, <1>3, <1>4, <1>5, <1>6 DEF Next, Around

\* Every step either leaves the chain as it is or accepts one more audit.
LEMMA ChainStep ==
    ASSUME Inv, IsLinked, IsLinked', [Next]_vars
    PROVE  [AuditChain!Next]_Chain
<1> DEFINE c == AcceptedIn(disk)
<1>1. CASE AcceptedIn(disk') = c
  BY <1>1 DEF IsLinked
<1>2. CASE Grows(disk, disk')
  <2>1. PICK new : /\ AcceptedIn(disk') = Append(c, new) /\ IsEntry(new)
                   /\ new.m.ledger \in Ledgers /\ new.evidence.answer.failed = {}
                   /\ c = <<>> \/ Newest(c).m.ledger # new.m.ledger
    BY <1>2 DEF Grows
  <2>2. IsChain(c)
    BY DEF Inv, Chained
  <2> HIDE DEF c
  <2>3. /\ Linked(Append(c, new)) = Append(Linked(c), Link(new))
        /\ c # <<>> => /\ Linked(c) # <<>>
                       /\ Linked(c)[Len(Linked(c))] = Link(Newest(c))
    BY <2>1, <2>2, LinkedMore
  <2>4. Chain = Linked(c)
    BY DEF IsLinked, c
  <2>5. Chain' = Append(Chain, Link(new))
    BY <2>1, <2>3, <2>4 DEF IsLinked
  <2>6. /\ Link(new).ledger = new.m.ledger /\ Link(new).failed = {}
        /\ Link(Newest(c)).ledger = Newest(c).m.ledger
    BY <2>1 DEF Link
  <2>7. Link(new) \in AuditsOf
    BY <2>1 DEF Link, AuditsOf, Ledgers
  <2>8. Chain = <<>> \/ Chain[Len(Chain)].ledger # Link(new).ledger
    <3>1. CASE c = <<>>
      BY <2>4, <3>1 DEF Linked
    <3>2. CASE c # <<>>
      BY <2>1, <2>3, <2>4, <2>6, <3>2
    <3> QED BY <3>1, <3>2
  <2>9. AuditChain!Accept(Link(new))
    BY <2>5, <2>6, <2>8 DEF AuditChain!Accept, AuditChain!Follows
  <2> QED BY <2>7, <2>9 DEF AuditChain!Next
<1> QED BY <1>1, <1>2, StepGrows

\* The abstract chain starts empty or with one audit.
LEMMA ChainStart == Init /\ IsLinked => AuditChain!Init
<1> SUFFICES ASSUME Init, IsLinked PROVE AuditChain!Init
  OBVIOUS
<1> DEFINE c == AcceptedIn(disk)
<1>1. CASE c = <<>>
  BY <1>1 DEF IsLinked, Linked, AuditChain!Init
<1>2. ASSUME NEW w \in Words, NEW new, NEW chain, c = chain, chain = <<new>>,
             new.m = Manifest(w), new.evidence.answer.failed = {}
      PROVE  AuditChain!Init
  <2>1. Link(new) = [ledger |-> Clean(w), failed |-> {}]
    BY <1>2, ManifestIs DEF Link
  <2>2. Chain = <<Link(new)>>
    <3>1. DOMAIN chain = 1..1 /\ chain[1] = new
      BY <1>2
    <3>2. Linked(chain) = [i \in 1..1 |-> Link(new)]
      BY <3>1 DEF Linked
    <3> QED BY <1>2, <3>2 DEF IsLinked
  <2> QED BY <2>1, <2>2 DEF AuditChain!Init
<1> QED BY <1>1, <1>2, StartFiles

\* Whatever fails, dies or is edited, what is accepted can be replayed in full and
\* only grows, each time by a passing sample of another ledger than the one before.
THEOREM ChainImplemented == Spec => ImplementsAuditChain
<1>1. Spec => []IsLinked
  BY ChainIs, Invariant, PTL
<1>2. Inv /\ IsLinked /\ IsLinked' /\ [Next]_vars => [AuditChain!Next]_Chain
  BY ChainStep
<1> QED BY <1>1, <1>2, ChainStart, Invariant, PTL DEF Spec, ImplementsAuditChain, AuditChain!Spec

=============================================================================
