--------------------------- MODULE GateChainProofs ---------------------------
(***************************************************************************)
(* The chains of receipts and submissions that a gate follows are never    *)
(* broken by what happens to other blocks, for any processes, drafts and   *)
(* numbers of commands.                                                    *)
(*                                                                         *)
(* A chain is found if at each ledger on the way exactly one link fits.    *)
(* It grows with the commands: at its front, for the chains that lead back *)
(* over decisions, at its end, for those that lead on over rewritings.     *)
(* What keeps the link that is added from fitting elsewhere is that no     *)
(* ledger comes back: a decided block is not undecided in the same words,  *)
(* and a wording that was replaced is never written again.                 *)
(***************************************************************************)
EXTENDS CommentaryGatesProofs

------------------------------------------------------------------------------
(* The invariant *)

Entry == [gate : Gates, ids : SUBSET Nat]

(* As OnlyOthers, of any history. *)
Others(steps, first, last, gates, ids) ==
    \A k \in DOMAIN steps \cap first..last :
        steps[k].gate \in gates /\ steps[k].ids \cap ids = {}

(* The links that lead back over decisions of other blocks, and those that *)
(* lead on over rewritings of other blocks.                                *)
Decisive(found, gate, ids) == Back({r \in found : r.gate = gate /\ r.ids \cap ids = {}})

Rewordings(records, ids) ==
    {[by |-> s.ord, from |-> s.before, to |-> s.after] :
        s \in {t \in records : t.gate \in Rewriting /\ t.ids \cap ids = {}}}

(* A ledger in which a block was decided does not come back. *)
DecidedStays(content, found) ==
    \A r \in found : \A i \in DOMAIN r.after :
        /\ i \in DOMAIN content
        /\ r.after[i].body = content[i].body /\ r.after[i].status # "unreviewed"
            => content[i].status # "unreviewed"

(* Nor does one in which a block had a wording that was replaced. *)
ReplacedStays(content, records) ==
    \A s \in records : s.gate \in Rewriting =>
        /\ s.ids # {}
        /\ \A i \in s.ids : /\ i \in DOMAIN content /\ i \in DOMAIN s.before
                            /\ s.before[i].body # content[i].body

(* Every record and receipt is of a step in the history. *)
Dated(records, found, steps) ==
    /\ \A s \in records : s.gate \in Rewriting =>
        s.at \in DOMAIN steps /\ steps[s.at].gate \in Rewriting
    /\ \A r \in found : r.gate = "review" =>
        /\ r.at \in Nat
        /\ r.at + 1 \in DOMAIN steps /\ steps[r.at + 1].gate = "review"

(* From what a rewriting wrote, if then others were reviewed only. *)
FromReviews(content, records, found, steps) ==
    \A s \in records : s.gate \in Rewriting => \A i \in s.ids :
        Others(steps, s.at + 1, Len(steps), {"review"}, {i})
            => Leads(content, s.after, Decisive(found, "review", {i}))

(* To the ledger, if then others were reworded only. *)
ToLedger(content, records, steps) ==
    \A s \in records : s.gate \in Rewriting =>
        (Others(steps, s.at + 1, Len(steps), Rewriting, s.ids)
            => Leads(s.after, content, Rewordings(records, s.ids)))

(* To a later review, if others were reworded only before it. *)
ToReview(records, found, steps) ==
    \A s \in records, r \in found : s.gate \in Rewriting /\ r.gate = "review" =>
        (s.at <= r.at /\ Others(steps, s.at + 1, r.at, Rewriting, s.ids)
            => Leads(s.after, r.before, Rewordings(records, s.ids)))

(* To what a review left, if then parts of others were accepted only. *)
FromAcceptances(content, found, steps) ==
    \A r \in found : r.gate = "review" =>
        (Others(steps, r.at + 2, Len(steps), {"acceptance"}, r.ids)
            => Leads(content, r.after, Decisive(found, "acceptance", r.ids)))

Followable(content, records, found, steps) ==
    /\ IsFiniteSet(records) /\ IsFiniteSet(found) /\ steps \in Seq(Entry)
    /\ Dated(records, found, steps)
    /\ DecidedStays(content, found) /\ ReplacedStays(content, records)
    /\ FromReviews(content, records, found, steps)
    /\ ToLedger(content, records, steps) /\ ToReview(records, found, steps)
    /\ FromAcceptances(content, found, steps)

(* A wording that is still to come is nowhere in the files. *)
Fresh(body, content, records, found) ==
    /\ \A i \in DOMAIN content : content[i].body # body
    /\ \A s \in records : \A i \in DOMAIN s.before : s.before[i].body # body
    /\ \A r \in found : \A i \in DOMAIN r.after : r.after[i].body # body

Coming ==
    {body \in Nat : body > commands}
        \cup {op[p].cmd.body : p \in {q \in Procs : op[q] # Idle}}

AllFresh(bodies, content, records, found) ==
    \A body \in bodies : Fresh(body, content, records, found)

(* What operators ask for: some blocks, a decision, words of their own. *)
Wanted(c, number) ==
    /\ c.gate # "draft" => c.ids # {}
    /\ c.gate \in Deciding => c.decision # "unreviewed"
    /\ c.body \in 1..number

WantedApart ==
    /\ \A p \in Procs : op[p] # Idle => Wanted(op[p].cmd, commands)
    /\ \A p, q \in Procs :
        op[p] # Idle /\ op[q] # Idle /\ op[p].cmd.body = op[q].cmd.body => p = q

(* What a preview does to the ledger, beyond what Planned says of it. *)
Fits(o) ==
    LET old == o.opened[1]
        c == o.cmd
    IN  /\ c.gate \in Deciding =>
            /\ DOMAIN o.next = DOMAIN old
            /\ \A i \in DOMAIN old :
                o.next[i] = IF i \in c.ids THEN [old[i] EXCEPT !.status = c.decision] ELSE old[i]
        /\ c.gate \in {"review", "acceptance"} => \A i \in c.ids : old[i].status = "unreviewed"
        /\ c.gate \in Rewriting =>
            /\ DOMAIN o.next = DOMAIN old
            /\ \A i \in DOMAIN old :
                IF i \in c.ids THEN o.next[i].body = c.body ELSE o.next[i] = old[i]
        /\ c.gate \in Remediating =>
            /\ DOMAIN o.next = DOMAIN old
            /\ \A i \in DOMAIN old : o.next[i].status = "unreviewed" => old[i].status = "unreviewed"
        /\ c.gate = "draft" =>
            /\ \A i \in DOMAIN old : o.next[i] = old[i]
            /\ \A i \in DOMAIN o.next : i \in DOMAIN old \/ o.next[i].body = 0

Entered(o) == [gate |-> o.cmd.gate, ids |-> o.cmd.ids]

(* The history of a gate at work goes on from a followable one. *)
Continues(o, content, records, found, steps) ==
    \E before \in Seq(Entry) :
        /\ Followable(o.opened[1], o.opened[2], o.opened[3], before)
        /\ steps = IF content = o.opened[1] THEN before ELSE Append(before, Entered(o))
        /\ \A s \in records \ o.opened[2] : s.at = Len(steps)
        /\ o.cmd.gate \in Deciding => \A r \in found \ o.opened[3] : r.at = Len(before)

ChainInv ==
    crashes = 0 =>
        /\ WantedApart
        /\ Settled => /\ Followable(ledger, submissions, receipts, trail)
                      /\ AllFresh(Coming, ledger, submissions, receipts)
        /\ \A p \in Procs : Working(op[p]) =>
            /\ Fits(op[p])
            /\ AllFresh(Coming, op[p].opened[1], op[p].opened[2], op[p].opened[3])
            /\ Continues(op[p], ledger, submissions, receipts, trail)

(* What the commands before have left can be followed, and worded by them. *)
StartsAreFollowable ==
    \A start \in Starts :
        /\ Followable(start.ledger, start.submissions, {}, start.trail)
        /\ AllFresh({body \in Nat : body > start.commands},
                    start.ledger, start.submissions, {})

------------------------------------------------------------------------------
(* Chains *)

(* A path through links: at each ledger on the way its link is the only one *)
(* that fits and is not used yet.                                          *)
PathAt(start, path, k) == IF k = 0 THEN start ELSE path[k].to

UnusedAt(links, path, k) == links \ {path[j] : j \in 1..(k - 1)}

Fitting(start, links, path, k) ==
    {l \in UnusedAt(links, path, k) : l.from = PathAt(start, path, k - 1)}

IsPath(start, target, links, n, path) ==
    /\ path \in [1..n -> links]
    /\ \A k \in 1..n : Fitting(start, links, path, k) = {path[k]}
    /\ PathAt(start, path, n) = target

LEMMA LeadsIsPath ==
    ASSUME NEW start, NEW target, NEW links
    PROVE  Leads(start, target, links) <=>
                \E n \in 0..Cardinality(links) : \E path : IsPath(start, target, links, n, path)
BY DEF Leads, IsPath, Fitting, UnusedAt, PathAt

(* Every ledger leads to itself. *)
LEMMA LeadsAtOnce ==
    ASSUME NEW x, NEW links, IsFiniteSet(links) PROVE Leads(x, x, links)
<1> DEFINE path == [k \in 1..0 |-> x]
<1>1. 0 \in 0..Cardinality(links)
  BY FS_CardinalityType
<1>2. path \in [1..0 -> links] /\ PathAt(x, path, 0) = x
  BY DEF PathAt
<1>3. IsPath(x, x, links, 0, path)
  BY <1>2 DEF IsPath
<1> QED BY <1>1, <1>3, LeadsIsPath

(* A new link. *)
LEMMA LinkAdded ==
    ASSUME NEW links, IsFiniteSet(links), NEW l, \A m \in links : m.from # l.from
    PROVE  /\ l \notin links /\ Cardinality(links) \in Nat
           /\ Cardinality(links \cup {l}) = Cardinality(links) + 1
BY FS_CardinalityType, FS_AddElement

(* A link that leads to the start is put before the chain. *)
LEMMA LeadsFirst ==
    ASSUME NEW links, IsFiniteSet(links), NEW l, \A m \in links : m.from # l.from,
           NEW target, Leads(l.to, target, links)
    PROVE  Leads(l.from, target, links \cup {l})
<1>0. PICK n \in 0..Cardinality(links) : \E path : IsPath(l.to, target, links, n, path)
  BY LeadsIsPath
<1>1. PICK path : IsPath(l.to, target, links, n, path)
  BY <1>0
<1>2. /\ l \notin links /\ Cardinality(links) \in Nat /\ n \in Nat
      /\ n + 1 \in 0..Cardinality(links \cup {l})
  BY LinkAdded
<1> DEFINE long == [k \in 1..(n + 1) |-> IF k = 1 THEN l ELSE path[k - 1]]
<1>3. long[1] = l /\ \A k \in 1..n : long[k + 1] = path[k] /\ path[k] \in links
  BY <1>1, <1>2 DEF IsPath
<1>4. long \in [1..(n + 1) -> links \cup {l}]
  BY <1>1, <1>2 DEF IsPath
<1> HIDE DEF long
<1>5. \A k \in 0..n : PathAt(l.from, long, k + 1) = PathAt(l.to, path, k)
  BY <1>2, <1>3 DEF PathAt
<1>6. ASSUME NEW k \in 1..n
      PROVE  UnusedAt(links \cup {l}, long, k + 1) = UnusedAt(links, path, k)
  <2>1. {long[j] : j \in 1..k} = {l} \cup {path[j] : j \in 1..(k - 1)}
    <3>1. ASSUME NEW j \in 1..k PROVE long[j] \in {l} \cup {path[i] : i \in 1..(k - 1)}
      <4>1. CASE j = 1
        BY <1>3, <4>1
      <4>2. CASE j # 1
        <5>1. j - 1 \in 1..(k - 1) /\ j - 1 \in 1..n /\ (j - 1) + 1 = j
          BY <1>2, <4>2
        <5>2. long[j] = path[j - 1]
          BY <1>3, <5>1
        <5> QED BY <5>1, <5>2
      <4> QED BY <4>1, <4>2
    <3>2. l \in {long[j] : j \in 1..k}
      <4>1. 1 \in 1..k
        BY <1>2
      <4> QED BY <1>3, <4>1
    <3>3. ASSUME NEW i \in 1..(k - 1) PROVE path[i] \in {long[j] : j \in 1..k}
      <4>1. i + 1 \in 1..k /\ i \in 1..n
        BY <1>2
      <4> QED BY <1>3, <4>1
    <3> QED BY <3>1, <3>2, <3>3
  <2>2. (k + 1) - 1 = k
    BY <1>2
  <2>3. UnusedAt(links \cup {l}, long, k + 1) = (links \cup {l}) \ {long[j] : j \in 1..k}
    BY <2>2 DEF UnusedAt
  <2> DEFINE used == {path[j] : j \in 1..(k - 1)}
  <2>4. UnusedAt(links, path, k) = links \ used
    BY DEF UnusedAt
  <2> HIDE DEF used
  <2>5. (links \cup {l}) \ ({l} \cup used) = links \ used
    BY <1>2
  <2> QED BY <2>1, <2>3, <2>4, <2>5 DEF used
<1>7. ASSUME NEW k \in 1..(n + 1)
      PROVE  Fitting(l.from, links \cup {l}, long, k) = {long[k]}
  <2>1. CASE k = 1
    <3>1. UnusedAt(links \cup {l}, long, 1) = links \cup {l}
      BY DEF UnusedAt
    <3>2. PathAt(l.from, long, 0) = l.from
      BY DEF PathAt
    <3> QED BY <1>3, <2>1, <3>1, <3>2 DEF Fitting
  <2>2. CASE k # 1
    <3>1. k - 1 \in 1..n /\ (k - 1) + 1 = k
      BY <1>2, <2>2
    <3> DEFINE i == k - 1
    <3>2. UnusedAt(links \cup {l}, long, k) = UnusedAt(links, path, i) /\ long[k] = path[i]
      BY <1>3, <1>6, <3>1
    <3>3. PathAt(l.from, long, i) = PathAt(l.to, path, i - 1)
      <4>1. i - 1 \in 0..n /\ (i - 1) + 1 = i
        BY <1>2, <3>1
      <4> QED BY <1>5, <4>1
    <3>4. Fitting(l.to, links, path, i) = {path[i]}
      BY <1>1, <3>1 DEF IsPath
    <3> QED BY <3>2, <3>3, <3>4 DEF Fitting
  <2> QED BY <2>1, <2>2
<1>8. PathAt(l.from, long, n + 1) = target
  <2>1. n \in 0..n
    BY <1>2
  <2> QED BY <1>1, <1>5, <2>1 DEF IsPath
<1>9. IsPath(l.from, target, links \cup {l}, n + 1, long)
  BY <1>4, <1>7, <1>8 DEF IsPath
<1> QED BY <1>2, <1>9, LeadsIsPath

(* A link that fits at no ledger of a chain leaves it as it is. *)
LEMMA PathStays ==
    ASSUME NEW links, NEW l, l \notin links, NEW start, NEW target, NEW n \in Nat, NEW path,
           IsPath(start, target, links, n, path),
           \A m \in links : m.from # l.from
    PROVE  \A k \in 1..n : Fitting(start, links \cup {l}, path, k) = {path[k]}
<1> TAKE k \in 1..n
<1>1. Fitting(start, links, path, k) = {path[k]} /\ path[k] \in links
  BY DEF IsPath
<1>2. path[k].from = PathAt(start, path, k - 1)
  BY <1>1 DEF Fitting
<1>3. PathAt(start, path, k - 1) # l.from
  BY <1>1, <1>2
<1> DEFINE used == {path[j] : j \in 1..(k - 1)}
<1>4. \A m \in {l} \cup links : m \in UnusedAt(links \cup {l}, path, k) <=> m \notin used
  BY DEF UnusedAt
<1>5. \A m : m \in UnusedAt(links, path, k) <=> m \in links /\ m \notin used
  BY DEF UnusedAt
<1>6. \A m : m \in UnusedAt(links \cup {l}, path, k) => m \in {l} \cup links
  BY DEF UnusedAt
<1> HIDE DEF used
<1> QED BY <1>1, <1>3, <1>4, <1>5, <1>6 DEF Fitting

LEMMA LeadsStill ==
    ASSUME NEW links, IsFiniteSet(links), NEW l, \A m \in links : m.from # l.from,
           NEW start, NEW target, Leads(start, target, links)
    PROVE  Leads(start, target, links \cup {l})
<1>0. PICK n \in 0..Cardinality(links) : \E path : IsPath(start, target, links, n, path)
  BY LeadsIsPath
<1>1. PICK path : IsPath(start, target, links, n, path)
  BY <1>0
<1>2. /\ l \notin links /\ Cardinality(links) \in Nat /\ n \in Nat
      /\ n \in 0..Cardinality(links \cup {l})
  BY LinkAdded
<1>3. path \in [1..n -> links \cup {l}]
  BY <1>1 DEF IsPath
<1>4. \A k \in 1..n : Fitting(start, links \cup {l}, path, k) = {path[k]}
  BY <1>1, <1>2, PathStays
<1>5. IsPath(start, target, links \cup {l}, n, path)
  BY <1>1, <1>3, <1>4 DEF IsPath
<1> QED BY <1>2, <1>5, LeadsIsPath

(* A link that leads on from the end is put after the chain. *)
LEMMA LeadsLast ==
    ASSUME NEW links, IsFiniteSet(links), NEW l, \A m \in links : m.from # l.from,
           NEW start, Leads(start, l.from, links)
    PROVE  Leads(start, l.to, links \cup {l})
<1>0. PICK n \in 0..Cardinality(links) : \E path : IsPath(start, l.from, links, n, path)
  BY LeadsIsPath
<1>1. PICK path : IsPath(start, l.from, links, n, path)
  BY <1>0
<1>2. /\ l \notin links /\ Cardinality(links) \in Nat /\ n \in Nat
      /\ n + 1 \in 0..Cardinality(links \cup {l})
  BY LinkAdded
<1> DEFINE long == [k \in 1..(n + 1) |-> IF k = n + 1 THEN l ELSE path[k]]
<1>3. long[n + 1] = l /\ \A k \in 1..n : long[k] = path[k] /\ path[k] \in links
  BY <1>1, <1>2 DEF IsPath
<1>4. long \in [1..(n + 1) -> links \cup {l}]
  BY <1>1, <1>2 DEF IsPath
<1> HIDE DEF long
<1>5. \A k \in 0..n : PathAt(start, long, k) = PathAt(start, path, k)
  <2>1. \A k \in 0..n : k = 0 \/ k \in 1..n
    BY <1>2
  <2> QED BY <1>3, <2>1 DEF PathAt
<1>6. ASSUME NEW k \in 1..(n + 1)
      PROVE  UnusedAt(links \cup {l}, long, k) = UnusedAt(links \cup {l}, path, k)
  <2>1. \A j \in 1..(k - 1) : long[j] = path[j]
    <3>1. \A j \in 1..(k - 1) : j \in 1..n
      BY <1>2
    <3> QED BY <1>3, <3>1
  <2>2. {long[j] : j \in 1..(k - 1)} = {path[j] : j \in 1..(k - 1)}
    BY <2>1
  <2> QED BY <2>2 DEF UnusedAt
<1>7. ASSUME NEW k \in 1..(n + 1)
      PROVE  Fitting(start, links \cup {l}, long, k) = {long[k]}
  <2>1. Fitting(start, links \cup {l}, long, k) = Fitting(start, links \cup {l}, path, k)
    <3>1. k - 1 \in 0..n
      BY <1>2
    <3> QED BY <1>5, <1>6, <3>1 DEF Fitting
  <2>2. CASE k \in 1..n
    BY <1>1, <1>2, <1>3, <2>1, <2>2, PathStays
  <2>3. CASE k \notin 1..n
    <3>1. k = n + 1 /\ k - 1 = n
      BY <1>2, <2>3
    <3>2. PathAt(start, path, k - 1) = l.from
      BY <1>1, <3>1 DEF IsPath
    <3>3. \A j \in 1..(k - 1) : path[j] # l
      BY <1>2, <1>3, <3>1
    <3>4. l \in UnusedAt(links \cup {l}, path, k)
      BY <3>3 DEF UnusedAt
    <3>5. \A m \in UnusedAt(links \cup {l}, path, k) : m \in links \/ m = l
      BY DEF UnusedAt
    <3>6. Fitting(start, links \cup {l}, path, k) = {l}
      BY <3>2, <3>4, <3>5 DEF Fitting
    <3> QED BY <1>3, <2>1, <3>1, <3>6
  <2> QED BY <2>2, <2>3
<1>8. PathAt(start, long, n + 1) = l.to
  <2>1. n + 1 # 0
    BY <1>2
  <2> QED BY <1>3, <2>1 DEF PathAt
<1>9. IsPath(start, l.to, links \cup {l}, n + 1, long)
  BY <1>4, <1>7, <1>8 DEF IsPath
<1> QED BY <1>2, <1>9, LeadsIsPath

------------------------------------------------------------------------------
(* Links *)

LinkBack(r) == [by |-> r.name, from |-> r.after, to |-> r.before]

LinkOn(s) == [by |-> s.ord, from |-> s.before, to |-> s.after]

(* The decisions that can be taken back, and the rewritings, of other blocks. *)
Undoable(found, gate, ids) ==
    {r \in found : r.gate = gate /\ r.ids \cap ids = {} /\ Unreviewed(r.after, r.ids) = r.before}

Reworders(records, ids) == {s \in records : s.gate \in Rewriting /\ s.ids \cap ids = {}}

LEMMA DecisiveIs ==
    ASSUME NEW found, NEW gate, NEW ids
    PROVE  Decisive(found, gate, ids) = {LinkBack(r) : r \in Undoable(found, gate, ids)}
<1> DEFINE those == {r \in found : r.gate = gate /\ r.ids \cap ids = {}}
<1>1. {q \in those : Unreviewed(q.after, q.ids) = q.before} = Undoable(found, gate, ids)
  BY DEF Undoable
<1>2. Decisive(found, gate, ids) = Back(those)
  BY DEF Decisive
<1> HIDE DEF those
<1>3. Back(those) = {LinkBack(r) : r \in {q \in those : Unreviewed(q.after, q.ids) = q.before}}
  BY DEF Back, LinkBack
<1> QED BY <1>1, <1>2, <1>3

LEMMA RewordingsAre ==
    ASSUME NEW records, NEW ids
    PROVE  Rewordings(records, ids) = {LinkOn(s) : s \in Reworders(records, ids)}
BY DEF Rewordings, LinkOn, Reworders

LEMMA LinksAreFinite ==
    ASSUME NEW records, NEW found, IsFiniteSet(records), IsFiniteSet(found), NEW gate, NEW ids
    PROVE  IsFiniteSet(Decisive(found, gate, ids)) /\ IsFiniteSet(Rewordings(records, ids))
<1>1. IsFiniteSet(Undoable(found, gate, ids)) /\ IsFiniteSet(Reworders(records, ids))
  BY FS_Subset DEF Undoable, Reworders
<1>2. \A S : IsFiniteSet(S) => IsFiniteSet({LinkBack(r) : r \in S})
  <2> SUFFICES ASSUME NEW S, IsFiniteSet(S) PROVE IsFiniteSet({LinkBack(r) : r \in S})
    OBVIOUS
  <2> DEFINE f == [r \in S |-> LinkBack(r)]
  <2>1. f \in Surjection(S, {LinkBack(r) : r \in S})
    BY DEF Surjection
  <2> QED BY <2>1, FS_Surjection
<1>3. \A S : IsFiniteSet(S) => IsFiniteSet({LinkOn(s) : s \in S})
  <2> SUFFICES ASSUME NEW S, IsFiniteSet(S) PROVE IsFiniteSet({LinkOn(s) : s \in S})
    OBVIOUS
  <2> DEFINE f == [s \in S |-> LinkOn(s)]
  <2>1. f \in Surjection(S, {LinkOn(s) : s \in S})
    BY DEF Surjection
  <2> QED BY <2>1, FS_Surjection
<1> QED BY <1>1, <1>2, <1>3, DecisiveIs, RewordingsAre

(* A receipt that can be taken back is one link more, to those of whose     *)
(* blocks it decides none.                                                 *)
LEMMA DecisiveGrows ==
    ASSUME NEW found, NEW r, NEW ids, r.ids \cap ids = {}, Unreviewed(r.after, r.ids) = r.before
    PROVE  Decisive(found \cup {r}, r.gate, ids) = Decisive(found, r.gate, ids) \cup {LinkBack(r)}
<1>1. Undoable(found \cup {r}, r.gate, ids) = Undoable(found, r.gate, ids) \cup {r}
  BY DEF Undoable
<1> QED BY <1>1, DecisiveIs

LEMMA RewordingsGrow ==
    ASSUME NEW records, NEW s, NEW ids, s.gate \in Rewriting, s.ids \cap ids = {}
    PROVE  Rewordings(records \cup {s}, ids) = Rewordings(records, ids) \cup {LinkOn(s)}
<1>1. Reworders(records \cup {s}, ids) = Reworders(records, ids) \cup {s}
  BY DEF Reworders
<1> QED BY <1>1, RewordingsAre

(* What is recorded of other gates and of the same blocks is none. *)
LEMMA LinksStay ==
    ASSUME NEW records, NEW more, records \subseteq more,
           NEW found, NEW known, found \subseteq known, NEW gate, NEW ids,
           \A s \in more \ records : s.gate \notin Rewriting \/ s.ids \cap ids # {},
           \A r \in known \ found : r.gate # gate \/ r.ids \cap ids # {}
    PROVE  /\ Rewordings(more, ids) = Rewordings(records, ids)
           /\ Decisive(known, gate, ids) = Decisive(found, gate, ids)
<1>1. Reworders(more, ids) = Reworders(records, ids)
  BY DEF Reworders
<1>2. Undoable(known, gate, ids) = Undoable(found, gate, ids)
  BY DEF Undoable
<1> QED BY <1>1, <1>2, DecisiveIs, RewordingsAre

(* No decision has led to a ledger in which a block that is waiting now is  *)
(* decided in the same words.                                              *)
LEMMA NewIsNoOld ==
    ASSUME NEW content, NEW next, NEW found, DecidedStays(content, found),
           NEW i \in DOMAIN next, content[i].status = "unreviewed",
           next[i].status # "unreviewed", next[i].body = content[i].body,
           NEW gate, NEW ids
    PROVE  \A l \in Decisive(found, gate, ids) : l.from # next
<1> SUFFICES ASSUME NEW l \in Decisive(found, gate, ids), l.from = next PROVE FALSE
  OBVIOUS
<1>1. PICK r \in found : l = LinkBack(r)
  BY DecisiveIs DEF Undoable
<1>2. r.after = next
  BY <1>1 DEF LinkBack
<1> QED BY <1>2 DEF DecidedStays

(* No rewriting was of the ledger that is there. *)
LEMMA NowIsNoOld ==
    ASSUME NEW content, NEW records, ReplacedStays(content, records), NEW ids
    PROVE  \A l \in Rewordings(records, ids) : l.from # content
<1> SUFFICES ASSUME NEW l \in Rewordings(records, ids), l.from = content PROVE FALSE
  OBVIOUS
<1>1. PICK s \in records : s.gate \in Rewriting /\ l = LinkOn(s)
  BY RewordingsAre DEF Reworders
<1>2. s.before = content
  BY <1>1 DEF LinkOn
<1> QED BY <1>1, <1>2 DEF ReplacedStays

------------------------------------------------------------------------------
(* The history *)

LEMMA OthersBefore ==
    ASSUME NEW steps \in Seq(Entry), NEW e \in Entry, NEW first \in Nat, NEW last \in Nat,
           last <= Len(steps), NEW gates, NEW ids,
           Others(Append(steps, e), first, last, gates, ids)
    PROVE  Others(steps, first, last, gates, ids)
<1>1. \A k \in DOMAIN steps : k \in DOMAIN Append(steps, e) /\ Append(steps, e)[k] = steps[k]
  OBVIOUS
<1> QED BY <1>1 DEF Others

LEMMA OthersEnd ==
    ASSUME NEW steps \in Seq(Entry), NEW e \in Entry, NEW first \in Nat,
           first <= Len(steps) + 1, NEW gates, NEW ids,
           NEW later, later = Append(steps, e), Others(later, first, Len(later), gates, ids)
    PROVE  /\ Others(steps, first, Len(steps), gates, ids)
           /\ e.gate \in gates /\ e.ids \cap ids = {}
<1> DEFINE n == Len(steps) + 1
<1>1. /\ Len(Append(steps, e)) = n /\ n \in DOMAIN Append(steps, e)
      /\ Append(steps, e)[n] = e /\ n \in first..n
      /\ Len(steps) \in Nat
  OBVIOUS
<1>2. e.gate \in gates /\ e.ids \cap ids = {}
  BY <1>1 DEF Others
<1>3. \A k \in DOMAIN steps \cap first..Len(steps) :
        /\ k \in DOMAIN Append(steps, e) \cap first..n
        /\ Append(steps, e)[k] = steps[k]
  OBVIOUS
<1>4. Others(steps, first, Len(steps), gates, ids)
  BY <1>1, <1>3 DEF Others
<1> QED BY <1>2, <1>4

LEMMA DatedStays ==
    ASSUME NEW records, NEW found, NEW steps \in Seq(Entry), NEW e \in Entry,
           Dated(records, found, steps)
    PROVE  Dated(records, found, Append(steps, e))
<1>1. \A k \in DOMAIN steps : k \in DOMAIN Append(steps, e) /\ Append(steps, e)[k] = steps[k]
  OBVIOUS
<1> QED BY <1>1 DEF Dated

------------------------------------------------------------------------------
(* What a command does to the chains *)

(* A ledger follows on another: no block is gone, none undecided in the same *)
(* words, and words that are changed are new to the files.                 *)
Onward(old, next, records, found) ==
    \A i \in DOMAIN old :
        /\ i \in DOMAIN next
        /\ \/ /\ next[i].body = old[i].body
              /\ old[i].status # "unreviewed" => next[i].status # "unreviewed"
           \/ Fresh(next[i].body, old, records, found)

LEMMA NothingComesBack ==
    ASSUME NEW old, NEW next, NEW records, NEW found, Onward(old, next, records, found),
           DecidedStays(old, found), ReplacedStays(old, records)
    PROVE  DecidedStays(next, found) /\ ReplacedStays(next, records)
<1>1. ASSUME NEW r \in found, NEW i \in DOMAIN r.after
      PROVE  /\ i \in DOMAIN next
             /\ r.after[i].body = next[i].body /\ r.after[i].status # "unreviewed"
                    => next[i].status # "unreviewed"
  BY DEF Onward, DecidedStays, Fresh
<1>2. ASSUME NEW s \in records, s.gate \in Rewriting
      PROVE  /\ s.ids # {}
             /\ \A i \in s.ids : /\ i \in DOMAIN next /\ i \in DOMAIN s.before
                                 /\ s.before[i].body # next[i].body
  BY <1>2 DEF Onward, ReplacedStays, Fresh
<1> QED BY <1>1, <1>2 DEF DecidedStays, ReplacedStays

(* Drafts, reconsiderations and remediations end every chain, or change     *)
(* nothing.                                                                *)
LEMMA OthersFollow ==
    ASSUME NEW old, NEW records, NEW found, NEW steps, Followable(old, records, found, steps),
           NEW next, Onward(old, next, records, found),
           NEW more, IsFiniteSet(more), records \subseteq more,
           \A s \in more \ records : s.gate \notin Rewriting,
           NEW known, IsFiniteSet(known), found \subseteq known,
           \A r \in known \ found :
                r.gate \notin {"review", "acceptance"} /\ r.after = next,
           NEW e \in Entry, e.gate \notin Rewriting \cup {"review", "acceptance"},
           NEW later, later = IF next = old THEN steps ELSE Append(steps, e)
    PROVE  Followable(next, more, known, later)
<1>1. /\ steps \in Seq(Entry) /\ Dated(records, found, steps)
      /\ Len(steps) \in Nat /\ later \in Seq(Entry)
  BY DEF Followable
<1>2. DecidedStays(next, known)
  <2>1. DecidedStays(next, found)
    BY NothingComesBack DEF Followable
  <2> QED BY <2>1 DEF DecidedStays
<1>3. ReplacedStays(next, more)
  <2>1. ReplacedStays(next, records)
    BY NothingComesBack DEF Followable
  <2> QED BY <2>1 DEF ReplacedStays
<1>4. Dated(more, known, later)
  <2>1. Dated(records, found, later)
    BY <1>1, DatedStays
  <2> QED BY <2>1 DEF Dated
<1>5. \A ids : /\ Rewordings(more, ids) = Rewordings(records, ids)
               /\ Decisive(known, "review", ids) = Decisive(found, "review", ids)
               /\ Decisive(known, "acceptance", ids) = Decisive(found, "acceptance", ids)
  BY LinksStay
<1>6. ASSUME NEW s \in more, s.gate \in Rewriting
      PROVE  s \in records /\ s.at \in Nat /\ s.at + 1 \in Nat /\ s.at + 1 <= Len(steps) + 1
  <2>1. s \in records /\ s.at \in DOMAIN steps
    BY <1>1, <1>6 DEF Dated
  <2> QED BY <1>1, <2>1
<1>7. ASSUME NEW r \in known, r.gate = "review"
      PROVE  /\ r \in found /\ r.at \in Nat /\ r.at <= Len(steps)
             /\ r.at + 2 \in Nat /\ r.at + 2 <= Len(steps) + 1
  <2>1. r \in found /\ r.at \in Nat /\ r.at + 1 \in DOMAIN steps
    BY <1>1, <1>7 DEF Dated
  <2> QED BY <1>1, <2>1
<1>8. ToReview(more, known, later)
  <2> SUFFICES ASSUME NEW s \in more, NEW r \in known, s.gate \in Rewriting, r.gate = "review",
                      s.at <= r.at, Others(later, s.at + 1, r.at, Rewriting, s.ids)
               PROVE  Leads(s.after, r.before, Rewordings(more, s.ids))
    BY DEF ToReview
  <2>1. s \in records /\ r \in found
    BY <1>6, <1>7
  <2>2. Others(steps, s.at + 1, r.at, Rewriting, s.ids)
    BY <1>1, <1>6, <1>7, OthersBefore
  <2>3. Leads(s.after, r.before, Rewordings(records, s.ids))
    BY <2>1, <2>2 DEF Followable, ToReview
  <2> QED BY <1>5, <2>3
<1>9. CASE next = old
  <2>1. FromReviews(next, more, known, later)
    BY <1>5, <1>6, <1>9 DEF Followable, FromReviews
  <2>2. ToLedger(next, more, later)
    BY <1>5, <1>6, <1>9 DEF Followable, ToLedger
  <2>3. FromAcceptances(next, known, later)
    BY <1>5, <1>7, <1>9 DEF Followable, FromAcceptances
  <2> QED BY <1>1, <1>2, <1>3, <1>4, <1>8, <2>1, <2>2, <2>3 DEF Followable
<1>10. CASE next # old
  <2>1. later = Append(steps, e)
    BY <1>10
  <2>2. ASSUME NEW s \in more, s.gate \in Rewriting, NEW gates, NEW ids,
               Others(later, s.at + 1, Len(later), gates, ids)
        PROVE  e.gate \in gates
    <3> DEFINE first == s.at + 1
    <3>1. first \in Nat /\ first <= Len(steps) + 1 /\ Others(later, first, Len(later), gates, ids)
      BY <1>6, <2>2
    <3> HIDE DEF first
    <3> QED BY <1>1, <2>1, <3>1, OthersEnd, Zenon
  <2>3. ASSUME NEW r \in known, r.gate = "review", NEW gates, NEW ids,
               Others(later, r.at + 2, Len(later), gates, ids)
        PROVE  e.gate \in gates
    <3> DEFINE first == r.at + 2
    <3>1. first \in Nat /\ first <= Len(steps) + 1 /\ Others(later, first, Len(later), gates, ids)
      BY <1>7, <2>3
    <3> HIDE DEF first
    <3> QED BY <1>1, <2>1, <3>1, OthersEnd, Zenon
  <2>4. FromReviews(next, more, known, later)
    BY <2>2 DEF FromReviews
  <2>5. ToLedger(next, more, later)
    BY <2>2 DEF ToLedger
  <2>6. FromAcceptances(next, known, later)
    BY <2>3 DEF FromAcceptances
  <2> QED BY <1>1, <1>2, <1>3, <1>4, <1>8, <2>4, <2>5, <2>6 DEF Followable
<1> QED BY <1>9, <1>10

(* A review, and an acceptance: they add a link to the chains that lead back *)
(* over decisions of other blocks.                                         *)
LEMMA DecisionsFollow ==
    ASSUME NEW old, NEW records, NEW found, NEW steps, Followable(old, records, found, steps),
           NEW next, Onward(old, next, records, found),
           NEW r, r.gate \in {"review", "acceptance"}, r.before = old, r.after = next,
           r.at = Len(steps), Unreviewed(r.after, r.ids) = r.before,
           NEW i \in DOMAIN next, old[i].status = "unreviewed",
           next[i].status # "unreviewed", next[i].body = old[i].body,
           NEW e \in Entry, e.gate = r.gate, e.ids = r.ids
    PROVE  Followable(next, records, found \cup {r}, Append(steps, e))
<1> DEFINE known == found \cup {r}
           later == Append(steps, e)
<1>1. /\ steps \in Seq(Entry) /\ Dated(records, found, steps)
      /\ Len(steps) \in Nat /\ later \in Seq(Entry) /\ Len(later) = Len(steps) + 1
      /\ Len(later) \in DOMAIN later /\ later[Len(later)] = e
      /\ IsFiniteSet(records) /\ IsFiniteSet(found)
  BY DEF Followable
<1>2. IsFiniteSet(known)
  BY <1>1, FS_AddElement
<1>3. DecidedStays(next, known) /\ ReplacedStays(next, records)
  <2>1. DecidedStays(next, found) /\ ReplacedStays(next, records)
    BY NothingComesBack DEF Followable
  <2> QED BY <2>1 DEF DecidedStays
<1>4. Dated(records, known, later)
  <2>1. Dated(records, found, later)
    BY <1>1, DatedStays
  <2> HIDE DEF later
  <2> QED BY <1>1, <2>1 DEF Dated
<1>5. ASSUME NEW ids PROVE \A l \in Decisive(found, r.gate, ids) : l.from # next
  BY NewIsNoOld DEF Followable
<1>6. ASSUME NEW target, NEW ids, r.ids \cap ids = {},
             Leads(old, target, Decisive(found, r.gate, ids))
      PROVE  Leads(next, target, Decisive(known, r.gate, ids))
  <2> DEFINE links == Decisive(found, r.gate, ids)
             l == LinkBack(r)
  <2>1. IsFiniteSet(links)
    BY <1>1, LinksAreFinite
  <2>2. l.from = next /\ l.to = old
    BY DEF LinkBack
  <2>3. Decisive(known, r.gate, ids) = links \cup {l}
    BY <1>6, DecisiveGrows
  <2>4. \A m \in links : m.from # l.from
    BY <1>5, <2>2
  <2>5. Leads(l.to, target, links)
    BY <1>6, <2>2
  <2> HIDE DEF links, l
  <2>6. Leads(l.from, target, links \cup {l})
    BY <2>1, <2>4, <2>5, LeadsFirst
  <2> QED BY <2>2, <2>3, <2>6
<1>7. ASSUME NEW s \in records, s.gate \in Rewriting
      PROVE  s.at \in Nat /\ s.at + 1 \in Nat /\ s.at + 1 <= Len(steps) + 1
  <2>1. s.at \in DOMAIN steps
    BY <1>1, <1>7 DEF Dated
  <2> QED BY <1>1, <2>1
<1>8. ASSUME NEW q \in found, q.gate = "review"
      PROVE  /\ q.at \in Nat /\ q.at <= Len(steps)
             /\ q.at + 2 \in Nat /\ q.at + 2 <= Len(steps) + 1
  <2>1. q.at \in Nat /\ q.at + 1 \in DOMAIN steps
    BY <1>1, <1>8 DEF Dated
  <2> QED BY <1>1, <2>1
<1> HIDE DEF known, later
<1>9. later = Append(steps, e)
  BY DEF later
<1>10. ASSUME NEW first \in Nat, first <= Len(steps) + 1, NEW gates, NEW ids,
              Others(later, first, Len(later), gates, ids)
       PROVE  /\ Others(steps, first, Len(steps), gates, ids)
              /\ e.gate \in gates /\ e.ids \cap ids = {}
  <2>1. steps \in Seq(Entry)
    BY <1>1
  <2> QED BY <1>9, <1>10, <2>1, OthersEnd, Zenon
<1>11. FromReviews(next, records, known, later)
  <2> SUFFICES ASSUME NEW s \in records, s.gate \in Rewriting, NEW k \in s.ids,
                      Others(later, s.at + 1, Len(later), {"review"}, {k})
               PROVE  Leads(next, s.after, Decisive(known, "review", {k}))
    BY DEF FromReviews
  <2>1. /\ Others(steps, s.at + 1, Len(steps), {"review"}, {k})
        /\ e.gate \in {"review"} /\ e.ids \cap {k} = {}
    BY <1>7, <1>10
  <2>2. Leads(old, s.after, Decisive(found, "review", {k}))
    BY <2>1 DEF Followable, FromReviews
  <2> QED BY <1>6, <2>1, <2>2
<1>12. ToLedger(next, records, later)
  <2> SUFFICES ASSUME NEW s \in records, s.gate \in Rewriting,
                      Others(later, s.at + 1, Len(later), Rewriting, s.ids)
               PROVE  FALSE
    BY DEF ToLedger
  <2>1. e.gate \in Rewriting
    BY <1>7, <1>10
  <2> QED BY <2>1 DEF Rewriting
<1>13. ToReview(records, known, later)
  <2> SUFFICES ASSUME NEW s \in records, NEW q \in known, s.gate \in Rewriting,
                      q.gate = "review", s.at <= q.at,
                      Others(later, s.at + 1, q.at, Rewriting, s.ids)
               PROVE  Leads(s.after, q.before, Rewordings(records, s.ids))
    BY DEF ToReview
  <2>1. CASE q \in found
    <3>1. Others(steps, s.at + 1, q.at, Rewriting, s.ids)
      BY <1>1, <1>7, <1>8, <1>9, <2>1, OthersBefore
    <3> QED BY <2>1, <3>1 DEF Followable, ToReview
  <2>2. CASE q = r
    <3>1. Others(steps, s.at + 1, Len(steps), Rewriting, s.ids)
      BY <1>1, <1>7, <1>9, <2>2, OthersBefore
    <3> QED BY <2>2, <3>1 DEF Followable, ToLedger
  <2> QED BY <2>1, <2>2 DEF known
<1>14. FromAcceptances(next, known, later)
  <2> SUFFICES ASSUME NEW q \in known, q.gate = "review",
                      Others(later, q.at + 2, Len(later), {"acceptance"}, q.ids)
               PROVE  Leads(next, q.after, Decisive(known, "acceptance", q.ids))
    BY DEF FromAcceptances
  <2>1. CASE q \in found
    <3>1. /\ Others(steps, q.at + 2, Len(steps), {"acceptance"}, q.ids)
          /\ e.gate \in {"acceptance"} /\ e.ids \cap q.ids = {}
      BY <1>8, <2>1, <1>10
    <3>2. Leads(old, q.after, Decisive(found, "acceptance", q.ids))
      BY <2>1, <3>1 DEF Followable, FromAcceptances
    <3> QED BY <1>6, <3>1, <3>2
  <2>2. CASE q = r
    BY <1>1, <1>2, <2>2, LeadsAtOnce, LinksAreFinite
  <2> QED BY <2>1, <2>2 DEF known
<1> QED BY <1>1, <1>2, <1>3, <1>4, <1>11, <1>12, <1>13, <1>14 DEF Followable, known, later

(* A rewriting: it adds a link to the chains that lead on over rewritings of *)
(* other blocks.                                                           *)
LEMMA RewritingsFollow ==
    ASSUME NEW old, NEW records, NEW found, NEW steps, Followable(old, records, found, steps),
           NEW next, Onward(old, next, records, found),
           NEW s, s.gate \in Rewriting, s.before = old, s.after = next,
           s.at = Len(steps) + 1, s.ids # {},
           \A i \in s.ids : i \in DOMAIN old /\ next[i].body # old[i].body,
           NEW e \in Entry, e.gate = s.gate, e.ids = s.ids
    PROVE  Followable(next, records \cup {s}, found, Append(steps, e))
<1> DEFINE more == records \cup {s}
           later == Append(steps, e)
<1>1. /\ steps \in Seq(Entry) /\ Dated(records, found, steps)
      /\ Len(steps) \in Nat /\ later \in Seq(Entry) /\ Len(later) = Len(steps) + 1
      /\ Len(later) \in DOMAIN later /\ later[Len(later)] = e
      /\ IsFiniteSet(records) /\ IsFiniteSet(found)
  BY DEF Followable
<1>2. IsFiniteSet(more)
  BY <1>1, FS_AddElement
<1>3. DecidedStays(next, found) /\ ReplacedStays(next, more)
  <2>1. DecidedStays(next, found) /\ ReplacedStays(next, records)
    BY NothingComesBack DEF Followable
  <2>2. \A i \in s.ids : i \in DOMAIN next
    BY DEF Onward
  <2> QED BY <2>1, <2>2 DEF ReplacedStays
<1>4. Dated(more, found, later)
  <2>1. Dated(records, found, later)
    BY <1>1, DatedStays
  <2> HIDE DEF later
  <2> QED BY <1>1, <2>1 DEF Dated
<1>5. ASSUME NEW ids
      PROVE  /\ IsFiniteSet(Rewordings(records, ids))
             /\ \A l \in Rewordings(records, ids) : l.from # LinkOn(s).from
             /\ LinkOn(s).from = old /\ LinkOn(s).to = next
  <2>1. \A l \in Rewordings(records, ids) : l.from # old
    BY NowIsNoOld DEF Followable
  <2> QED BY <1>1, <2>1, LinksAreFinite DEF LinkOn
<1>6. ASSUME NEW start, NEW ids, s.ids \cap ids = {},
             Leads(start, old, Rewordings(records, ids))
      PROVE  Leads(start, next, Rewordings(more, ids))
  <2> DEFINE links == Rewordings(records, ids)
             l == LinkOn(s)
  <2>1. /\ IsFiniteSet(links) /\ \A m \in links : m.from # l.from
        /\ l.from = old /\ l.to = next
    BY <1>5
  <2>2. Rewordings(more, ids) = links \cup {l}
    BY <1>6, RewordingsGrow
  <2>3. Leads(start, l.from, links)
    BY <1>6, <2>1
  <2> HIDE DEF links, l
  <2>4. Leads(start, l.to, links \cup {l})
    BY <2>1, <2>3, LeadsLast
  <2> QED BY <2>1, <2>2, <2>4
<1>7. ASSUME NEW start, NEW target, NEW ids, Leads(start, target, Rewordings(records, ids))
      PROVE  Leads(start, target, Rewordings(more, ids))
  <2> DEFINE links == Rewordings(records, ids)
             l == LinkOn(s)
  <2>1. CASE s.ids \cap ids = {}
    <3>1. IsFiniteSet(links) /\ \A m \in links : m.from # l.from
      BY <1>5
    <3>2. Rewordings(more, ids) = links \cup {l}
      BY <2>1, RewordingsGrow
    <3>3. Leads(start, target, links)
      BY <1>7
    <3> HIDE DEF links, l
    <3>4. Leads(start, target, links \cup {l})
      BY <3>1, <3>3, LeadsStill
    <3> QED BY <3>2, <3>4
  <2>2. CASE s.ids \cap ids # {}
    <3>1. Reworders(more, ids) = Reworders(records, ids)
      BY <2>2 DEF Reworders
    <3>2. Rewordings(more, ids) = Rewordings(records, ids)
      BY <3>1, RewordingsAre
    <3> QED BY <1>7, <3>2
  <2> QED BY <2>1, <2>2
<1>8. ASSUME NEW t \in records, t.gate \in Rewriting
      PROVE  t.at \in Nat /\ t.at + 1 \in Nat /\ t.at + 1 <= Len(steps) + 1
  <2>1. t.at \in DOMAIN steps
    BY <1>1, <1>8 DEF Dated
  <2> QED BY <1>1, <2>1
<1>9. ASSUME NEW r \in found, r.gate = "review"
      PROVE  /\ r.at \in Nat /\ r.at <= Len(steps)
             /\ r.at + 2 \in Nat /\ r.at + 2 <= Len(steps) + 1
  <2>1. r.at \in Nat /\ r.at + 1 \in DOMAIN steps
    BY <1>1, <1>9 DEF Dated
  <2> QED BY <1>1, <2>1
<1> HIDE DEF more, later
<1>10. later = Append(steps, e)
  BY DEF later
<1>11. ASSUME NEW first \in Nat, first <= Len(steps) + 1, NEW gates, NEW ids,
              Others(later, first, Len(later), gates, ids)
       PROVE  /\ Others(steps, first, Len(steps), gates, ids)
              /\ e.gate \in gates /\ e.ids \cap ids = {}
  <2>1. steps \in Seq(Entry)
    BY <1>1
  <2> QED BY <1>10, <1>11, <2>1, OthersEnd, Zenon
<1>12. FromReviews(next, more, found, later)
  <2> SUFFICES ASSUME NEW t \in more, t.gate \in Rewriting, NEW i \in t.ids,
                      Others(later, t.at + 1, Len(later), {"review"}, {i})
               PROVE  Leads(next, t.after, Decisive(found, "review", {i}))
    BY DEF FromReviews
  <2>1. CASE t \in records
    <3>1. e.gate \in {"review"}
      BY <1>8, <1>11, <2>1
    <3> QED BY <3>1 DEF Rewriting
  <2>2. CASE t = s
    BY <1>1, <2>2, LeadsAtOnce, LinksAreFinite
  <2> QED BY <2>1, <2>2 DEF more
<1>13. ToLedger(next, more, later)
  <2> SUFFICES ASSUME NEW t \in more, t.gate \in Rewriting,
                      Others(later, t.at + 1, Len(later), Rewriting, t.ids)
               PROVE  Leads(t.after, next, Rewordings(more, t.ids))
    BY DEF ToLedger
  <2>1. CASE t \in records
    <3>1. Others(steps, t.at + 1, Len(steps), Rewriting, t.ids) /\ e.ids \cap t.ids = {}
      BY <1>8, <1>11, <2>1
    <3>2. Leads(t.after, old, Rewordings(records, t.ids))
      BY <2>1, <3>1 DEF Followable, ToLedger
    <3> QED BY <1>6, <3>1, <3>2
  <2>2. CASE t = s
    BY <1>1, <1>2, <2>2, LeadsAtOnce, LinksAreFinite
  <2> QED BY <2>1, <2>2 DEF more
<1>14. ToReview(more, found, later)
  <2> SUFFICES ASSUME NEW t \in more, NEW r \in found, t.gate \in Rewriting,
                      r.gate = "review", t.at <= r.at,
                      Others(later, t.at + 1, r.at, Rewriting, t.ids)
               PROVE  Leads(t.after, r.before, Rewordings(more, t.ids))
    BY DEF ToReview
  <2>1. CASE t \in records
    <3>1. Others(steps, t.at + 1, r.at, Rewriting, t.ids)
      BY <1>1, <1>8, <1>9, <1>10, <2>1, OthersBefore
    <3>2. Leads(t.after, r.before, Rewordings(records, t.ids))
      BY <2>1, <3>1 DEF Followable, ToReview
    <3> QED BY <1>7, <3>2
  <2>2. CASE t = s
    BY <1>1, <1>9, <2>2
  <2> QED BY <2>1, <2>2 DEF more
<1>15. FromAcceptances(next, found, later)
  <2> SUFFICES ASSUME NEW r \in found, r.gate = "review",
                      Others(later, r.at + 2, Len(later), {"acceptance"}, r.ids)
               PROVE  FALSE
    BY DEF FromAcceptances
  <2>1. e.gate \in {"acceptance"}
    BY <1>9, <1>11
  <2> QED BY <2>1 DEF Rewriting
<1> QED BY <1>1, <1>2, <1>3, <1>4, <1>12, <1>13, <1>14, <1>15 DEF Followable, more, later

------------------------------------------------------------------------------
(* What a gate leaves behind *)

(* What a preview does to the ledger goes on from it. *)
LEMMA FitsOnward ==
    ASSUME NEW o, IsOperation(o), Planned(o), Fits(o),
           o.cmd.gate \in Deciding => o.cmd.decision # "unreviewed",
           Fresh(o.cmd.body, o.opened[1], o.opened[2], o.opened[3])
    PROVE  Onward(o.opened[1], o.next, o.opened[2], o.opened[3])
<1> DEFINE old == o.opened[1]
           c == o.cmd
<1> SUFFICES ASSUME NEW i \in DOMAIN old
             PROVE  /\ i \in DOMAIN o.next
                    /\ \/ /\ o.next[i].body = old[i].body
                          /\ old[i].status # "unreviewed" => o.next[i].status # "unreviewed"
                       \/ Fresh(o.next[i].body, old, o.opened[2], o.opened[3])
  BY DEF Onward
<1>1. /\ i \in DOMAIN o.next /\ c.gate \in Gates /\ old[i] \in Block
      /\ o.next[i].body # old[i].body => c.gate \in Rewriting /\ i \in c.ids
  BY DEF Planned, IsOperation, IsCommand
<1>2. CASE c.gate \in Deciding
  <2>1. o.next[i] = IF i \in c.ids THEN [old[i] EXCEPT !.status = c.decision] ELSE old[i]
    BY <1>2 DEF Fits
  <2>2. c.decision # "unreviewed"
    BY <1>2
  <2> QED BY <1>1, <2>1, <2>2 DEF Block
<1>3. CASE c.gate \in Rewriting
  <2>1. IF i \in c.ids THEN o.next[i].body = c.body ELSE o.next[i] = old[i]
    BY <1>3 DEF Fits
  <2> QED BY <1>1, <2>1
<1>4. CASE c.gate \in Remediating
  <2>1. o.next[i].status = "unreviewed" => old[i].status = "unreviewed"
    BY <1>4 DEF Fits
  <2> QED BY <1>1, <1>4, <2>1 DEF Remediating, Rewriting
<1>5. CASE c.gate = "draft"
  <2>1. o.next[i] = old[i]
    BY <1>5 DEF Fits
  <2> QED BY <1>1, <2>1
<1> QED BY <1>1, <1>2, <1>3, <1>4, <1>5 DEF Gates, Deciding, Rewriting, Remediating

LEMMA EnteredIsEntry ==
    ASSUME NEW o, IsOperation(o), Planned(o) PROVE Entered(o) \in Entry
<1>1. o.cmd.gate \in Gates /\ o.cmd.ids \subseteq DOMAIN o.next /\ o.next \in Seq(Block)
  BY DEF IsOperation, IsCommand, Planned
<1>2. o.cmd.ids \subseteq Nat
  BY <1>1
<1> QED BY <1>1, <1>2 DEF Entered, Entry

(* A review or an acceptance that is done. *)
LEMMA DecisionIsLink ==
    ASSUME NEW o, IsOperation(o), Planned(o), Fits(o), o.cmd.gate \in {"review", "acceptance"},
           o.cmd.decision # "unreviewed", o.cmd.ids # {}
    PROVE  /\ Unreviewed(o.next, o.cmd.ids) = o.opened[1]
           /\ \E i \in DOMAIN o.next :
                /\ o.opened[1][i].status = "unreviewed" /\ o.next[i].status # "unreviewed"
                /\ o.next[i].body = o.opened[1][i].body
<1> DEFINE old == o.opened[1]
           c == o.cmd
<1>1. /\ old \in Seq(Block) /\ DOMAIN o.next = DOMAIN old /\ c.ids \subseteq DOMAIN old
      /\ \A i \in DOMAIN old : old[i] \in Block /\
            o.next[i] = IF i \in c.ids THEN [old[i] EXCEPT !.status = c.decision] ELSE old[i]
      /\ \A i \in c.ids : old[i].status = "unreviewed"
  <2>1. c.gate \in Deciding
    BY DEF Deciding
  <2>2. c.gate # "draft"
    OBVIOUS
  <2>3. old \in Seq(Block) /\ c.ids \subseteq DOMAIN old
    BY <2>2 DEF Planned
  <2>4. \A i \in DOMAIN old : old[i] \in Block
    BY <2>3
  <2>5. /\ DOMAIN o.next = DOMAIN old
        /\ \A i \in DOMAIN old :
            o.next[i] = IF i \in c.ids THEN [old[i] EXCEPT !.status = c.decision] ELSE old[i]
        /\ \A i \in c.ids : old[i].status = "unreviewed"
    BY <2>1 DEF Fits
  <2> QED BY <2>3, <2>4, <2>5
<1>2. Unreviewed(o.next, c.ids) =
        [i \in DOMAIN o.next |-> IF i \in c.ids THEN [o.next[i] EXCEPT !.status = "unreviewed"]
                                 ELSE o.next[i]]
  BY DEF Unreviewed, Changed
<1>3. ASSUME NEW i \in DOMAIN old
      PROVE  old[i] = IF i \in c.ids THEN [o.next[i] EXCEPT !.status = "unreviewed"] ELSE o.next[i]
  <2>1. CASE i \in c.ids
    <3>1. old[i] \in Block /\ old[i].status = "unreviewed"
      BY <1>1, <2>1
    <3>2. o.next[i] = [old[i] EXCEPT !.status = c.decision]
      BY <1>1, <2>1
    <3> HIDE DEF old
    <3> QED BY <2>1, <3>1, <3>2 DEF Block
  <2>2. CASE i \notin c.ids
    BY <1>1, <2>2
  <2> QED BY <2>1, <2>2
<1>4. old = [i \in DOMAIN old |-> old[i]]
  BY <1>1
<1>5. Unreviewed(o.next, c.ids) = old
  BY <1>1, <1>2, <1>3, <1>4
<1>6. PICK i \in c.ids : TRUE
  OBVIOUS
<1>7. i \in DOMAIN old /\ old[i] \in Block /\ o.next[i] = [old[i] EXCEPT !.status = c.decision]
  BY <1>1, <1>6
<1>8. o.next[i].status # "unreviewed" /\ o.next[i].body = old[i].body
  BY <1>7 DEF Block
<1> QED BY <1>1, <1>5, <1>6, <1>7, <1>8

(* What a gate has found, and what it has done so far. *)
AtWorkFrom(o, content, records, found, steps, before) ==
    /\ IsOperation(o) /\ Planned(o) /\ Fits(o)
    /\ Progress(o, content, records, found)
    /\ o.cmd.gate # "draft" => o.cmd.ids # {}
    /\ o.cmd.gate \in Deciding => o.cmd.decision # "unreviewed"
    /\ Fresh(o.cmd.body, o.opened[1], o.opened[2], o.opened[3])
    /\ before \in Seq(Entry)
    /\ Followable(o.opened[1], o.opened[2], o.opened[3], before)
    /\ steps = IF content = o.opened[1] THEN before ELSE Append(before, Entered(o))
    /\ \A s \in records \ o.opened[2] : s.at = Len(steps)
    /\ o.cmd.gate \in Deciding => \A r \in found \ o.opened[3] : r.at = Len(before)

LEMMA DecidingEnds ==
    ASSUME NEW o, NEW content, NEW records, NEW found, NEW steps, NEW before,
           AtWorkFrom(o, content, records, found, steps, before),
           o.cmd.gate \in Deciding, content = o.next, records = o.opened[2], Receipted(o, found)
    PROVE  Followable(content, records, found, steps)
<1> DEFINE old == o.opened[1]
           e == Entered(o)
<1>1. /\ Onward(old, o.next, records, o.opened[3])
      /\ e \in Entry /\ e.gate = o.cmd.gate /\ e.ids = o.cmd.ids
      /\ Followable(old, records, o.opened[3], before)
      /\ IsFiniteSet(records) /\ IsFiniteSet(o.opened[3])
  BY FitsOnward, EnteredIsEntry DEF AtWorkFrom, Entered, Followable
<1>2. PICK r \in found :
           /\ found = o.opened[3] \cup {r}
           /\ r.name = ReceiptName(o.cmd, old)
           /\ r.gate = o.cmd.gate /\ r.ids = o.cmd.ids
           /\ r.before = old /\ r.after = o.next
  BY DEF Receipted
<1>3. r \notin o.opened[3]
  BY <1>2 DEF AtWorkFrom, Planned
<1>4. r.at = Len(before)
  BY <1>2, <1>3 DEF AtWorkFrom
<1>5. steps = IF o.next = old THEN before ELSE Append(before, e)
  BY DEF AtWorkFrom
<1> HIDE DEF old, e
<1>6. CASE o.cmd.gate = "reconsider"
  <2>1. IsFiniteSet(found)
    BY <1>1, <1>2, FS_AddElement
  <2>2. \A q \in found \ o.opened[3] : q.gate \notin {"review", "acceptance"} /\ q.after = o.next
    BY <1>2, <1>6
  <2>3. e.gate \notin Rewriting \cup {"review", "acceptance"}
    BY <1>1, <1>6 DEF Rewriting
  <2>4. /\ o.opened[3] \subseteq found /\ records \subseteq records
        /\ \A s \in records \ records : s.gate \notin Rewriting
    BY <1>2
  <2>5. Followable(o.next, records, found, steps)
    BY <1>1, <1>5, <2>1, <2>2, <2>3, <2>4, OthersFollow, Zenon
  <2> QED BY <2>5
<1>7. CASE o.cmd.gate \in {"review", "acceptance"}
  <2>1. /\ Unreviewed(o.next, o.cmd.ids) = old
        /\ \E i \in DOMAIN o.next :
            /\ old[i].status = "unreviewed" /\ o.next[i].status # "unreviewed"
            /\ o.next[i].body = old[i].body
    BY <1>7, DecisionIsLink DEF AtWorkFrom, old
  <2>2. PICK i \in DOMAIN o.next :
            /\ old[i].status = "unreviewed" /\ o.next[i].status # "unreviewed"
            /\ o.next[i].body = old[i].body
    BY <2>1
  <2>3. o.next # old
    BY <2>2
  <2>4. r.gate \in {"review", "acceptance"} /\ Unreviewed(r.after, r.ids) = r.before
    BY <1>2, <1>7, <2>1
  <2>5. e.gate = r.gate /\ e.ids = r.ids
    BY <1>1, <1>2
  <2>6. Followable(o.next, records, o.opened[3] \cup {r}, Append(before, e))
    BY <1>1, <1>2, <1>4, <2>2, <2>4, <2>5, DecisionsFollow
  <2> QED BY <1>2, <1>5, <2>3, <2>6
<1> QED BY <1>6, <1>7 DEF Deciding

LEMMA RewritingEnds ==
    ASSUME NEW o, NEW content, NEW records, NEW found, NEW steps, NEW before,
           AtWorkFrom(o, content, records, found, steps, before), NumberTaken(o),
           o.cmd.gate \in Rewriting, content = o.next, Recorded(o, records), found = o.opened[3]
    PROVE  Followable(content, records, found, steps)
<1> DEFINE old == o.opened[1]
           e == Entered(o)
<1>1. /\ Onward(old, o.next, o.opened[2], found)
      /\ e \in Entry /\ e.gate = o.cmd.gate /\ e.ids = o.cmd.ids
      /\ Followable(old, o.opened[2], found, before)
      /\ before \in Seq(Entry)
  <2>1. o.cmd.gate \in Deciding => o.cmd.decision # "unreviewed"
    BY DEF AtWorkFrom
  <2> QED BY <2>1, FitsOnward, EnteredIsEntry DEF AtWorkFrom, Entered
<1>2. PICK s \in records :
           /\ records = o.opened[2] \cup {s}
           /\ s.ord = o.ord /\ s.gate = o.cmd.gate /\ s.ids = o.cmd.ids
           /\ s.before = old /\ s.after = o.next
  BY DEF Recorded
<1>3. s \notin o.opened[2]
  <2>1. \A t \in o.opened[2] : t.ord < o.ord /\ t.ord \in Nat
    BY DEF NumberTaken, AtWorkFrom, Planned, RecordsTyped
  <2>2. o.ord \in Nat
    BY DEF NumberTaken
  <2> QED BY <1>2, <2>1, <2>2
<1>4. /\ o.cmd.ids # {}
      /\ \A i \in o.cmd.ids : i \in DOMAIN old /\ o.next[i].body = o.cmd.body
                              /\ old[i].body # o.cmd.body
  <2>1. o.cmd.gate # "draft"
    BY DEF Rewriting
  <2>2. o.cmd.ids # {} /\ o.cmd.ids \subseteq DOMAIN old
    BY <2>1 DEF AtWorkFrom, Planned
  <2>3. \A i \in o.cmd.ids : o.next[i].body = o.cmd.body
    BY <2>2 DEF AtWorkFrom, Fits
  <2>4. \A i \in DOMAIN old : old[i].body # o.cmd.body
    BY DEF AtWorkFrom, Fresh
  <2> QED BY <2>2, <2>3, <2>4
<1>5. o.next # old
  BY <1>4
<1>6. steps = Append(before, e)
  BY <1>5 DEF AtWorkFrom
<1>7. s.at = Len(before) + 1
  <2>1. s.at = Len(steps)
    BY <1>2, <1>3 DEF AtWorkFrom
  <2> QED BY <1>1, <1>6, <2>1
<1> HIDE DEF old, e
<1>8. /\ s.gate \in Rewriting /\ s.ids # {}
      /\ \A i \in s.ids : i \in DOMAIN old /\ o.next[i].body # old[i].body
      /\ e.gate = s.gate /\ e.ids = s.ids
  BY <1>1, <1>2, <1>4
<1>9. Followable(o.next, o.opened[2] \cup {s}, found, Append(before, e))
  BY <1>1, <1>2, <1>7, <1>8, RewritingsFollow
<1> QED BY <1>2, <1>6, <1>9

LEMMA OtherEnds ==
    ASSUME NEW o, NEW content, NEW records, NEW found, NEW steps, NEW before,
           AtWorkFrom(o, content, records, found, steps, before),
           o.cmd.gate \in Remediating \cup {"draft"}, content = o.next,
           Recorded(o, records) \/ records = o.opened[2],
           Receipted(o, found) \/ found = o.opened[3]
    PROVE  Followable(content, records, found, steps)
<1> DEFINE old == o.opened[1]
           e == Entered(o)
<1>1. /\ Onward(old, o.next, o.opened[2], o.opened[3])
      /\ e \in Entry /\ e.gate = o.cmd.gate
      /\ Followable(old, o.opened[2], o.opened[3], before)
      /\ IsFiniteSet(o.opened[2]) /\ IsFiniteSet(o.opened[3])
  <2>1. o.cmd.gate \in Deciding => o.cmd.decision # "unreviewed"
    BY DEF AtWorkFrom
  <2> QED BY <2>1, FitsOnward, EnteredIsEntry DEF AtWorkFrom, Entered, Followable
<1>2. /\ o.opened[2] \subseteq records /\ IsFiniteSet(records)
      /\ \A s \in records \ o.opened[2] : s.gate = o.cmd.gate
  <2>1. CASE Recorded(o, records)
    BY <1>1, <2>1, FS_AddElement DEF Recorded
  <2>2. CASE records = o.opened[2]
    BY <1>1, <2>2
  <2> QED BY <2>1, <2>2
<1>3. /\ o.opened[3] \subseteq found /\ IsFiniteSet(found)
      /\ \A r \in found \ o.opened[3] : r.gate = o.cmd.gate /\ r.after = o.next
  <2>1. CASE Receipted(o, found)
    BY <1>1, <2>1, FS_AddElement DEF Receipted
  <2>2. CASE found = o.opened[3]
    BY <1>1, <2>2
  <2> QED BY <2>1, <2>2
<1>4. o.cmd.gate \notin Rewriting \cup {"review", "acceptance"}
  BY DEF Remediating, Rewriting
<1>5. steps = IF o.next = old THEN before ELSE Append(before, e)
  BY DEF AtWorkFrom
<1> HIDE DEF old, e
<1>6. Followable(o.next, records, found, steps)
  <2>1. \A s \in records \ o.opened[2] : s.gate \notin Rewriting
    BY <1>2, <1>4
  <2>2. \A r \in found \ o.opened[3] :
            r.gate \notin {"review", "acceptance"} /\ r.after = o.next
    BY <1>3, <1>4
  <2>3. e.gate \notin Rewriting \cup {"review", "acceptance"}
    BY <1>1, <1>4
  <2>4. /\ o.opened[2] \subseteq records /\ IsFiniteSet(records)
        /\ o.opened[3] \subseteq found /\ IsFiniteSet(found)
    BY <1>2, <1>3
  <2> QED BY <1>1, <1>5, <2>1, <2>2, <2>3, <2>4, OthersFollow, Zenon
<1> QED BY <1>6

(* The files can be followed when a gate has done its work or has taken it  *)
(* back, if no rewrite import fails.                                       *)
LEMMA EndIsFollowable ==
    ASSUME NEW o, NEW content, NEW records, NEW found, NEW steps, NEW before,
           AtWorkFrom(o, content, records, found, steps, before),
           o.failed => o.cmd.gate # "rewrite", o.todo = <<"leave">>
    PROVE  Followable(content, records, found, steps)
<1>1. ASSUME content = o.opened[1], records = o.opened[2], found = o.opened[3]
      PROVE  Followable(content, records, found, steps)
  BY <1>1 DEF AtWorkFrom
<1>2. CASE o.cmd.gate \in Deciding
  <2>1. records = o.opened[2] /\ DecisionProgress(o, content, found)
    BY <1>2 DEF AtWorkFrom, Progress, Deciding, Rewriting, Remediating
  <2>2. /\ <<"receipt", "ledger", "leave">> # <<"leave">>
        /\ <<"ledger", "leave">> # <<"leave">> /\ <<"dropReceipt", "leave">> # <<"leave">>
    OBVIOUS
  <2>3. \/ content = o.next /\ Receipted(o, found)
        \/ content = o.opened[1] /\ found = o.opened[3]
    BY <2>1, <2>2 DEF DecisionProgress
  <2> QED BY <1>1, <1>2, <2>1, <2>3, DecidingEnds
<1>3. CASE o.cmd.gate \in Rewriting \cup {"draft"}
  <2>1. found = o.opened[3] /\ ImportProgress(o, content, records)
    BY <1>3 DEF AtWorkFrom, Progress, Deciding, Rewriting, Remediating
  <2>2. \/ ~o.failed /\ content = o.next /\ Recorded(o, records)
        \/ o.failed /\ content = o.opened[1] /\ records = o.opened[2]
        \/ /\ o.failed /\ o.cmd.gate \in {"draft", "rewrite"}
           /\ content = o.next /\ records = o.opened[2]
    BY <2>1, ImportEnds
  <2>3. ~o.failed => NumberTaken(o)
    <3>1. /\ <<"number", "record", "leave">> # <<"leave">>
          /\ <<"record", "leave">> # <<"leave">>
          /\ <<"ledger", "number", "record", "leave">> # <<"leave">>
      OBVIOUS
    <3> QED BY <2>1, <3>1 DEF ImportProgress
  <2>4. CASE o.cmd.gate = "draft"
    BY <1>1, <2>1, <2>2, <2>4, OtherEnds
  <2>5. CASE o.cmd.gate \in Rewriting
    BY <1>1, <2>1, <2>2, <2>3, <2>5, RewritingEnds DEF Rewriting
  <2> QED BY <1>3, <2>4, <2>5
<1>4. CASE o.cmd.gate \in Remediating
  <2>1. RemediationProgress(o, content, records, found)
    BY <1>4 DEF AtWorkFrom, Progress, Deciding, Rewriting, Remediating
  <2>2. \/ ~o.failed /\ content = o.next /\ Recorded(o, records) /\ Receipted(o, found)
        \/ /\ o.failed /\ content = o.opened[1]
           /\ records = o.opened[2] /\ found = o.opened[3]
    BY <2>1, RemediationEnds
  <2> QED BY <1>1, <1>4, <2>2, OtherEnds
<1>5. o.cmd.gate \in Gates
  BY DEF AtWorkFrom, IsOperation, IsCommand
<1> QED BY <1>2, <1>3, <1>4, <1>5 DEF Gates, Deciding, Rewriting, Remediating

(* Words that are still to come to other commands are still to come. *)
LEMMA EndIsFresh ==
    ASSUME NEW o, NEW content, NEW records, NEW found,
           IsOperation(o), Planned(o), Fits(o), Progress(o, content, records, found),
           NEW body, body # 0, body # o.cmd.body,
           Fresh(body, o.opened[1], o.opened[2], o.opened[3])
    PROVE  Fresh(body, content, records, found)
<1> DEFINE old == o.opened[1]
<1>1. \A i \in DOMAIN old : old[i].body # body
  BY DEF Fresh
<1>2. ASSUME NEW i \in DOMAIN o.next PROVE o.next[i].body # body
  <2>1. CASE i \in DOMAIN old /\ o.next[i].body = old[i].body
    BY <1>1, <2>1
  <2>2. CASE i \in DOMAIN old /\ o.next[i].body # old[i].body
    <3>1. o.cmd.gate \in Rewriting /\ i \in o.cmd.ids
      BY <2>2 DEF Planned
    <3>2. o.next[i].body = o.cmd.body
      BY <2>2, <3>1 DEF Fits
    <3> QED BY <3>2
  <2>3. CASE i \notin DOMAIN old
    <3>1. o.cmd.gate = "draft"
      BY <2>3 DEF Fits, IsOperation, IsCommand, Gates, Deciding, Rewriting, Remediating
    <3>2. o.next[i].body = 0
      BY <2>3, <3>1 DEF Fits
    <3> QED BY <3>2
  <2> QED BY <2>1, <2>2, <2>3
<1>3. content \in {old, o.next}
  BY DEF Progress, DecisionProgress, ImportProgress, RemediationProgress
<1>4. /\ \A s \in records : s \in o.opened[2] \/ s.before = old
      /\ \A r \in found : r \in o.opened[3] \/ r.after = o.next
  BY ProgressFiles DEF Recorded, Receipted
<1> QED BY <1>1, <1>2, <1>3, <1>4 DEF Fresh

------------------------------------------------------------------------------
(* The steps of a gate *)

LEMMA SameFollows ==
    ASSUME NEW o, NEW q, Same(q, o)
    PROVE  /\ Fits(q) <=> Fits(o)
           /\ \A content, records, found, steps :
                Continues(q, content, records, found, steps)
                    <=> Continues(o, content, records, found, steps)
<1>1. Entered(q) = Entered(o)
  BY DEF Same, Entered
<1> QED BY <1>1 DEF Same, Fits, Continues

(* The files, when the ledger is written, when it is restored, and when a   *)
(* decision writes its receipt.                                            *)
LEMMA FilesAtStep ==
    ASSUME NEW o, NEW content, NEW records, NEW found, Progress(o, content, records, found)
    PROVE  /\ Head(o.todo) = "ledger" => content = o.opened[1] /\ records = o.opened[2]
           /\ Head(o.todo) = "restoreLedger" =>
                /\ records = o.opened[2] /\ content \in {o.opened[1], o.next}
                /\ o.cmd.gate \notin Deciding
           /\ Head(o.todo) = "receipt" /\ o.cmd.gate \in Deciding => content = o.opened[1]
<1>1. CASE o.cmd.gate \in Deciding
  <2>1. records = o.opened[2] /\ DecisionProgress(o, content, found)
    BY <1>1 DEF Progress, Deciding, Rewriting, Remediating
  <2> QED BY <2>1, Heads DEF DecisionProgress
<1>2. CASE o.cmd.gate \in Rewriting \cup {"draft"}
  <2>1. ImportProgress(o, content, records) /\ o.cmd.gate \notin Deciding
    BY <1>2 DEF Progress, Deciding, Rewriting, Remediating
  <2> QED BY <2>1, Heads DEF ImportProgress
<1>3. CASE o.cmd.gate \in Remediating
  <2>1. RemediationProgress(o, content, records, found) /\ o.cmd.gate \notin Deciding
    BY <1>3 DEF Progress, Deciding, Rewriting, Remediating
  <2> QED BY <2>1, Heads DEF RemediationProgress
<1> QED BY <1>1, <1>2, <1>3 DEF Progress

LEMMA LedgerContinues ==
    ASSUME NEW o, NEW records, NEW found, NEW steps, records = o.opened[2],
           Continues(o, o.opened[1], records, found, steps),
           NEW later,
           later = IF o.next = o.opened[1] THEN steps ELSE Append(steps, Entered(o))
    PROVE  Continues(o, o.next, records, found, later)
<1>1. PICK before \in Seq(Entry) :
            /\ Followable(o.opened[1], o.opened[2], o.opened[3], before)
            /\ steps = before
            /\ o.cmd.gate \in Deciding => \A r \in found \ o.opened[3] : r.at = Len(before)
  BY DEF Continues
<1>2. later = IF o.next = o.opened[1] THEN before ELSE Append(before, Entered(o))
  BY <1>1
<1>3. \A s \in records \ o.opened[2] : s.at = Len(later)
  OBVIOUS
<1> QED BY <1>1, <1>2, <1>3 DEF Continues

LEMMA RecordContinues ==
    ASSUME NEW o, NEW content, NEW records, NEW found, NEW steps,
           Continues(o, content, records, found, steps), NEW s, s.at = Len(steps)
    PROVE  Continues(o, content, records \cup {s}, found, steps)
BY DEF Continues

LEMMA ReceiptContinues ==
    ASSUME NEW o, NEW content, NEW records, NEW found, NEW steps,
           Continues(o, content, records, found, steps), NEW r, r.at = Len(steps),
           o.cmd.gate \in Deciding => content = o.opened[1]
    PROVE  Continues(o, content, records, found \cup {r}, steps)
BY DEF Continues

LEMMA DropContinues ==
    ASSUME NEW o, NEW content, NEW records, NEW found, NEW steps,
           Continues(o, content, records, found, steps),
           NEW fewer, NEW less, fewer \subseteq records, less \subseteq found
    PROVE  Continues(o, content, fewer, less, steps)
BY DEF Continues

LEMMA RestoreContinues ==
    ASSUME NEW o, NEW content, NEW records, NEW found, NEW steps,
           Continues(o, content, records, found, steps), records = o.opened[2],
           o.cmd.gate \notin Deciding, Entered(o) \in Entry,
           NEW earlier,
           earlier = IF content = o.opened[1] THEN steps ELSE SubSeq(steps, 1, Len(steps) - 1)
    PROVE  Continues(o, o.opened[1], records, found, earlier)
<1> DEFINE e == Entered(o)
<1>1. PICK before \in Seq(Entry) :
            /\ Followable(o.opened[1], o.opened[2], o.opened[3], before)
            /\ steps = IF content = o.opened[1] THEN before ELSE Append(before, e)
  BY DEF Continues
<1> HIDE DEF e
<1>2. \A x \in Entry : SubSeq(Append(before, x), 1, Len(Append(before, x)) - 1) = before
  OBVIOUS
<1>3. earlier = before
  BY <1>1, <1>2 DEF e
<1>4. \A s \in records \ o.opened[2] : s.at = Len(earlier)
  OBVIOUS
<1> QED BY <1>1, <1>3, <1>4 DEF Continues

(* What is asked for, and the words to come, when one process goes on with  *)
(* its command or ends it.                                                 *)
LEMMA WantedStay ==
    ASSUME WantedApart, NEW p \in Procs, op = [r \in Procs |-> op[r]], NEW q,
           op' = [op EXCEPT ![p] = q], UNCHANGED commands,
           q # Idle => op[p] # Idle /\ q.cmd.body = op[p].cmd.body /\ Wanted(q.cmd, commands)
    PROVE  WantedApart' /\ Coming' \subseteq Coming
<1>1. op'[p] = q /\ \A r \in Procs \ {p} : op'[r] = op[r]
  OBVIOUS
<1>2. ASSUME NEW r \in Procs, op'[r] # Idle
      PROVE  /\ op[r] # Idle /\ op'[r].cmd.body = op[r].cmd.body
             /\ Wanted(op'[r].cmd, commands)
  BY <1>1, <1>2 DEF WantedApart
<1>3. \A r, s \in Procs :
        op'[r] # Idle /\ op'[s] # Idle /\ op'[r].cmd.body = op'[s].cmd.body => r = s
  BY <1>2 DEF WantedApart
<1>4. WantedApart'
  BY <1>2, <1>3 DEF WantedApart
<1>5. Coming' \subseteq Coming
  BY <1>2 DEF Coming
<1> QED BY <1>4, <1>5

LEMMA FreshStays ==
    ASSUME NEW bodies, NEW fewer, fewer \subseteq bodies, NEW content, NEW records, NEW found,
           AllFresh(bodies, content, records, found)
    PROVE  AllFresh(fewer, content, records, found)
BY DEF AllFresh

(* What the invariant says of a gate at work. *)
LEMMA ChainAtWork ==
    ASSUME IInv, ChainInv, crashes = 0, NEW p \in Procs, Working(op[p])
    PROVE  /\ WantedApart /\ Wanted(op[p].cmd, commands) /\ Fits(op[p])
           /\ AllFresh(Coming, op[p].opened[1], op[p].opened[2], op[p].opened[3])
           /\ Continues(op[p], ledger, submissions, receipts, trail)
           /\ IsOperation(op[p]) /\ op = [r \in Procs |-> op[r]]
           /\ \A r \in Procs \ {p} : ~Working(op[r])
<1>1. IsOperation(op[p]) /\ op[p].opened # <<>> /\ op[p] # Idle /\ op = [r \in Procs |-> op[r]]
  BY DEF IInv, Sections, Working
<1>2. ~Outside(op[p])
  BY <1>1, ProgressIsInside
<1>3. inside[p] # {}
  BY <1>2, InSection DEF IInv
<1>4. \A r \in Procs \ {p} : ~Working(op[r])
  BY <1>3, OthersWait DEF IInv
<1> QED BY <1>1, <1>4 DEF ChainInv, WantedApart

(* A step of a gate at work. *)
LEMMA ChainStep ==
    ASSUME IInv, ChainInv, UNCHANGED <<commands, crashes>>, NEW p \in Procs, Working(op[p]),
           NEW x, NEW n, NEW failed, op' = [op EXCEPT ![p] = With(op[p], x, n, failed)],
           crashes = 0 => Continues(op[p], ledger', submissions', receipts', trail')
    PROVE  ChainInv'
<1> DEFINE o == op[p]
           q == With(o, x, n, failed)
<1> SUFFICES ASSUME crashes' = 0 PROVE ChainInv'
  BY DEF ChainInv
<1>1. /\ WantedApart /\ Wanted(o.cmd, commands) /\ Fits(o)
      /\ AllFresh(Coming, o.opened[1], o.opened[2], o.opened[3])
      /\ IsOperation(o) /\ op = [r \in Procs |-> op[r]]
      /\ \A r \in Procs \ {p} : ~Working(op[r])
      /\ Continues(o, ledger', submissions', receipts', trail')
  BY ChainAtWork
<1>2. Same(q, o)
  BY WithIsSame
<1>3. q # Idle /\ o # Idle /\ Working(q)
  <2>1. o # Idle /\ o.opened # <<>>
    BY DEF Working
  <2>2. q # Idle /\ q.opened = o.opened
    BY DEF With, Idle
  <2> QED BY <2>1, <2>2 DEF Working
<1> HIDE DEF q
<1>4. op' = [op EXCEPT ![p] = q] /\ o = op[p]
  BY DEF q
<1> HIDE DEF o
<1>5. op'[p] = q /\ \A r \in Procs \ {p} : op'[r] = op[r]
  BY <1>1, <1>4
<1>6. WantedApart' /\ Coming' \subseteq Coming
  <2>1. q.cmd = o.cmd
    BY <1>2 DEF Same
  <2> QED BY <1>1, <1>3, <1>4, <2>1, WantedStay
<1>7. ~Settled'
  BY <1>3, <1>5 DEF Settled
<1>8. Fits(q) /\ Continues(q, ledger', submissions', receipts', trail')
  BY <1>1, <1>2, SameFollows
<1>9. AllFresh(Coming', q.opened[1], q.opened[2], q.opened[3])
  BY <1>1, <1>2, <1>6, FreshStays DEF Same
<1>10. \A r \in Procs : Working(op'[r]) =>
        /\ Fits(op'[r])
        /\ AllFresh(Coming', op'[r].opened[1], op'[r].opened[2], op'[r].opened[3])
        /\ Continues(op'[r], ledger', submissions', receipts', trail')
  BY <1>1, <1>5, <1>8, <1>9
<1> QED BY <1>6, <1>7, <1>10 DEF ChainInv, Settled, Working

(* A step of a gate that goes on with what it has to do. *)
LEMMA ChainAdvances ==
    ASSUME IInv, ChainInv, UNCHANGED <<commands, crashes>>, NEW p \in Procs, op[p] # Idle,
           Head(op[p].todo) \notin {"enter", "prepare", "leave"}, Advance(p),
           crashes = 0 => Continues(op[p], ledger', submissions', receipts', trail')
    PROVE  ChainInv'
<1> DEFINE x == Tail(op[p].todo)
<1>1. Working(op[p]) /\ IsOperation(op[p]) /\ op = [r \in Procs |-> op[r]]
  BY AtStep
<1>2. op' = [op EXCEPT ![p] = With(op[p], x, op[p].ord, op[p].failed)]
  BY <1>1, AdvanceIsWith
<1> HIDE DEF x
<1> QED BY <1>1, <1>2, ChainStep

LEMMA ChainWrites ==
    ASSUME IInv, ChainInv, NEW p \in Procs,
           \/ WriteLedger(p) \/ RestoreLedger(p) \/ WriteRecord(p) \/ WriteReceipt(p)
           \/ Reread(p) \/ DropReceipt(p) \/ DropRecord(p)
    PROVE  ChainInv'
<1> DEFINE o == op[p]
<1>1. /\ o # Idle /\ Advance(p) /\ UNCHANGED <<commands, crashes>>
      /\ Head(o.todo) \notin {"enter", "prepare", "leave"}
  BY DEF WriteLedger, RestoreLedger, WriteRecord, WriteReceipt, Reread, DropReceipt,
     DropRecord, At
<1> SUFFICES ASSUME crashes = 0
             PROVE  Continues(o, ledger', submissions', receipts', trail')
  BY <1>1, ChainAdvances
<1>2. /\ Working(o) /\ IsOperation(o) /\ Planned(o)
      /\ Progress(o, ledger, submissions, receipts)
  BY <1>1, AtStep
<1>3. Continues(o, ledger, submissions, receipts, trail)
  BY <1>2, ChainAtWork
<1>4. CASE WriteLedger(p)
  <2>1. ledger = o.opened[1] /\ submissions = o.opened[2]
    BY <1>2, <1>4, FilesAtStep DEF WriteLedger, At
  <2>2. /\ ledger' = o.next /\ UNCHANGED <<submissions, receipts>>
        /\ trail' = IF o.next = o.opened[1] THEN trail ELSE Append(trail, Entered(o))
    BY <1>4 DEF WriteLedger, Entered
  <2> HIDE DEF o
  <2>3. Continues(o, o.next, submissions, receipts, trail')
    BY <1>3, <2>1, <2>2, LedgerContinues
  <2> QED BY <2>2, <2>3
<1>5. CASE RestoreLedger(p)
  <2>1. submissions = o.opened[2] /\ o.cmd.gate \notin Deciding
    BY <1>2, <1>5, FilesAtStep DEF RestoreLedger, At
  <2>2. /\ ledger' = o.opened[1] /\ UNCHANGED <<submissions, receipts>>
        /\ trail' = IF ledger = o.opened[1] THEN trail ELSE SubSeq(trail, 1, Len(trail) - 1)
    BY <1>5 DEF RestoreLedger
  <2>3. Entered(o) \in Entry
    BY <1>2, EnteredIsEntry
  <2> HIDE DEF o
  <2>4. Continues(o, o.opened[1], submissions, receipts, trail')
    BY <1>3, <2>1, <2>2, <2>3, RestoreContinues
  <2> QED BY <2>2, <2>4
<1>6. CASE WriteRecord(p)
  <2> DEFINE s == [ord |-> o.ord, gate |-> o.cmd.gate, unit |-> o.cmd.unit, ids |-> o.cmd.ids,
                   before |-> o.opened[1], after |-> o.next, superseded |-> Superseded(o),
                   target |-> o.cmd.target, at |-> Len(trail)]
  <2>1. submissions' = submissions \cup {s} /\ s.at = Len(trail)
    BY <1>6 DEF WriteRecord
  <2> HIDE DEF s
  <2>2. UNCHANGED <<ledger, receipts, trail>>
    BY <1>6 DEF WriteRecord, history
  <2>3. Continues(o, ledger, submissions \cup {s}, receipts, trail)
    BY <1>3, <2>1, RecordContinues
  <2> QED BY <2>1, <2>2, <2>3
<1>7. CASE WriteReceipt(p)
  <2> DEFINE r == [name |-> ReceiptName(o.cmd, o.opened[1]), gate |-> o.cmd.gate,
                   ids |-> o.cmd.ids, decision |-> o.cmd.decision, before |-> o.opened[1],
                   after |-> o.next, target |-> o.cmd.target, at |-> Len(trail)]
  <2>1. receipts' = receipts \cup {r} /\ r.at = Len(trail)
    BY <1>7 DEF WriteReceipt
  <2> HIDE DEF r
  <2>2. UNCHANGED <<ledger, submissions, trail>>
    BY <1>7 DEF WriteReceipt, history
  <2>3. o.cmd.gate \in Deciding => ledger = o.opened[1]
    BY <1>2, <1>7, FilesAtStep DEF WriteReceipt, At
  <2>4. Continues(o, ledger, submissions, receipts \cup {r}, trail)
    BY <1>3, <2>1, <2>3, ReceiptContinues
  <2> QED BY <2>1, <2>2, <2>4
<1>8. CASE Reread(p)
  <2>1. UNCHANGED <<ledger, submissions, receipts, trail>>
    BY <1>8 DEF Reread, files, history
  <2> QED BY <1>3, <2>1
<1>9. CASE DropReceipt(p) \/ DropRecord(p)
  <2>1. /\ submissions' \subseteq submissions /\ receipts' \subseteq receipts
        /\ UNCHANGED <<ledger, trail>>
    BY <1>9 DEF DropReceipt, DropRecord, history
  <2>2. Continues(o, ledger, submissions', receipts', trail)
    BY <1>3, <2>1, DropContinues
  <2> QED BY <2>1, <2>2
<1> QED BY <1>4, <1>5, <1>6, <1>7, <1>8, <1>9

LEMMA ChainNumbered ==
    ASSUME IInv, ChainInv, NEW p \in Procs, TakeNumber(p) PROVE ChainInv'
<1> DEFINE o == op[p]
           x == Tail(o.todo)
<1>1. /\ Working(o) /\ IsOperation(o) /\ op = [r \in Procs |-> op[r]]
      /\ UNCHANGED <<commands, crashes, ledger, submissions, receipts, trail>>
  BY AtStep DEF TakeNumber, At, files, history
<1>2. PICK n \in 1..(Cardinality(submissions) + MaxCommands) :
            op' = [op EXCEPT ![p].todo = x, ![p].ord = n]
  BY DEF TakeNumber
<1> HIDE DEF x
<1>3. op' = [op EXCEPT ![p] = With(o, x, n, o.failed)]
  BY <1>1, <1>2, NumberIsWith, Zenon
<1>4. crashes = 0 => Continues(o, ledger', submissions', receipts', trail')
  BY <1>1, ChainAtWork
<1> QED BY <1>1, <1>3, <1>4, ChainStep

LEMMA ChainFailed ==
    ASSUME IInv, ChainInv, NEW p \in Procs, Fail(p) PROVE ChainInv'
<1> DEFINE o == op[p]
           x == Undo(o.cmd.gate, Head(o.todo))
<1>1. /\ Working(o) /\ IsOperation(o) /\ op = [r \in Procs |-> op[r]]
      /\ UNCHANGED <<commands, crashes, ledger, submissions, receipts, trail>>
  BY AtStep DEF Fail, files, history
<1>2. op' = [op EXCEPT ![p].failed = TRUE, ![p].todo = x]
  BY DEF Fail
<1> HIDE DEF x
<1>3. op' = [op EXCEPT ![p] = With(o, x, o.ord, TRUE)]
  BY <1>1, <1>2, FailureIsWith, Zenon
<1>4. crashes = 0 => Continues(o, ledger', submissions', receipts', trail')
  BY <1>1, ChainAtWork
<1> QED BY <1>1, <1>3, <1>4, ChainStep

(* A step of a gate that is not at work and leaves the files alone. *)
LEMMA ChainAside ==
    ASSUME IInv, ChainInv, UNCHANGED <<files, crashes, trail>>, NEW p \in Procs, NEW q,
           ~Working(op[p]), ~Working(q), op' = [op EXCEPT ![p] = q],
           crashes = 0 => WantedApart' /\ Coming' \subseteq Coming
    PROVE  ChainInv'
<1> SUFFICES ASSUME crashes' = 0 PROVE ChainInv'
  BY DEF ChainInv
<1>1. /\ UNCHANGED <<ledger, submissions, receipts, trail>> /\ crashes = 0
      /\ op = [r \in Procs |-> op[r]]
  BY DEF files, IInv, Sections
<1>2. op'[p] = q /\ \A r \in Procs \ {p} : op'[r] = op[r]
  BY <1>1
<1>3. Settled' => Settled
  BY <1>2 DEF Settled
<1>4. Settled' => /\ Followable(ledger', submissions', receipts', trail')
                  /\ AllFresh(Coming', ledger', submissions', receipts')
  BY <1>1, <1>3, FreshStays DEF ChainInv
<1>5. \A r \in Procs : Working(op'[r]) => r \in Procs \ {p} /\ Working(op[r]) /\ op'[r] = op[r]
  BY <1>2
<1>6. \A r \in Procs : Working(op'[r]) =>
        /\ Fits(op'[r])
        /\ AllFresh(Coming', op'[r].opened[1], op'[r].opened[2], op'[r].opened[3])
        /\ Continues(op'[r], ledger', submissions', receipts', trail')
  BY <1>1, <1>5, FreshStays DEF ChainInv
<1>7. WantedApart'
  BY <1>1
<1> QED BY <1>4, <1>6, <1>7 DEF ChainInv, Settled, Working

------------------------------------------------------------------------------
(* The preview *)

(* What a command would do to the ledger, as Fits has it. *)
LEMMA ProspectiveDecides ==
    ASSUME NEW c, c.gate \in Deciding
    PROVE  /\ AppliedIds(c) = c.ids /\ DOMAIN Prospective(c) = DOMAIN ledger
           /\ \A i \in DOMAIN ledger :
                Prospective(c)[i] = IF i \in c.ids THEN [ledger[i] EXCEPT !.status = c.decision]
                                    ELSE ledger[i]
<1> DEFINE f == [i \in DOMAIN ledger |->
                    IF i \in c.ids THEN [ledger[i] EXCEPT !.status = c.decision]
                    ELSE ledger[i]]
<1>1. Prospective(c) = Decided(c)
  BY DEF Prospective, Rewriting, Deciding
<1>2. Decided(c) = f
  BY DEF Decided, Changed
<1>3. AppliedIds(c) = c.ids
  BY DEF AppliedIds, Deciding
<1> QED BY <1>1, <1>2, <1>3

LEMMA ProspectiveRewords ==
    ASSUME ledger \in Seq(Block), NEW c, c.gate \in Rewriting
    PROVE  /\ AppliedIds(c) = c.ids /\ DOMAIN Prospective(c) = DOMAIN ledger
           /\ \A i \in DOMAIN ledger : IF i \in c.ids THEN Prospective(c)[i].body = c.body
                                       ELSE Prospective(c)[i] = ledger[i]
<1> DEFINE f == [i \in DOMAIN ledger |->
                    IF i \in c.ids
                    THEN [ledger[i] EXCEPT !.body = c.body, !.status = "unreviewed"]
                    ELSE ledger[i]]
<1>1. Prospective(c) = Revised(c)
  BY DEF Prospective, Rewriting
<1>2. Revised(c) = f
  BY DEF Revised, Changed
<1>3. AppliedIds(c) = c.ids
  BY DEF AppliedIds, Rewriting
<1>4. ASSUME NEW i \in DOMAIN ledger
      PROVE  IF i \in c.ids THEN f[i].body = c.body ELSE f[i] = ledger[i]
  <2>1. ledger[i] \in Block
    OBVIOUS
  <2> QED BY <2>1 DEF Block
<1>5. DOMAIN f = DOMAIN ledger
  OBVIOUS
<1> HIDE DEF f
<1> QED BY <1>1, <1>2, <1>3, <1>4, <1>5

LEMMA ProspectiveRemedies ==
    ASSUME ledger \in Seq(Block), NEW c, IsCommand(c), c.gate \in Remediating
    PROVE  /\ DOMAIN Prospective(c) = DOMAIN ledger
           /\ \A i \in DOMAIN ledger : Prospective(c)[i].status = "unreviewed"
                => ledger[i].status = "unreviewed"
<1>1. \A i \in DOMAIN ledger : ledger[i] \in Block
  OBVIOUS
<1>2. CASE c.gate = "reanchor"
  <2> DEFINE f == [i \in DOMAIN ledger |->
                    IF i \in c.ids THEN [ledger[i] EXCEPT !.anchor = 1 - @] ELSE ledger[i]]
  <2>1. Prospective(c) = Reanchored(c)
    BY <1>2 DEF Prospective, Rewriting
  <2>2. Reanchored(c) = f
    BY DEF Reanchored, Changed
  <2>3. \A i \in DOMAIN ledger : f[i].status = ledger[i].status
    BY <1>1 DEF Block
  <2> QED BY <2>1, <2>2, <2>3
<1>3. CASE c.gate = "remove"
  <2> DEFINE f == [i \in DOMAIN ledger |->
                    IF i \in c.ids THEN [ledger[i] EXCEPT !.status = c.decision]
                    ELSE ledger[i]]
  <2>1. Prospective(c) = Decided(c)
    BY <1>3 DEF Prospective, Rewriting
  <2>2. Decided(c) = f
    BY DEF Decided, Changed
  <2>3. c.decision = "rejected"
    BY <1>3 DEF IsCommand
  <2>4. \A i \in DOMAIN ledger : i \in c.ids => f[i].status = "rejected"
    BY <1>1, <2>3 DEF Block
  <2> QED BY <2>1, <2>2, <2>4
<1> QED BY <1>2, <1>3 DEF Remediating

LEMMA ProspectiveImports ==
    ASSUME ledger \in Seq(Block), NEW c, c.gate = "draft"
    PROVE  /\ \A i \in DOMAIN ledger : Prospective(c)[i] = ledger[i]
           /\ \A i \in DOMAIN Prospective(c) : i \in DOMAIN ledger \/ Prospective(c)[i].body = 0
<1>1. Prospective(c) = WithDraft(c.unit)
  BY DEF Prospective, Rewriting
<1>2. CASE Imported(c.unit)
  BY <1>1, <1>2 DEF WithDraft
<1>3. CASE ~Imported(c.unit)
  <2> DEFINE b == [unit |-> c.unit, body |-> 0, anchor |-> 0, status |-> "unreviewed"]
             new == [k \in 1..Size |-> b]
             next == ledger \o new
  <2>1. b.body = 0
    OBVIOUS
  <2> HIDE DEF b
  <2>2. Size \in Nat /\ new \in Seq({b}) /\ Len(new) = Size /\ \A k \in 1..Size : new[k] = b
    BY GateAssumption
  <2>3. WithDraft(c.unit) = next
    BY <1>3 DEF WithDraft, new, b
  <2> HIDE DEF new
  <2>4. /\ DOMAIN next = 1..(Len(ledger) + Size) /\ DOMAIN ledger = 1..Len(ledger)
        /\ \A i \in 1..Len(ledger) : next[i] = ledger[i]
    BY <2>2
  <2>5. \A i \in 1..(Len(ledger) + Size) : i > Len(ledger) => next[i] = b
    BY <2>2
  <2> HIDE DEF next
  <2>6. \A i \in DOMAIN next : i \in DOMAIN ledger \/ next[i] = b
    BY <2>2, <2>4, <2>5
  <2> QED BY <1>1, <2>1, <2>3, <2>4, <2>6
<1> QED BY <1>2, <1>3

LEMMA PreviewedFits ==
    ASSUME ledger \in Seq(Block), NEW o, IsOperation(o), Accepts(o.cmd)
    PROVE  Fits(Previewed(o))
<1> DEFINE q == Previewed(o)
           c == o.cmd
<1>1. /\ q.next = Prospective(c) /\ q.opened[1] = ledger
      /\ q.cmd = [c EXCEPT !.ids = AppliedIds(c)]
  BY DEF Previewed, files
<1>2. IsCommand(c)
  BY DEF IsOperation
<1> HIDE DEF q
<1> HIDE DEF c
<1>3. /\ q.cmd.gate = c.gate /\ q.cmd.decision = c.decision /\ q.cmd.body = c.body
      /\ q.cmd.ids = AppliedIds(c)
  BY <1>1, <1>2 DEF IsCommand
<1>4. c.gate \in Deciding =>
        /\ DOMAIN q.next = DOMAIN ledger
        /\ \A i \in DOMAIN ledger :
            q.next[i] = IF i \in q.cmd.ids THEN [ledger[i] EXCEPT !.status = c.decision]
                        ELSE ledger[i]
  BY <1>1, <1>3, ProspectiveDecides
<1>5. c.gate \in {"review", "acceptance"} => \A i \in q.cmd.ids : ledger[i].status = "unreviewed"
  <2> SUFFICES ASSUME c.gate \in {"review", "acceptance"}
               PROVE  \A i \in c.ids : ledger[i].status = "unreviewed"
    BY <1>3 DEF AppliedIds
  <2>1. Accepts(c)
    BY DEF c
  <2>2. AcceptsDecision(c)
    BY <2>1 DEF Accepts, Deciding
  <2> QED BY <2>2 DEF AcceptsDecision, AcceptsPart, StatusesAre
<1>6. c.gate \in Rewriting =>
        /\ DOMAIN q.next = DOMAIN ledger
        /\ \A i \in DOMAIN ledger :
            IF i \in q.cmd.ids THEN q.next[i].body = c.body ELSE q.next[i] = ledger[i]
  BY <1>1, <1>3, ProspectiveRewords
<1>7. c.gate \in Remediating =>
        /\ DOMAIN q.next = DOMAIN ledger
        /\ \A i \in DOMAIN ledger :
            q.next[i].status = "unreviewed" => ledger[i].status = "unreviewed"
  BY <1>1, <1>2, ProspectiveRemedies
<1>8. c.gate = "draft" =>
        /\ \A i \in DOMAIN ledger : q.next[i] = ledger[i]
        /\ \A i \in DOMAIN q.next : i \in DOMAIN ledger \/ q.next[i].body = 0
  BY <1>1, ProspectiveImports
<1> QED BY <1>1, <1>3, <1>4, <1>5, <1>6, <1>7, <1>8 DEF Fits, q

------------------------------------------------------------------------------
(* The steps outside of the work *)

LEMMA CommandIsWanted ==
    ASSUME commands \in Nat, NEW gate, NEW unit, NEW ids, NEW decision, NEW target,
           gate = "draft" \/ ids # {}, gate \in Deciding => decision # "unreviewed",
           NEW review, NEW c,
           c = Command(gate, unit, ids, decision, target) \/
           c = [Command(gate, unit, ids, decision, target) EXCEPT !.review = review]
    PROVE  Wanted(c, commands + 1) /\ c.body = commands + 1
<1>1. c.gate = gate /\ c.ids = ids /\ c.decision = decision /\ c.body = commands + 1
  BY DEF Command
<1>2. commands + 1 \in 1..(commands + 1)
  OBVIOUS
<1> QED BY <1>1, <1>2 DEF Wanted

LEMMA ChainBegins ==
    ASSUME IInv, ChainInv, NEW p \in Procs, NEW c, Begin(p, c),
           Wanted(c, commands + 1), c.body = commands + 1
    PROVE  ChainInv'
<1> DEFINE q == [cmd |-> c, todo |-> <<"enter", "prepare">>, ord |-> 0,
                 next |-> <<>>, opened |-> <<>>, failed |-> FALSE]
<1>1. /\ op[p] = Idle /\ op' = [op EXCEPT ![p] = q] /\ commands' = commands + 1
      /\ UNCHANGED <<files, crashes, trail>>
      /\ op = [r \in Procs |-> op[r]] /\ commands \in Nat
  BY GateAssumption DEF Begin, history, IInv, Sections, TypeOK
<1>2. q # Idle /\ q.cmd = c /\ ~Working(q) /\ ~Working(op[p])
  BY <1>1 DEF Idle, Working
<1> HIDE DEF q
<1>3. op'[p] = q /\ \A r \in Procs \ {p} : op'[r] = op[r]
  BY <1>1
<1>4. ASSUME crashes = 0 PROVE WantedApart' /\ Coming' \subseteq Coming
  <2>1. \A r \in Procs \ {p} : op'[r] # Idle =>
            op[r] # Idle /\ op'[r] = op[r] /\ Wanted(op[r].cmd, commands)
    BY <1>3, <1>4 DEF ChainInv, WantedApart
  <2>2. \A r \in Procs \ {p} : op'[r] # Idle =>
            /\ Wanted(op'[r].cmd, commands + 1) /\ op'[r].cmd.body # commands + 1
            /\ op'[r].cmd.body = op[r].cmd.body /\ op[r] # Idle
    BY <1>1, <2>1 DEF Wanted
  <2>3. \A r \in Procs : op'[r] # Idle => Wanted(op'[r].cmd, commands')
    BY <1>1, <1>2, <1>3, <2>2
  <2>4. ASSUME NEW r \in Procs, NEW s \in Procs, op'[r] # Idle, op'[s] # Idle,
               op'[r].cmd.body = op'[s].cmd.body
        PROVE  r = s
    <3>1. CASE r = p
      BY <1>2, <1>3, <2>2, <2>4, <3>1
    <3>2. CASE s = p
      BY <1>2, <1>3, <2>2, <2>4, <3>2
    <3>3. CASE r # p /\ s # p
      BY <1>4, <2>2, <2>4, <3>3 DEF ChainInv, WantedApart
    <3> QED BY <3>1, <3>2, <3>3
  <2>5. WantedApart'
    BY <2>3, <2>4 DEF WantedApart
  <2>6. ASSUME NEW body \in Coming' PROVE body \in Coming
    <3>1. CASE body \in Nat /\ body > commands'
      BY <1>1, <3>1 DEF Coming
    <3>2. ASSUME NEW r \in Procs, op'[r] # Idle, body = op'[r].cmd.body PROVE body \in Coming
      <4>1. CASE r = p
        BY <1>1, <1>2, <1>3, <3>2, <4>1 DEF Coming
      <4>2. CASE r # p
        BY <2>2, <3>2, <4>2 DEF Coming
      <4> QED BY <4>1, <4>2
    <3> QED BY <3>1, <3>2 DEF Coming
  <2> QED BY <2>5, <2>6
<1> QED BY <1>1, <1>2, <1>4, ChainAside

LEMMA ChainStarts ==
    ASSUME IInv, ChainInv, NEW p \in Procs, Start(p) PROVE ChainInv'
<1> SUFFICES ASSUME NEW c, Begin(p, c),
                    commands \in Nat => Wanted(c, commands + 1) /\ c.body = commands + 1
             PROVE  ChainInv'
  <2>1. ASSUME NEW d \in Drafts, Begin(p, Command("draft", d, {}, "unreviewed", 0))
        PROVE  ChainInv'
    BY <2>1, CommandIsWanted DEF Deciding
  <2>2. ASSUME NEW ids \in NonEmpty, NEW gate \in {"rewrite", "repair", "reanchor"},
               Begin(p, Command(gate, "none", ids, "unreviewed", 0))
        PROVE  ChainInv'
    <3>1. ids # {} /\ gate \notin Deciding
      BY DEF NonEmpty, Deciding
    <3> QED BY <2>2, <3>1, CommandIsWanted
  <2>3. ASSUME NEW ids \in NonEmpty, NEW gate, NEW decision \in {"accepted", "rejected"},
               NEW target, Begin(p, Command(gate, "none", ids, decision, target))
        PROVE  ChainInv'
    <3>1. ids # {} /\ decision # "unreviewed"
      BY DEF NonEmpty
    <3> QED BY <2>3, <3>1, CommandIsWanted
  <2>4. ASSUME NEW ids \in NonEmpty, NEW s \in submissions, NEW r \in receipts,
               Begin(p, [Command("mend", "none", ids, "unreviewed", s.ord)
                            EXCEPT !.review = r.name])
        PROVE  ChainInv'
    <3>1. ids # {} /\ "mend" \notin Deciding
      BY DEF NonEmpty, Deciding
    <3> QED BY <2>4, <3>1, CommandIsWanted
  <2> QED BY <2>1, <2>2, <2>3, <2>4 DEF Start
<1>1. commands \in Nat
  BY GateAssumption DEF IInv, TypeOK
<1> QED BY <1>1, ChainBegins

LEMMA ChainEnters ==
    ASSUME IInv, ChainInv, NEW p \in Procs, Enter(p) PROVE ChainInv'
<1> DEFINE o == op[p]
           q == With(o, Tail(o.todo), o.ord, o.failed)
<1>1. o # Idle /\ Head(o.todo) = "enter"
  BY DEF Enter, At
<1>2. IsOperation(o) /\ o.opened = <<>> /\ op = [r \in Procs |-> op[r]]
  BY <1>1, BeforeWork DEF IInv, Sections
<1>3. op' = [op EXCEPT ![p] = q]
  BY <1>2, AdvanceIsWith DEF Enter
<1>4. q.cmd = o.cmd /\ ~Working(q) /\ ~Working(o)
  BY <1>2 DEF With, Working
<1> HIDE DEF q
<1>5. UNCHANGED <<files, commands, crashes, trail>>
  BY DEF Enter, history
<1>6. crashes = 0 => WantedApart' /\ Coming' \subseteq Coming
  BY <1>1, <1>2, <1>3, <1>4, <1>5, WantedStay DEF ChainInv, WantedApart
<1> QED BY <1>3, <1>4, <1>5, <1>6, ChainAside

LEMMA ChainPrepares ==
    ASSUME IInv, ChainInv, NEW p \in Procs, Prepare(p) PROVE ChainInv'
<1> DEFINE o == op[p]
<1>1. o # Idle /\ Head(o.todo) = "prepare"
  BY DEF Prepare, At
<1>2. /\ IsOperation(o) /\ o.opened = <<>> /\ o.todo = <<"prepare">>
      /\ op = [r \in Procs |-> op[r]] /\ ledger \in Seq(Block)
      /\ UNCHANGED <<files, commands, crashes, trail>>
      /\ UNCHANGED <<ledger, submissions, receipts>>
  BY <1>1, BeforeWork DEF Prepare, IInv, Sections, TypeOK, history, files
<1>3. ~Working(o)
  BY <1>2 DEF Working
<1>4. CASE Accepts(o.cmd)
  <2> DEFINE q == Previewed(o)
  <2>1. op' = [op EXCEPT ![p] = q]
    <3>1. op' = [op EXCEPT ![p] = [o EXCEPT !.todo = Plan(o.cmd.gate), !.opened = files,
                    !.next = Prospective(o.cmd), !.cmd.ids = AppliedIds(o.cmd)]]
      BY <1>4 DEF Prepare
    <3>2. [o EXCEPT !.todo = Plan(o.cmd.gate), !.opened = files,
                    !.next = Prospective(o.cmd), !.cmd.ids = AppliedIds(o.cmd)] = q
      BY <1>2, PreviewedIsExcept, Zenon
    <3> QED BY <3>1, <3>2
  <2>2. Working(q) /\ q.opened = <<ledger, submissions, receipts>>
    BY <1>2, <1>4, PreviewedIsPlanned
  <2>3. Fits(q)
    BY <1>2, <1>4, PreviewedFits
  <2>4. q.cmd = [o.cmd EXCEPT !.ids = AppliedIds(o.cmd)]
    BY DEF Previewed
  <2> HIDE DEF q
  <2>5. /\ q.cmd.gate = o.cmd.gate /\ q.cmd.decision = o.cmd.decision
        /\ q.cmd.body = o.cmd.body
        /\ o.cmd.gate # "draft" => q.cmd.ids = o.cmd.ids
    BY <1>2, <2>4 DEF IsOperation, IsCommand, AppliedIds
  <2>6. /\ q.opened[1] = ledger /\ q.opened[2] = submissions /\ q.opened[3] = receipts
        /\ q # Idle
    BY <2>2 DEF Working
  <2>7. op'[p] = q /\ \A r \in Procs \ {p} : op'[r] = op[r]
    BY <1>2, <2>1
  <2> SUFFICES ASSUME crashes = 0 PROVE ChainInv'
    BY <1>2 DEF ChainInv
  <2>8. \A r \in Procs \ {p} : ~Working(op[r])
    <3>1. ~Outside(o)
      <4>1. <<"prepare">> # <<"enter", "prepare">>
        BY Heads
      <4> QED BY <1>1, <1>2, <4>1 DEF Outside
    <3> QED BY <3>1, InSection, OthersWait DEF IInv
  <2>9. /\ WantedApart /\ Followable(ledger, submissions, receipts, trail)
        /\ AllFresh(Coming, ledger, submissions, receipts)
    BY <1>3, <2>8 DEF ChainInv, Settled
  <2>10. Wanted(o.cmd, commands)
    BY <1>1, <2>9 DEF WantedApart
  <2>11. Wanted(q.cmd, commands)
    BY <2>5, <2>10 DEF Wanted
  <2>12. WantedApart' /\ Coming' \subseteq Coming
    BY <1>1, <1>2, <2>1, <2>5, <2>9, <2>11, WantedStay
  <2>13. AllFresh(Coming', q.opened[1], q.opened[2], q.opened[3])
    BY <2>6, <2>9, <2>12, FreshStays
  <2>14. Continues(q, ledger, submissions, receipts, trail)
    <3>1. trail \in Seq(Entry)
      BY <2>9 DEF Followable
    <3> QED BY <2>6, <2>9, <3>1 DEF Continues
  <2>15. ~Settled'
    BY <2>2, <2>7 DEF Settled
  <2>16. \A r \in Procs : Working(op'[r]) =>
        /\ Fits(op'[r])
        /\ AllFresh(Coming', op'[r].opened[1], op'[r].opened[2], op'[r].opened[3])
        /\ Continues(op'[r], ledger', submissions', receipts', trail')
    BY <1>2, <2>3, <2>7, <2>8, <2>13, <2>14
  <2> QED BY <2>12, <2>15, <2>16 DEF ChainInv, Settled, Working
<1>5. CASE ~Accepts(o.cmd)
  <2> DEFINE x == <<"leave">>
             q == With(o, x, o.ord, o.failed)
  <2>1. op' = [op EXCEPT ![p].todo = x]
    BY <1>5 DEF Prepare
  <2> HIDE DEF x
  <2>2. op' = [op EXCEPT ![p] = q]
    BY <1>2, <2>1, TodoIsWith, Zenon
  <2>3. q.cmd = o.cmd /\ ~Working(q)
    BY <1>2 DEF With, Working
  <2> HIDE DEF q
  <2>4. crashes = 0 => WantedApart' /\ Coming' \subseteq Coming
    BY <1>1, <1>2, <2>2, <2>3, WantedStay DEF ChainInv, WantedApart
  <2> QED BY <1>2, <1>3, <2>2, <2>3, <2>4, ChainAside
<1> QED BY <1>4, <1>5

LEMMA ChainLeaves ==
    ASSUME IInv, ChainInv, "rewrite" \notin Failing, NEW p \in Procs, Leave(p)
    PROVE  ChainInv'
<1> DEFINE o == op[p]
<1>1. /\ o # Idle /\ Head(o.todo) = "leave" /\ op' = [op EXCEPT ![p] = Idle]
      /\ UNCHANGED <<files, commands, crashes, trail>>
      /\ UNCHANGED <<ledger, submissions, receipts>>
      /\ op = [r \in Procs |-> op[r]] /\ ~Working(Idle)
  BY DEF Leave, At, history, files, IInv, Sections, Working
<1>2. crashes = 0 => WantedApart' /\ Coming' \subseteq Coming
  BY <1>1, WantedStay DEF ChainInv
<1>3. CASE ~Working(o)
  BY <1>1, <1>2, <1>3, ChainAside
<1>4. CASE Working(o) /\ crashes = 0
  <2>1. /\ WantedApart /\ Wanted(o.cmd, commands) /\ Fits(o)
        /\ AllFresh(Coming, o.opened[1], o.opened[2], o.opened[3])
        /\ Continues(o, ledger, submissions, receipts, trail)
        /\ IsOperation(o)
        /\ \A r \in Procs \ {p} : ~Working(op[r])
    BY <1>4, ChainAtWork
  <2>2. Planned(o) /\ Progress(o, ledger, submissions, receipts)
    BY <1>4 DEF IInv, WorkIsPlanned
  <2>3. o.todo = <<"leave">>
    BY <1>1, <2>2, ProgressHead
  <2>4. o.failed => o.cmd.gate # "rewrite"
    BY <2>1 DEF IsOperation
  <2>5. op'[p] = Idle /\ \A r \in Procs \ {p} : op'[r] = op[r]
    BY <1>1
  <2>6. o.cmd.body \in Nat \ {0} /\ o.cmd.body <= commands /\ commands \in Nat
    BY <2>1, GateAssumption DEF Wanted, IInv, TypeOK
  <2>7. o.cmd.body \in Coming
    BY <1>1 DEF Coming
  <2>8. ASSUME NEW body \in Coming' PROVE body \in Coming /\ body # o.cmd.body /\ body # 0
    <3>1. CASE body \in Nat /\ body > commands
      BY <1>2, <1>4, <2>6, <3>1
    <3>2. ASSUME NEW r \in Procs, op'[r] # Idle, body = op'[r].cmd.body
          PROVE  body # o.cmd.body /\ body # 0
      <4>1. r # p /\ op[r] # Idle /\ body = op[r].cmd.body
        BY <2>5, <3>2
      <4>2. body # o.cmd.body
        BY <1>1, <2>1, <4>1 DEF WantedApart
      <4>3. body \in 1..commands
        BY <2>1, <4>1 DEF WantedApart, Wanted
      <4> QED BY <2>6, <4>2, <4>3
    <3>3. body \in Coming
      BY <1>2, <1>4
    <3>4. (body \in Nat /\ body > commands) \/
          \E r \in Procs : op'[r] # Idle /\ body = op'[r].cmd.body
      BY <1>1 DEF Coming
    <3> QED BY <3>1, <3>2, <3>3, <3>4
  <2>9. Fresh(o.cmd.body, o.opened[1], o.opened[2], o.opened[3])
    BY <2>1, <2>7 DEF AllFresh
  <2>10. AllFresh(Coming', ledger, submissions, receipts)
    <3> SUFFICES ASSUME NEW body \in Coming' PROVE Fresh(body, ledger, submissions, receipts)
      BY DEF AllFresh
    <3>1. Fresh(body, o.opened[1], o.opened[2], o.opened[3])
      BY <2>1, <2>8 DEF AllFresh
    <3> QED BY <2>1, <2>2, <2>8, <3>1, EndIsFresh
  <2> HIDE DEF o
  <2>11. PICK before \in Seq(Entry) :
            /\ Followable(o.opened[1], o.opened[2], o.opened[3], before)
            /\ trail = IF ledger = o.opened[1] THEN before ELSE Append(before, Entered(o))
            /\ \A s \in submissions \ o.opened[2] : s.at = Len(trail)
            /\ o.cmd.gate \in Deciding =>
                \A r \in receipts \ o.opened[3] : r.at = Len(before)
    BY <2>1 DEF Continues
  <2>12. AtWorkFrom(o, ledger, submissions, receipts, trail, before)
    BY <2>1, <2>2, <2>9, <2>11 DEF AtWorkFrom, Wanted
  <2>13. Followable(ledger, submissions, receipts, trail)
    BY <2>3, <2>4, <2>12, EndIsFollowable
  <2>14. \A r \in Procs : ~Working(op'[r])
    BY <1>1, <2>1, <2>5
  <2> QED BY <1>1, <1>2, <1>4, <2>10, <2>13, <2>14 DEF ChainInv, Working
<1>5. CASE crashes # 0
  BY <1>1, <1>5 DEF ChainInv
<1> QED BY <1>3, <1>4, <1>5

LEMMA ChainKeeps ==
    ASSUME IInv, ChainInv, "rewrite" \notin Failing, [Next]_vars PROVE ChainInv'
<1>1. CASE UNCHANGED vars
  BY <1>1 DEF vars, files, history, ChainInv, WantedApart, Settled, Coming, Working
<1>2. ASSUME NEW p \in Procs, Die(p) PROVE ChainInv'
  <2>1. crashes \in Nat /\ crashes' = crashes + 1
    BY <1>2, GateAssumption DEF Die, IInv, TypeOK
  <2>2. crashes' # 0
    BY <2>1
  <2> QED BY <2>2 DEF ChainInv
<1>3. ASSUME NEW p \in Procs, Proceed(p) PROVE ChainInv'
  BY <1>3, ChainEnters, ChainPrepares, ChainLeaves, ChainWrites, ChainNumbered DEF Proceed
<1> QED BY <1>1, <1>2, <1>3, ChainStarts, ChainFailed DEF Next

------------------------------------------------------------------------------
(* The theorem *)

LEMMA ChainStarted ==
    ASSUME Init, StartsAreFollowable PROVE ChainInv
<1>1. PICK start \in Starts :
        /\ ledger = start.ledger /\ submissions = start.submissions
        /\ trail = start.trail /\ commands = start.commands
  BY DEF Init
<1>2. receipts = {} /\ \A p \in Procs : op[p] = Idle
  BY DEF Init
<1>3. Coming = {body \in Nat : body > commands}
  BY <1>2 DEF Coming
<1>4. /\ Followable(ledger, submissions, receipts, trail)
      /\ AllFresh(Coming, ledger, submissions, receipts)
  BY <1>1, <1>2, <1>3 DEF StartsAreFollowable
<1>5. WantedApart
  BY <1>2 DEF WantedApart
<1> QED BY <1>2, <1>4, <1>5 DEF ChainInv, Working

LEMMA ChainedIs ==
    ASSUME NEW now, NEW target, NEW ids
    PROVE  /\ Chained(now, target, ids) <=> Leads(now, target, Decisive(receipts, "review", ids))
           /\ Succeeded(now, target, ids) <=> Leads(now, target, Rewordings(submissions, ids))
           /\ AcceptedSince(target, ids)
                <=> Leads(ledger, target, Decisive(receipts, "acceptance", ids))
<1>1. {r \in Reviews : r.ids \cap ids = {}} =
        {r \in receipts : r.gate = "review" /\ r.ids \cap ids = {}}
  BY DEF Reviews
<1>2. Back({r \in Reviews : r.ids \cap ids = {}}) = Decisive(receipts, "review", ids)
  BY <1>1 DEF Decisive
<1> QED BY <1>2 DEF Chained, Succeeded, AcceptedSince, Decisive, Rewordings

LEMMA FollowableIsUnblocked ==
    ASSUME Followable(ledger, submissions, receipts, trail) PROVE NextStepIsNotBlocked
<1>1. /\ FromReviews(ledger, submissions, receipts, trail)
      /\ ToReview(submissions, receipts, trail)
      /\ FromAcceptances(ledger, receipts, trail)
      /\ Dated(submissions, receipts, trail)
      /\ trail \in Seq(Entry) /\ Len(trail) \in Nat /\ DOMAIN trail = 1..Len(trail)
  BY DEF Followable
<1>2. \A first, last, gates, ids :
        OnlyOthers(first, last, gates, ids) <=> Others(trail, first, last, gates, ids)
  BY DEF OnlyOthers, Others
<1>3. ASSUME NEW s \in submissions, s.gate \in Rewriting, NEW i \in s.ids,
             OnlyOthers(s.at + 1, Len(trail), {"review"}, {i})
      PROVE  Chained(ledger, s.after, {i})
  <2>1. Leads(ledger, s.after, Decisive(receipts, "review", {i}))
    BY <1>1, <1>2, <1>3 DEF FromReviews
  <2> QED BY <2>1, ChainedIs
<1>4. ASSUME NEW s \in submissions, s.gate \in Rewriting, NEW r \in receipts,
             r.gate = "review", r.ids = s.ids,
             OnlyOthers(s.at + 1, r.at, Rewriting, s.ids),
             OnlyOthers(r.at + 2, Len(trail), {"acceptance"}, s.ids)
      PROVE  Succeeded(s.after, r.before, s.ids) /\ AcceptedSince(r.after, s.ids)
  <2>1. /\ s.at \in DOMAIN trail /\ trail[s.at].gate \in Rewriting
        /\ r.at \in Nat /\ r.at + 1 \in DOMAIN trail /\ trail[r.at + 1].gate = "review"
    BY <1>1, <1>4 DEF Dated
  <2>2. s.at <= r.at
    <3> SUFFICES ASSUME ~(s.at <= r.at) PROVE FALSE
      OBVIOUS
    <3>1. s.at # r.at + 1
      BY <2>1 DEF Rewriting
    <3>2. s.at \in (r.at + 2)..Len(trail)
      BY <1>1, <2>1, <3>1
    <3>3. trail[s.at].gate = "acceptance"
      BY <1>4, <2>1, <3>2 DEF OnlyOthers
    <3> QED BY <2>1, <3>3 DEF Rewriting
  <2>3. Leads(s.after, r.before, Rewordings(submissions, s.ids))
    BY <1>1, <1>2, <1>4, <2>2 DEF ToReview
  <2>4. Leads(ledger, r.after, Decisive(receipts, "acceptance", s.ids))
    BY <1>1, <1>2, <1>4 DEF FromAcceptances
  <2> QED BY <2>3, <2>4, ChainedIs
<1> QED BY <1>3, <1>4 DEF NextStepIsNotBlocked

(* As long as no process has died, the next step of a rewriting is not      *)
(* blocked by what happened to other blocks: the chains that                *)
(* verifyCommentaryBlockReviewChain, verifyUnrelatedSubmissionChain and     *)
(* reverseUnrelatedRewriteAcceptanceReceipts look for are found, however    *)
(* long they are.  No rewrite import fails half way, since its ledger would *)
(* be a link that no record has, and what the commands before have left is  *)
(* followable.                                                             *)
THEOREM Unblocked ==
    ASSUME "rewrite" \notin Failing, StartsAreFollowable
    PROVE  Spec => []NextStepIsNotBlocked
<1>1. Init => ChainInv
  BY ChainStarted
<1>2. IInv /\ ChainInv /\ [Next]_vars => ChainInv'
  BY ChainKeeps
<1>3. IInv /\ ChainInv => NextStepIsNotBlocked
  <2> SUFFICES ASSUME IInv, ChainInv, Quiet, crashes = 0 PROVE NextStepIsNotBlocked
    BY DEF NextStepIsNotBlocked
  <2>1. Settled
    BY QuietIsSettled
  <2> QED BY <2>1, FollowableIsUnblocked DEF ChainInv
<1> QED BY <1>1, <1>2, <1>3, Invariance, PTL DEF Spec

(* What the assumption on the starts says of a dialogue in which nobody has *)
(* worked yet: its blocks are worded by no command to come.                 *)
LEMMA OutlinesFollow ==
    ASSUME \A start \in Starts :
        /\ start.submissions = {} /\ start.trail = <<>>
        /\ \A i \in DOMAIN start.ledger : start.ledger[i].body <= start.commands
    PROVE  StartsAreFollowable
<1> SUFFICES ASSUME NEW start \in Starts
             PROVE  /\ Followable(start.ledger, start.submissions, {}, start.trail)
                    /\ AllFresh({body \in Nat : body > start.commands},
                                start.ledger, start.submissions, {})
  BY DEF StartsAreFollowable
<1>1. start.submissions = {} /\ start.trail = <<>>
  OBVIOUS
<1>2. start.trail \in Seq(Entry) /\ IsFiniteSet({})
  BY <1>1, FS_EmptySet
<1>3. Followable(start.ledger, start.submissions, {}, start.trail)
  BY <1>1, <1>2 DEF Followable, Dated, DecidedStays, ReplacedStays, FromReviews, ToLedger,
     ToReview, FromAcceptances
<1>4. ASSUME NEW i \in DOMAIN start.ledger, NEW body \in Nat, body > start.commands
      PROVE  start.ledger[i].body # body
  <2>1. start.ledger[i] \in Block /\ start.commands \in 0..MaxCommands
    BY StartAssumption
  <2>2. start.ledger[i].body \in 0..MaxCommands /\ start.ledger[i].body <= start.commands
    BY <2>1 DEF Block
  <2> QED BY <1>4, <2>1, <2>2, GateAssumption
<1>5. AllFresh({body \in Nat : body > start.commands}, start.ledger, start.submissions, {})
  BY <1>1, <1>4 DEF AllFresh, Fresh
<1> QED BY <1>3, <1>5

=============================================================================
