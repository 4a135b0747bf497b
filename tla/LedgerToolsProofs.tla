------------------------- MODULE LedgerToolsProofs -------------------------
(***************************************************************************)
(* Proofs about LedgerTools for any sessions, batches, pages and sources.  *)
(* What concerns the order of effects is proved for sessions that all lock *)
(* (AllLock): the run ledger_unlocked_review shows that it does not hold   *)
(* otherwise.                                                              *)
(***************************************************************************)
EXTENDS LedgerTools, FiniteSetTheorems, TLAPS

(* No session is started with an unlocked review command. *)
SessionsLock ==
    \A start \in Starts : \A s \in Sessions : start.mode[s] \notin UnlockedModes

------------------------------------------------------------------------------
(* The inductive invariant *)

IsSessionFunction(f) == f = [s \in Sessions |-> f[s]]

(* What a session carries through a call is what its tool takes. *)
CallShape ==
    /\ IsSessionFunction(args)
    /\ IsSessionFunction(read)
    /\ IsSessionFunction(next)
    /\ IsSessionFunction(staged)
    /\ \A s \in Sessions :
        /\ tool[s] = "none" <=> step[s] \in {"idle", "unlock"}
        /\ tool[s] # "none" => tool[s] \in Tools(mode[s])
        /\ tool[s] = "append" => args[s] \in Batches
        /\ tool[s] = "review" => args[s] \in [id : Ids, status : Statuses]
        /\ tool[s] = "write" => args[s] \in Pages
        /\ tool[s] = "commit" => staged[s] # NoDraft /\ s \notin committed

(* Between acquiring and releasing, a session is the holder of the lock. *)
LockIsHeld ==
    AllLock => \A s \in Sessions :
        step[s] \in {"read", "open", "fill", "unlock"} => lock = s

(* Nobody changes the ledger between the read and the write of a session. *)
WriteIsFresh ==
    AllLock => \A s \in Sessions :
        /\ step[s] = "open" => read[s] = ledger
        /\ step[s] = "fill" => ledger = {}

(* What a tool is going to write, as a function of what it has read. *)
Appends(old, content) ==
    \E new \in SUBSET Record :
        /\ new # {}
        /\ content = Records(old) \cup new
        /\ \A r \in new : \A i \in IdsOf(old) : i < r.id
        /\ \A r, q \in new : r.id = q.id => r = q

Reviewed(old, arg, content) ==
    /\ arg.id \in IdsOf(old)
    /\ content = {IF r.id = arg.id THEN [r EXCEPT !.status = arg.status] ELSE r :
                      r \in Records(old)}

Judged(content) ==
    RelationLedger => \A r, q \in Records(content) : r.anchor = q.anchor => r = q

Effect(s, old, content) ==
    /\ Judged(content)
    /\ \/ tool[s] = "append" /\ Appends(old, content)
       \/ tool[s] = "review" /\ Reviewed(old, args[s], content)
       \/ /\ tool[s] = "commit"
          /\ old = staged[s].base
          /\ content = staged[s].content

EffectIsKnown ==
    AllLock => \A s \in Sessions :
        step[s] \in {"open", "fill"} => Effect(s, read[s], next[s])

IInv == TypeOK /\ CallShape /\ LockIsHeld /\ WriteIsFresh /\ EffectIsKnown

------------------------------------------------------------------------------
(* Lemmas about the operators *)

(* The tools of the commands that lock. *)
LEMMA LockedTools ==
    ASSUME NEW command \in Modes \ UnlockedModes
    PROVE  Tools(command) \subseteq {"stage", "commit", "append", "review"}
BY DEF Tools, Modes, UnlockedModes

(* With every session locking, every tool of it locks. *)
LEMMA AllToolsLock ==
    ASSUME AllLock, NEW s \in Sessions, NEW name
    PROVE  Locks(s, name)
BY DEF AllLock, Locks

(* A valid relation ledger has one record for each candidate. *)
LEMMA ValidIsJudged ==
    ASSUME NEW content, Valid(content)
    PROVE  Judged(content)
BY DEF Valid, Judged, Records

(* Appended records are records with fresh and distinct numbers. *)
LEMMA AppendedFacts ==
    ASSUME NEW batch \in Seq(Anchors), batch # <<>>,
           NEW content, Records(content) \subseteq Record,
           NEW n \in 1..(MaxId + 1), NextNumber(content, n),
           n + Len(batch) - 1 <= MaxId
    PROVE  /\ Appended(batch, n) \subseteq Record
           /\ Appended(batch, n) # {}
           /\ \A r \in Appended(batch, n) : \A i \in IdsOf(content) : i < r.id
           /\ \A r, q \in Appended(batch, n) : r.id = q.id => r = q
<1> USE LedgerAssumption
<1>1. Len(batch) \in Nat /\ Len(batch) > 0 /\ DOMAIN batch = 1..Len(batch)
  OBVIOUS
<1>2. \A i \in DOMAIN batch : batch[i] \in Anchors
  OBVIOUS
<1>3. \A i \in DOMAIN batch : n + i - 1 \in Ids /\ n <= n + i - 1
  BY <1>1 DEF Ids
<1>4. Appended(batch, n) \subseteq Record
  BY <1>2, <1>3 DEF Appended, Record
<1>5. Appended(batch, n) # {}
  <2>1. 1 \in DOMAIN batch
    BY <1>1
  <2>2. [id |-> n + 1 - 1, anchor |-> batch[1], status |-> Unreviewed] \in Appended(batch, n)
    BY <2>1 DEF Appended
  <2> QED BY <2>2
<1>6. ASSUME NEW r \in Appended(batch, n), NEW i \in IdsOf(content) PROVE i < r.id
  <2>1. PICK k \in DOMAIN batch : r.id = n + k - 1
    BY DEF Appended
  <2>2. i < n
    BY DEF NextNumber
  <2>3. i \in Ids
    BY DEF IdsOf, Record
  <2> QED BY <2>1, <2>2, <2>3, <1>1 DEF Ids
<1>7. ASSUME NEW r \in Appended(batch, n), NEW q \in Appended(batch, n), r.id = q.id
      PROVE  r = q
  <2>1. PICK k \in DOMAIN batch :
            r = [id |-> n + k - 1, anchor |-> batch[k], status |-> Unreviewed]
    BY DEF Appended
  <2>2. PICK l \in DOMAIN batch :
            q = [id |-> n + l - 1, anchor |-> batch[l], status |-> Unreviewed]
    BY DEF Appended
  <2>3. k = l
    BY <1>7, <2>1, <2>2, <1>1
  <2> QED BY <2>1, <2>2, <2>3
<1> QED BY <1>4, <1>5, <1>6, <1>7

------------------------------------------------------------------------------
(* The invariant holds *)

(* The mode of a session never changes. *)
LEMMA ModeIsConstant ==
    ASSUME [Next]_vars
    PROVE  mode' = mode
BY DEF Next, Start, Proceed, BeginAppend, BeginReview, BeginWrite, BeginCommit, Stage,
       Acquire, Release, Open, Fill, AppendBound, ReadAppend, ReadCommit, ReadReview,
       ReadWrite, Refuse, Prepare, EditSource, Finished, vars, world

LEMMA InitHolds == Init => IInv
<1> SUFFICES ASSUME Init PROVE IInv
  OBVIOUS
<1> USE LedgerAssumption DEF Init
<1>1. PICK start \in Starts : mode = start.mode /\ calls = start.calls /\ ledger = start.ledger
  OBVIOUS
<1>2. TypeOK
  BY <1>1 DEF TypeOK, Records
<1>3. CallShape
  BY DEF CallShape, IsSessionFunction
<1>4. LockIsHeld /\ WriteIsFresh /\ EffectIsKnown
  BY DEF LockIsHeld, WriteIsFresh, EffectIsKnown
<1> QED BY <1>2, <1>3, <1>4 DEF IInv

(* A call begins. *)
LEMMA BeginKeeps ==
    ASSUME IInv, NEW s \in Sessions, NEW name, NEW arg, Begin(s, name, arg),
           UNCHANGED <<world, ledger, lock, read, next, staged, committed>>,
           name \in {"append", "review", "write", "commit"},
           name = "append" => arg \in Batches,
           name = "review" => arg \in [id : Ids, status : Statuses],
           name = "write" => arg \in Pages,
           name = "commit" => staged[s] # NoDraft /\ s \notin committed
    PROVE  IInv'
<1> USE DEF IInv
<1>1. TypeOK'
  BY DEF TypeOK, Begin, world, Records
<1>2. CallShape'
  BY DEF TypeOK, CallShape, IsSessionFunction, Begin, world
<1>3. \A q \in Sessions : q # s => step'[q] = step[q]
  BY DEF TypeOK, Begin
<1>4. AllLock' => AllLock /\ step'[s] = "lock"
  BY AllToolsLock DEF AllLock, world, Begin, TypeOK
<1>5. LockIsHeld' /\ WriteIsFresh'
  BY <1>3, <1>4 DEF LockIsHeld, WriteIsFresh
<1>6. EffectIsKnown'
  <2> SUFFICES ASSUME AllLock', NEW q \in Sessions, step'[q] \in {"open", "fill"}
               PROVE  Effect(q, read[q], next[q])'
    BY DEF EffectIsKnown
  <2>1. q # s
    BY <1>4
  <2>2. tool'[q] = tool[q] /\ args'[q] = args[q]
    BY <2>1 DEF Begin, TypeOK, CallShape, IsSessionFunction
  <2>3. Effect(q, read[q], next[q])
    BY <1>3, <1>4, <2>1 DEF EffectIsKnown
  <2> QED BY <2>2, <2>3 DEF Effect, Judged, RelationLedger, world
<1> QED BY <1>1, <1>2, <1>5, <1>6

(* A call throws after reading. *)
LEMMA RefuseKeeps ==
    ASSUME IInv, NEW s \in Sessions, step[s] = "read", Refuse(s)
    PROVE  IInv'
<1> USE DEF IInv
<1>1. TypeOK'
  BY DEF TypeOK, Refuse, EndCall, Goto, world, Records
<1>2. CallShape'
  BY DEF TypeOK, CallShape, IsSessionFunction, Refuse, EndCall, Goto, world
<1>3. \A q \in Sessions : q # s => /\ step'[q] = step[q]
                                   /\ read'[q] = read[q]
                                   /\ next'[q] = next[q]
                                   /\ tool'[q] = tool[q]
                                   /\ args'[q] = args[q]
  BY DEF TypeOK, CallShape, IsSessionFunction, Refuse, EndCall, Goto
<1>4. step'[s] \in {"unlock", "idle"}
  BY DEF TypeOK, Refuse, EndCall, Goto
<1>5. AllLock' => AllLock
  BY DEF AllLock, Refuse, world
<1>6. LockIsHeld' /\ WriteIsFresh'
  BY <1>3, <1>4, <1>5 DEF LockIsHeld, WriteIsFresh, Refuse
<1>7. EffectIsKnown'
  BY <1>3, <1>4, <1>5 DEF EffectIsKnown, Effect, Judged, RelationLedger, Refuse, world
<1> QED BY <1>1, <1>2, <1>6, <1>7

(* A call knows what it is going to write. *)
LEMMA PrepareKeeps ==
    ASSUME IInv, NEW s \in Sessions, step[s] = "read",
           NEW content, Records(content) \subseteq Record,
           Prepare(s, content), AllLock => Effect(s, ledger, content)
    PROVE  IInv'
<1> USE DEF IInv
<1>1. TypeOK'
  BY DEF TypeOK, CallShape, IsSessionFunction, Prepare, Goto, world
<1>2. CallShape'
  BY DEF TypeOK, CallShape, IsSessionFunction, Prepare, Goto, world
<1>3. \A q \in Sessions : q # s => /\ step'[q] = step[q]
                                   /\ read'[q] = read[q]
                                   /\ next'[q] = next[q]
  BY DEF TypeOK, CallShape, IsSessionFunction, Prepare, Goto
<1>4. step'[s] = "open" /\ read'[s] = ledger /\ next'[s] = content
  BY DEF TypeOK, CallShape, IsSessionFunction, Prepare, Goto
<1>5. AllLock' => AllLock
  BY DEF AllLock, Prepare, world
<1>6. LockIsHeld' /\ WriteIsFresh'
  BY <1>3, <1>4, <1>5 DEF LockIsHeld, WriteIsFresh, Prepare
<1>7. EffectIsKnown'
  BY <1>3, <1>4, <1>5 DEF EffectIsKnown, Effect, Judged, RelationLedger, Prepare, world
<1> QED BY <1>1, <1>2, <1>6, <1>7

(* Reading keeps the invariant, and what is prepared is the tool's effect. *)
LEMMA ReadKeeps ==
    ASSUME IInv, NEW s \in Sessions,
           ReadAppend(s) \/ AppendBound(s) \/ ReadCommit(s) \/ ReadReview(s) \/ ReadWrite(s)
    PROVE  IInv'
<1>1. CASE AppendBound(s)
  BY <1>1, RefuseKeeps DEF AppendBound
<1>2. CASE ReadAppend(s)
  <2>1. PICK n \in 1..(MaxId + 1) :
            /\ NextNumber(ledger, n)
            /\ n + Len(args[s]) - 1 <= MaxId
            /\ \/ Refuse(s)
               \/ /\ args[s] # <<>>
                  /\ Valid(Records(ledger) \cup Appended(args[s], n))
                  /\ Prepare(s, Records(ledger) \cup Appended(args[s], n))
    BY <1>2 DEF ReadAppend
  <2>2. args[s] \in Seq(Anchors) /\ Records(ledger) \subseteq Record
    BY <1>2, LedgerAssumption DEF IInv, CallShape, TypeOK, ReadAppend
  <2>3. CASE Refuse(s)
    BY <1>2, <2>3, RefuseKeeps DEF ReadAppend
  <2>4. CASE /\ args[s] # <<>>
             /\ Valid(Records(ledger) \cup Appended(args[s], n))
             /\ Prepare(s, Records(ledger) \cup Appended(args[s], n))
    <3> DEFINE new == Appended(args[s], n)
    <3>1. /\ new \subseteq Record
          /\ new # {}
          /\ \A r \in new : \A i \in IdsOf(ledger) : i < r.id
          /\ \A r, q \in new : r.id = q.id => r = q
      BY <2>1, <2>2, <2>4, AppendedFacts
    <3>2. Appends(ledger, Records(ledger) \cup new)
      BY <3>1 DEF Appends
    <3>3. Records(Records(ledger) \cup new) \subseteq Record
      BY <2>2, <3>1 DEF Records
    <3>4. Judged(Records(ledger) \cup new)
      BY <2>4, ValidIsJudged
    <3> QED BY <1>2, <2>4, <3>2, <3>3, <3>4, PrepareKeeps DEF ReadAppend, Effect
  <2> QED BY <2>1, <2>3, <2>4
<1>3. CASE ReadCommit(s)
  <2>1. Records(staged[s].content) \subseteq Record
    BY <1>3 DEF IInv, CallShape, TypeOK, ReadCommit
  <2> QED BY <1>3, <2>1, ValidIsJudged, RefuseKeeps, PrepareKeeps DEF ReadCommit, Effect
<1>4. CASE ReadReview(s)
  <2> DEFINE content == {IF r.id = args[s].id THEN [r EXCEPT !.status = args[s].status] ELSE r :
                            r \in Records(ledger)}
  <2>1. CASE Refuse(s)
    BY <1>4, <2>1, RefuseKeeps DEF ReadReview
  <2>2. CASE args[s].id \in IdsOf(ledger) /\ Valid(content) /\ Prepare(s, content)
    <3>1. args[s].status \in Statuses
      BY <1>4 DEF IInv, CallShape, ReadReview
    <3>2. Records(ledger) \subseteq Record
      BY DEF IInv, TypeOK
    <3>3. content \subseteq Record
      BY <3>1, <3>2 DEF Record
    <3>4. Records(content) \subseteq Record
      BY <3>3 DEF Records
    <3>5. Effect(s, ledger, content)
      BY <1>4, <2>2, ValidIsJudged DEF Effect, Reviewed, ReadReview
    <3> HIDE DEF content
    <3> QED BY <1>4, <2>2, <3>4, <3>5, PrepareKeeps DEF ReadReview
  <2> QED BY <1>4, <2>1, <2>2 DEF ReadReview
<1>5. CASE ReadWrite(s)
  <2>1. Records(args[s]) \subseteq Record
    BY <1>5, LedgerAssumption DEF IInv, CallShape, ReadWrite, Records
  <2>2. ~AllLock
    BY <1>5, LockedTools DEF IInv, CallShape, TypeOK, ReadWrite, AllLock
  <2> QED BY <1>5, <2>1, <2>2, RefuseKeeps, PrepareKeeps DEF ReadWrite
<1> QED BY <1>1, <1>2, <1>3, <1>4, <1>5

(* At most one session is between Acquire and Release. *)
LEMMA OneInside ==
    ASSUME IInv, AllLock, NEW s \in Sessions, NEW q \in Sessions,
           step[s] \in {"read", "open", "fill", "unlock"},
           step[q] \in {"read", "open", "fill", "unlock"}
    PROVE  s = q
BY DEF IInv, LockIsHeld

(* Acquiring and releasing the lock. *)
LEMMA LockKeeps ==
    ASSUME IInv, NEW s \in Sessions, Acquire(s) \/ Release(s)
    PROVE  IInv'
<1> USE DEF IInv
<1>1. TypeOK'
  BY DEF TypeOK, Acquire, Release, Goto, world
<1>2. CallShape'
  BY DEF TypeOK, CallShape, IsSessionFunction, Acquire, Release, Goto, world
<1>3. /\ \A q \in Sessions : q # s => step'[q] = step[q]
      /\ step'[s] \in {"read", "idle"}
      /\ step'[s] = "read" => lock = Nobody /\ lock' = s
      /\ step'[s] = "idle" => step[s] = "unlock"
  BY DEF TypeOK, Acquire, Release, Goto
<1>4. AllLock' => AllLock
  BY DEF AllLock, Acquire, Release, world
<1>5. LockIsHeld'
  <2> SUFFICES ASSUME AllLock, NEW q \in Sessions,
                      step'[q] \in {"read", "open", "fill", "unlock"}
               PROVE  lock' = q
    BY <1>4 DEF LockIsHeld
  <2>1. CASE q = s
    BY <1>3, <2>1
  <2>2. CASE q # s
    <3>1. lock = q
      BY <1>3, <2>2 DEF LockIsHeld
    <3>2. step'[s] # "read"
      BY <1>3, <3>1, LedgerAssumption
    <3> QED BY <1>3, <2>2, <3>2, OneInside
  <2> QED BY <2>1, <2>2
<1>6. WriteIsFresh'
  BY <1>3, <1>4 DEF WriteIsFresh, Acquire, Release
<1>7. EffectIsKnown'
  BY <1>3, <1>4 DEF EffectIsKnown, Effect, Judged, RelationLedger, Acquire, Release, world
<1> QED BY <1>1, <1>2, <1>5, <1>6, <1>7

(* The file is truncated. *)
LEMMA OpenKeeps ==
    ASSUME IInv, NEW s \in Sessions, Open(s)
    PROVE  IInv'
<1> USE DEF IInv
<1>1. TypeOK'
  BY DEF TypeOK, Open, Goto, world, Records
<1>2. CallShape'
  BY DEF TypeOK, CallShape, IsSessionFunction, Open, Goto, world
<1>3. step'[s] = "fill" /\ \A q \in Sessions : q # s => step'[q] = step[q]
  BY DEF TypeOK, Open, Goto
<1>4. AllLock' => AllLock
  BY DEF AllLock, Open, world
<1>5. LockIsHeld'
  BY <1>3, <1>4 DEF LockIsHeld, Open
<1>6. WriteIsFresh'
  BY <1>3, <1>4, OneInside DEF WriteIsFresh, Open
<1>7. EffectIsKnown'
  BY <1>3, <1>4 DEF EffectIsKnown, Effect, Judged, RelationLedger, Open, world
<1> QED BY <1>1, <1>2, <1>5, <1>6, <1>7

(* The file is filled, and a commit consumes its draft. *)
LEMMA FillKeeps ==
    ASSUME IInv, NEW s \in Sessions, Fill(s)
    PROVE  IInv'
<1> USE DEF IInv
<1>1. TypeOK'
  <2>1. Records(next[s]) \subseteq Record
    BY DEF TypeOK
  <2>2. \A q \in Sessions : staged'[q] \in {NoDraft, staged[q]}
    BY DEF Fill, CallShape, IsSessionFunction
  <2>3. \A q \in Sessions : read'[q] \in {NoFile, read[q]} /\ next'[q] \in {NoFile, next[q]}
    BY DEF Fill, EndCall, CallShape, IsSessionFunction
  <2>4. \A q \in Sessions :
            /\ Records(read'[q]) \cup Records(next'[q]) \subseteq Record
            /\ staged'[q] # NoDraft =>
                Records(staged'[q].content) \cup Records(staged'[q].base) \subseteq Record
    BY <2>2, <2>3 DEF TypeOK, Records
  <2> QED BY <2>1, <2>4 DEF TypeOK, Fill, EndCall, Goto, world
<1>2. CallShape'
  <2>1. IsSessionFunction(args)' /\ IsSessionFunction(read)' /\ IsSessionFunction(next)'
    BY DEF CallShape, IsSessionFunction, Fill, EndCall
  <2>2. IsSessionFunction(staged)'
    BY DEF CallShape, IsSessionFunction, Fill
  <2>3. tool'[s] = "none" /\ step'[s] \in {"idle", "unlock"}
    BY DEF Fill, EndCall, Goto, TypeOK
  <2>4. \A q \in Sessions : q # s => /\ tool'[q] = tool[q]
                                     /\ step'[q] = step[q]
                                     /\ args'[q] = args[q]
                                     /\ staged'[q] = staged[q]
    BY DEF Fill, EndCall, Goto, TypeOK, CallShape, IsSessionFunction
  <2>5. \A q \in Sessions : q # s => (q \in committed' => q \in committed)
    BY DEF Fill
  <2> QED BY <2>1, <2>2, <2>3, <2>4, <2>5 DEF CallShape, Fill, world
<1>3. /\ step'[s] \in {"idle", "unlock"}
      /\ \A q \in Sessions : q # s => /\ step'[q] = step[q]
                                      /\ read'[q] = read[q]
                                      /\ next'[q] = next[q]
                                      /\ tool'[q] = tool[q]
                                      /\ args'[q] = args[q]
                                      /\ staged'[q] = staged[q]
  BY DEF Fill, EndCall, Goto, TypeOK, CallShape, IsSessionFunction
<1>4. AllLock' => AllLock
  BY DEF AllLock, Fill, world
<1>5. LockIsHeld'
  BY <1>3, <1>4 DEF LockIsHeld, Fill
<1>6. WriteIsFresh'
  BY <1>3, <1>4, OneInside DEF WriteIsFresh, Fill
<1>7. EffectIsKnown'
  BY <1>3, <1>4, OneInside DEF EffectIsKnown, Fill
<1> QED BY <1>1, <1>2, <1>5, <1>6, <1>7

(* Staging a draft, correcting the source, and stopping. *)
LEMMA OthersKeep ==
    ASSUME IInv,
           \/ \E s \in Sessions, page \in Pages : Stage(s, page)
           \/ \E a \in Anchors : EditSource(a)
           \/ UNCHANGED vars
    PROVE  IInv'
<1> USE DEF IInv
<1>1. ASSUME NEW s \in Sessions, NEW page \in Pages, Stage(s, page)
      PROVE  IInv'
  <2>1. staged'[s].content = page /\ staged'[s].base \in {ledger, staged[s].base}
    BY <1>1 DEF Stage, CallShape, IsSessionFunction
  <2>2. staged[s] = NoDraft => staged'[s].base = ledger
    BY <1>1 DEF Stage, CallShape, IsSessionFunction
  <2>3. \A q \in Sessions : q # s => staged'[q] = staged[q]
    BY <1>1 DEF Stage, CallShape, IsSessionFunction
  <2>4. Records(page) \subseteq Record
    BY LedgerAssumption DEF Records
  <2>5. Records(staged'[s].content) \cup Records(staged'[s].base) \subseteq Record
    BY <2>1, <2>2, <2>4 DEF TypeOK
  <2>6. TypeOK'
    BY <1>1, <2>3, <2>5 DEF TypeOK, Stage, world, call
  <2>7. tool[s] = "none" /\ step[s] = "idle"
    BY <1>1 DEF Stage, CallShape
  <2>8. CallShape'
    BY <1>1, <2>3, <2>7 DEF CallShape, IsSessionFunction, Stage, world, call
  <2>9. LockIsHeld' /\ WriteIsFresh'
    BY <1>1 DEF LockIsHeld, WriteIsFresh, AllLock, Stage, world, call
  <2>10. EffectIsKnown'
    BY <1>1, <2>3, <2>7 DEF EffectIsKnown, Effect, Judged, RelationLedger, AllLock, Stage,
                                world, call
  <2> QED BY <2>6, <2>8, <2>9, <2>10
<1>2. ASSUME NEW a \in Anchors, EditSource(a)
      PROVE  IInv'
  <2>1. TypeOK'
    BY <1>2 DEF TypeOK, EditSource, call
  <2>2. CallShape'
    BY <1>2 DEF CallShape, IsSessionFunction, EditSource, call
  <2>3. LockIsHeld' /\ WriteIsFresh' /\ EffectIsKnown'
    BY <1>2 DEF LockIsHeld, WriteIsFresh, EffectIsKnown, Effect, Judged,
                   RelationLedger, AllLock, EditSource, call
  <2> QED BY <2>1, <2>2, <2>3
<1>3. ASSUME UNCHANGED vars
      PROVE  IInv'
  <2>1. TypeOK'
    BY <1>3 DEF TypeOK, vars, world, call
  <2>2. CallShape'
    BY <1>3 DEF CallShape, IsSessionFunction, vars, world, call
  <2>3. LockIsHeld' /\ WriteIsFresh' /\ EffectIsKnown'
    BY <1>3 DEF LockIsHeld, WriteIsFresh, EffectIsKnown, Effect, Judged,
                   RelationLedger, AllLock, vars, world, call
  <2> QED BY <2>1, <2>2, <2>3
<1> QED BY <1>1, <1>2, <1>3

(* Every step keeps the invariant. *)
LEMMA NextKeeps ==
    ASSUME IInv, [Next]_vars
    PROVE  IInv'
<1>1. ASSUME NEW s \in Sessions, Start(s) PROVE IInv'
  <2>1. ASSUME NEW batch \in Batches, BeginAppend(s, batch) PROVE IInv'
    BY <2>1, BeginKeeps DEF BeginAppend
  <2>2. ASSUME NEW id \in Ids, NEW status \in Statuses, BeginReview(s, id, status) PROVE IInv'
    BY <2>2, BeginKeeps DEF BeginReview
  <2>3. ASSUME NEW page \in Pages, BeginWrite(s, page) PROVE IInv'
    BY <2>3, BeginKeeps DEF BeginWrite
  <2>4. ASSUME NEW page \in Pages, Stage(s, page) PROVE IInv'
    BY <2>4, OthersKeep
  <2>5. CASE BeginCommit(s)
    BY <2>5, BeginKeeps DEF BeginCommit
  <2> QED BY <1>1, <2>1, <2>2, <2>3, <2>4, <2>5 DEF Start
<1>2. ASSUME NEW s \in Sessions, Proceed(s) PROVE IInv'
  BY <1>2, ReadKeeps, LockKeeps, OpenKeeps, FillKeeps DEF Proceed
<1>3. CASE (\E a \in Anchors : EditSource(a)) \/ Finished \/ UNCHANGED vars
  BY <1>3, OthersKeep DEF Finished
<1> QED BY <1>1, <1>2, <1>3 DEF Next

(* The inductive invariant, for all sessions. *)
THEOREM Invariance == Spec => []IInv
BY InitHolds, NextKeeps, PTL DEF Spec

(* Every variable keeps its type, also while unlocked reviewers take part. *)
THEOREM TypeCorrect == Spec => []TypeOK
<1>1. IInv => TypeOK
  BY DEF IInv
<1> QED BY <1>1, Invariance, PTL

------------------------------------------------------------------------------
(* The settled ledger changes when a write is filled in, and only then *)

LEMMA SettledInWrite ==
    ASSUME IInv, AllLock, NEW s \in Sessions, step[s] = "fill"
    PROVE  SettledLedger = read[s]
<1>1. \A q \in Sessions : step[q] = "fill" => q = s
  BY OneInside
<1>2. (CHOOSE q \in Sessions : step[q] = "fill") = s
  BY <1>1
<1> QED BY <1>2 DEF SettledLedger

LEMMA SettledOutside ==
    ASSUME \A s \in Sessions : step[s] # "fill"
    PROVE  SettledLedger = ledger
BY DEF SettledLedger

(* A step opens the file, fills it, or leaves it and every write alone. *)
LEMMA StepKinds ==
    ASSUME IInv, [Next]_vars
    PROVE  \/ \E s \in Sessions : Open(s) \/ Fill(s)
           \/ /\ ledger' = ledger
              /\ UNCHANGED committed
              /\ UNCHANGED staged \/ \E s \in Sessions, page \in Pages : Stage(s, page)
              /\ \A s \in Sessions : /\ step'[s] = "fill" <=> step[s] = "fill"
                                     /\ step[s] = "fill" => read'[s] = read[s]
<1> DEFINE Quiet ==
        /\ ledger' = ledger
        /\ UNCHANGED committed
        /\ UNCHANGED staged \/ \E s \in Sessions, page \in Pages : Stage(s, page)
        /\ \A s \in Sessions : /\ step'[s] = "fill" <=> step[s] = "fill"
                               /\ step[s] = "fill" => read'[s] = read[s]
<1> USE DEF IInv
<1>1. ASSUME NEW s \in Sessions, Start(s) PROVE Quiet
  <2>1. CASE \E page \in Pages : Stage(s, page)
    BY <2>1 DEF Stage, call
  <2>2. CASE ~\E page \in Pages : Stage(s, page)
    <3>1. PICK name \in {"append", "review", "write", "commit"} :
              \E arg : Begin(s, name, arg)
      BY <1>1, <2>2 DEF Start, BeginAppend, BeginReview, BeginWrite, BeginCommit
    <3>2. UNCHANGED <<ledger, read, staged, committed>>
      BY <1>1, <2>2 DEF Start, BeginAppend, BeginReview, BeginWrite, BeginCommit
    <3>3. \A q \in Sessions : step'[q] = "fill" <=> step[q] = "fill"
      BY <3>1 DEF Begin, TypeOK
    <3> QED BY <3>2, <3>3
  <2> QED BY <2>1, <2>2
<1>2. ASSUME NEW s \in Sessions, step[s] = "read", Refuse(s) PROVE Quiet
  BY <1>2 DEF Refuse, EndCall, Goto, TypeOK, CallShape, IsSessionFunction
<1>3. ASSUME NEW s \in Sessions, NEW content, step[s] = "read", Prepare(s, content) PROVE Quiet
  BY <1>3 DEF Prepare, Goto, TypeOK, CallShape, IsSessionFunction
<1>4. ASSUME NEW s \in Sessions, Proceed(s) PROVE Quiet \/ Open(s) \/ Fill(s)
  <2>1. CASE Acquire(s) \/ Release(s)
    BY <2>1 DEF Acquire, Release, Goto, TypeOK
  <2>2. CASE ReadAppend(s)
    BY <2>2, <1>2, <1>3 DEF ReadAppend
  <2>3. CASE AppendBound(s)
    BY <2>3, <1>2 DEF AppendBound
  <2>4. CASE ReadCommit(s)
    BY <2>4, <1>2, <1>3 DEF ReadCommit
  <2>5. CASE ReadReview(s)
    BY <2>5, <1>2, <1>3 DEF ReadReview
  <2>6. CASE ReadWrite(s)
    BY <2>6, <1>2, <1>3 DEF ReadWrite
  <2> QED BY <1>4, <2>1, <2>2, <2>3, <2>4, <2>5, <2>6 DEF Proceed
<1>5. CASE (\E a \in Anchors : EditSource(a)) \/ Finished \/ UNCHANGED vars
  BY <1>5 DEF EditSource, Finished, vars, world, call
<1> QED BY <1>1, <1>4, <1>5 DEF Next

(* The settled ledger changes from what a session has read to what it writes. *)
LEMMA SettledChanges ==
    ASSUME IInv, IInv', [Next]_vars, AllLock
    PROVE  \/ \E s \in Sessions :
                /\ Fill(s)
                /\ Effect(s, read[s], next[s])
                /\ SettledLedger = read[s]
                /\ SettledLedger' = next[s]
           \/ /\ SettledLedger' = SettledLedger
              /\ UNCHANGED committed
              /\ UNCHANGED staged \/ \E s \in Sessions, page \in Pages : Stage(s, page)
<1>1. AllLock'
  BY ModeIsConstant DEF AllLock
<1>2. ASSUME NEW s \in Sessions, Open(s)
      PROVE  SettledLedger' = SettledLedger
  <2>1. \A q \in Sessions : step[q] # "fill"
    BY <1>2, OneInside DEF Open
  <2>2. SettledLedger = ledger
    BY <2>1, SettledOutside
  <2>3. read[s] = ledger /\ read' = read
    BY <1>2 DEF Open, IInv, WriteIsFresh
  <2>4. step'[s] = "fill"
    BY <1>2 DEF Open, Goto, IInv, TypeOK
  <2>5. \A q \in Sessions : step'[q] = "fill" => q = s
    BY <1>2, <2>1 DEF Open, Goto, IInv, TypeOK
  <2>6. (CHOOSE q \in Sessions : step'[q] = "fill") = s
    BY <2>4, <2>5
  <2>7. SettledLedger' = read'[s]
    BY <2>4, <2>6 DEF SettledLedger
  <2> QED BY <2>2, <2>3, <2>7
<1>3. ASSUME NEW s \in Sessions, Fill(s)
      PROVE  /\ Effect(s, read[s], next[s])
             /\ SettledLedger = read[s]
             /\ SettledLedger' = next[s]
  <2>1. Effect(s, read[s], next[s])
    BY <1>3 DEF Fill, IInv, EffectIsKnown
  <2>2. SettledLedger = read[s]
    BY <1>3, SettledInWrite DEF Fill
  <2>3. \A q \in Sessions : step'[q] # "fill"
    BY <1>3, OneInside DEF Fill, EndCall, Goto, IInv, TypeOK
  <2>4. SettledLedger' = ledger'
    BY <2>3 DEF SettledLedger
  <2> QED BY <1>3, <2>1, <2>2, <2>4 DEF Fill
<1>4. ASSUME /\ ledger' = ledger
             /\ \A s \in Sessions : /\ step'[s] = "fill" <=> step[s] = "fill"
                                    /\ step[s] = "fill" => read'[s] = read[s]
      PROVE  SettledLedger' = SettledLedger
  <2>1. CASE \A s \in Sessions : step[s] # "fill"
    BY <1>4, <2>1 DEF SettledLedger
  <2>2. ASSUME NEW s \in Sessions, step[s] = "fill"
        PROVE  SettledLedger' = SettledLedger
    <3>1. \A q \in Sessions : step[q] = "fill" => q = s
      BY <2>2, OneInside
    <3>2. (CHOOSE q \in Sessions : step'[q] = "fill") = s
      BY <1>4, <2>2, <3>1
    <3>3. SettledLedger' = read'[s]
      BY <1>4, <2>2, <3>2 DEF SettledLedger
    <3> QED BY <1>4, <2>2, <3>3, SettledInWrite
  <2> QED BY <2>1, <2>2
<1>5. ASSUME NEW s \in Sessions, Open(s)
      PROVE  UNCHANGED <<staged, committed>>
  BY <1>5 DEF Open
<1> QED BY <1>2, <1>3, <1>4, <1>5, StepKinds

------------------------------------------------------------------------------
(* The theorems *)

(* Tools that lock write only what the source supports when they read. *)
THEOREM Sourced == Spec => WritesAreSourced
<1> DEFINE Step == \A s \in Sessions :
        Locks(s, tool[s]) /\ step[s] = "read" /\ step'[s] = "open"
            => AnchorsOf(next'[s]) \subseteq source
<1>1. ASSUME IInv, [Next]_vars PROVE [Step]_vars
  <2> USE <1>1
  <2> SUFFICES ASSUME NEW s \in Sessions,
                      Locks(s, tool[s]), step[s] = "read", step'[s] = "open"
               PROVE  AnchorsOf(next'[s]) \subseteq source
    OBVIOUS
  <2> USE DEF IInv
  <2>1. ASSUME NEW content, Prepare(s, content), Valid(content)
        PROVE  AnchorsOf(next'[s]) \subseteq source
    BY <2>1 DEF Prepare, Valid, CallShape, IsSessionFunction
  <2>2. ASSUME Refuse(s) PROVE FALSE
    BY <2>2 DEF Refuse, EndCall, Goto, TypeOK
  <2>3. ASSUME NEW q \in Sessions, Proceed(q), q # s PROVE FALSE
    BY <2>3 DEF Proceed, Acquire, Release, Open, Fill, AppendBound, ReadAppend, ReadCommit,
                ReadReview, ReadWrite, Refuse, Prepare, EndCall, Goto, TypeOK
  <2>4. ASSUME NEW q \in Sessions, Start(q) PROVE FALSE
    BY <2>4 DEF Start, BeginAppend, BeginReview, BeginWrite, BeginCommit, Begin, Stage,
                call, TypeOK
  <2>5. ASSUME (\E a \in Anchors : EditSource(a)) \/ Finished \/ UNCHANGED vars PROVE FALSE
    BY <2>5 DEF EditSource, Finished, vars, world, call
  <2>6. Proceed(s)
    BY <2>3, <2>4, <2>5 DEF Next
  <2>7. CASE ReadAppend(s)
    BY <2>7, <2>1, <2>2 DEF ReadAppend
  <2>8. CASE ReadCommit(s)
    BY <2>8, <2>1, <2>2 DEF ReadCommit
  <2>9. CASE ReadReview(s)
    BY <2>9, <2>1, <2>2 DEF ReadReview
  <2>10. CASE ReadWrite(s)
    BY <2>10 DEF ReadWrite, CallShape, Tools, Locks, TypeOK, Modes, UnlockedModes
  <2>11. CASE Acquire(s) \/ Release(s) \/ Open(s) \/ Fill(s) \/ AppendBound(s)
    BY <2>11, <2>2 DEF Acquire, Release, Open, Fill, AppendBound
  <2> QED BY <2>6, <2>7, <2>8, <2>9, <2>10, <2>11 DEF Proceed
<1>2. Spec => [][Step]_vars
  BY <1>1, Invariance, PTL DEF Spec
<1> QED BY <1>2 DEF WritesAreSourced

(* Appends and reviews of sessions that lock keep every record. *)
THEOREM Survival == Spec => RecordsSurvive
<1> DEFINE Step == AllLock /\ NoneIngests => Texts(SettledLedger) \subseteq Texts(SettledLedger')
<1>1. ASSUME IInv, IInv', [Next]_vars PROVE [Step]_vars
  <2> USE <1>1
  <2> SUFFICES ASSUME AllLock, NoneIngests
               PROVE  Texts(SettledLedger) \subseteq Texts(SettledLedger')
    OBVIOUS
  <2>1. ASSUME NEW old, NEW content, Appends(old, content), Records(old) \subseteq Record
        PROVE  Texts(old) \subseteq Texts(content)
    <3>1. content \subseteq Record /\ Records(old) \subseteq content
      BY <2>1 DEF Appends
    <3>2. Records(content) = content
      BY <3>1, LedgerAssumption DEF Records
    <3> QED BY <3>1, <3>2 DEF Texts
  <2>2. ASSUME NEW old, NEW content, NEW arg \in [id : Ids, status : Statuses],
               Reviewed(old, arg, content), Records(old) \subseteq Record
        PROVE  Texts(old) \subseteq Texts(content)
    <3>1. ASSUME NEW r \in Records(old) PROVE <<r.id, r.anchor>> \in Texts(content)
      <4> DEFINE q == IF r.id = arg.id THEN [r EXCEPT !.status = arg.status] ELSE r
      <4>1. q \in content /\ q.id = r.id /\ q.anchor = r.anchor
        BY <2>2 DEF Reviewed, Record
      <4>2. content \subseteq Record
        BY <2>2 DEF Reviewed, Record, Records
      <4> QED BY <4>1, <4>2, LedgerAssumption DEF Texts, Records
    <3> QED BY <3>1 DEF Texts
  <2>3. ASSUME NEW s \in Sessions, Fill(s)
        PROVE  tool[s] # "commit"
    BY <2>3 DEF IInv, CallShape, NoneIngests, AllLock, TypeOK, Modes, Fill, Tools, UnlockedModes
  <2>4. \A s \in Sessions : /\ Records(read[s]) \subseteq Record
                            /\ tool[s] = "review" => args[s] \in [id : Ids, status : Statuses]
    BY DEF IInv, TypeOK, CallShape
  <2>5. CASE SettledLedger' = SettledLedger
    BY <2>5
  <2>6. ASSUME NEW s \in Sessions, Fill(s), Effect(s, read[s], next[s]),
               SettledLedger = read[s], SettledLedger' = next[s]
        PROVE  Texts(SettledLedger) \subseteq Texts(SettledLedger')
    <3>1. Texts(read[s]) \subseteq Texts(next[s])
      BY <2>1, <2>2, <2>3, <2>4, <2>6 DEF Effect
    <3> QED BY <3>1, <2>6
  <2> QED BY <2>5, <2>6, SettledChanges
<1>2. Spec => [][Step]_vars
  BY <1>1, Invariance, PTL DEF Spec
<1> QED BY <1>2 DEF RecordsSurvive

(* While all sessions lock, they lock for ever. *)
LEMMA LockingIsForEver ==
    ASSUME SessionsLock
    PROVE  Spec => []AllLock
<1>1. Init => AllLock
  BY LedgerAssumption DEF Init, AllLock, SessionsLock
<1>2. AllLock /\ [Next]_vars => AllLock'
  BY ModeIsConstant DEF AllLock
<1> QED BY <1>1, <1>2, PTL DEF Spec

Numbered(content) == \A r, q \in Records(content) : r.id = q.id => r = q

(* The whole pages that are there at the start, and those that sessions may *)
(* stage, have unique numbers.                                             *)
PagesNumbered ==
    /\ \A start \in Starts : Numbered(start.ledger)
    /\ \A page \in Pages : Numbered(page)

DraftsNumbered == \A s \in Sessions : staged[s] # NoDraft => Numbered(staged[s].content)

LEMMA DraftsStayNumbered ==
    ASSUME PagesNumbered
    PROVE  Spec => []DraftsNumbered
<1>1. Init => DraftsNumbered
  BY DEF Init, DraftsNumbered
<1>2. ASSUME IInv, DraftsNumbered, [Next]_vars PROVE DraftsNumbered'
  <2>1. ASSUME NEW s \in Sessions, NEW page \in Pages, Stage(s, page) PROVE DraftsNumbered'
    <3>1. staged'[s].content = page /\ \A q \in Sessions : q # s => staged'[q] = staged[q]
      BY <1>2, <2>1 DEF Stage, IInv, CallShape, IsSessionFunction
    <3> QED BY <1>2, <3>1 DEF DraftsNumbered, PagesNumbered, Numbered
  <2>2. ASSUME NEW s \in Sessions, Fill(s) PROVE DraftsNumbered'
    <3>1. \A q \in Sessions : staged'[q] \in {NoDraft, staged[q]}
      BY <1>2, <2>2 DEF Fill, IInv, CallShape, IsSessionFunction
    <3> QED BY <1>2, <3>1 DEF DraftsNumbered, Numbered
  <2>3. CASE UNCHANGED staged
    BY <1>2, <2>3 DEF DraftsNumbered, Numbered
  <2>4. ASSUME NEW s \in Sessions, Open(s) PROVE UNCHANGED staged
    BY <2>4 DEF Open
  <2> QED BY <1>2, <2>1, <2>2, <2>3, <2>4, StepKinds
<1> QED BY <1>1, <1>2, Invariance, PTL DEF Spec

(* What a tool writes has unique numbers if what it read, or its draft, has. *)
LEMMA EffectIsNumbered ==
    ASSUME IInv, NEW s \in Sessions, Fill(s), Effect(s, read[s], next[s]),
           Numbered(read[s]), DraftsNumbered
    PROVE  Numbered(next[s])
<1>1. Records(read[s]) \subseteq Record
  BY DEF IInv, TypeOK
<1>2. CASE Appends(read[s], next[s])
  <2>1. PICK new \in SUBSET Record :
            /\ next[s] = Records(read[s]) \cup new
            /\ \A r \in new : \A i \in IdsOf(read[s]) : i < r.id
            /\ \A r, q \in new : r.id = q.id => r = q
    BY <1>2 DEF Appends
  <2>2. Records(next[s]) = Records(read[s]) \cup new
    BY <1>1, <2>1, LedgerAssumption DEF Records
  <2>3. ASSUME NEW r \in new, NEW q \in Records(read[s]) PROVE r.id # q.id
    <3>1. q.id \in IdsOf(read[s])
      BY DEF IdsOf
    <3>2. q.id < r.id /\ q.id \in Nat /\ r.id \in Nat
      BY <1>1, <2>1, <3>1 DEF Record, Ids
    <3> QED BY <3>2
  <2> QED BY <2>1, <2>2, <2>3 DEF Numbered
<1>3. CASE Reviewed(read[s], args[s], next[s]) /\ tool[s] = "review"
  <2> DEFINE F(r) == IF r.id = args[s].id THEN [r EXCEPT !.status = args[s].status] ELSE r
  <2>1. \A r \in Records(read[s]) : F(r).id = r.id /\ F(r) \in Record
    BY <1>1, <1>3 DEF Record, IInv, CallShape
  <2>2. next[s] = {F(r) : r \in Records(read[s])}
    BY <1>3 DEF Reviewed
  <2>3. next[s] \subseteq Record
    BY <2>1, <2>2
  <2>4. Records(next[s]) = next[s]
    BY <2>3, LedgerAssumption DEF Records
  <2> HIDE DEF F
  <2> QED BY <2>1, <2>2, <2>4 DEF Numbered
<1>4. CASE tool[s] = "commit" /\ next[s] = staged[s].content
  BY <1>4 DEF DraftsNumbered, IInv, CallShape
<1> QED BY <1>2, <1>3, <1>4 DEF Effect

(* No two sessions give out the same number, while all of them lock. *)
THEOREM Uniqueness ==
    ASSUME SessionsLock, PagesNumbered
    PROVE  Spec => []UniqueIds
<1>1. UniqueIds <=> Numbered(SettledLedger)
  BY DEF UniqueIds, Numbered
<1>2. Init => UniqueIds
  <2> SUFFICES ASSUME Init PROVE UniqueIds
    OBVIOUS
  <2>1. SettledLedger = ledger
    BY SettledOutside DEF Init
  <2> QED BY <1>1, <2>1 DEF Init, PagesNumbered
<1>3. ASSUME IInv, IInv', AllLock, DraftsNumbered, UniqueIds, [Next]_vars PROVE UniqueIds'
  <2>1. CASE SettledLedger' = SettledLedger
    BY <1>3, <2>1 DEF UniqueIds
  <2>2. ASSUME NEW s \in Sessions, Fill(s), Effect(s, read[s], next[s]),
               SettledLedger = read[s], SettledLedger' = next[s]
        PROVE  UniqueIds'
    <3>1. Numbered(next[s])
      BY <1>1, <1>3, <2>2, EffectIsNumbered
    <3> QED BY <2>2, <3>1 DEF UniqueIds, Numbered
  <2> QED BY <1>3, <2>1, <2>2, SettledChanges
<1> QED BY <1>2, <1>3, Invariance, LockingIsForEver, DraftsStayNumbered, PTL DEF Spec

(* No candidate of a relation is judged twice, while all sessions lock and  *)
(* the relation ledger that they find has none that is.                     *)
StartsJudged ==
    \A start \in Starts :
        \A r, q \in Records(start.ledger) : r.anchor = q.anchor => r = q

THEOREM Judgement ==
    ASSUME SessionsLock, StartsJudged
    PROVE  Spec => []CandidatesJudgedOnce
<1>1. CandidatesJudgedOnce <=> Judged(SettledLedger)
  BY DEF CandidatesJudgedOnce, Judged
<1>2. Init => CandidatesJudgedOnce
  <2> SUFFICES ASSUME Init PROVE CandidatesJudgedOnce
    OBVIOUS
  <2>1. SettledLedger = ledger
    BY SettledOutside DEF Init
  <2> QED BY <1>1, <2>1 DEF Init, StartsJudged, Judged
<1>3. ASSUME IInv, IInv', AllLock, CandidatesJudgedOnce, [Next]_vars
      PROVE  CandidatesJudgedOnce'
  <2>1. RelationLedger' <=> RelationLedger
    BY <1>3, ModeIsConstant DEF RelationLedger
  <2>2. CASE SettledLedger' = SettledLedger
    BY <1>3, <2>1, <2>2 DEF CandidatesJudgedOnce
  <2>3. ASSUME NEW s \in Sessions, Effect(s, read[s], next[s]), SettledLedger' = next[s]
        PROVE  CandidatesJudgedOnce'
    BY <2>1, <2>3 DEF CandidatesJudgedOnce, Effect, Judged
  <2> QED BY <1>3, <2>2, <2>3, SettledChanges
<1> QED BY <1>2, <1>3, Invariance, LockingIsForEver, PTL DEF Spec

(* Sessions that lock implement the atomic ledger: a call takes effect when *)
(* it fills the file, and every other step is a stutter or stages a draft.  *)
THEOREM SessionsImplementLedger ==
    ASSUME SessionsLock
    PROVE  Spec => ImplementsAtomicLedger
<1> DEFINE file == IF AllLock THEN SettledLedger ELSE NoFile
<1>1. Init => Atomic!Init
  <2> SUFFICES ASSUME Init PROVE Atomic!Init
    OBVIOUS
  <2>1. SettledLedger = ledger
    BY SettledOutside DEF Init
  <2> QED BY <2>1 DEF Init, Atomic!Init
<1>2. ASSUME IInv, IInv', AllLock, AllLock', [Next]_vars
      PROVE  [Atomic!Next]_<<file, staged, committed>>
  <2>1. ASSUME NEW s \in Sessions, NEW page \in Pages, Stage(s, page),
               SettledLedger' = SettledLedger
        PROVE  Atomic!Stage(s)
    <3>1. ledger \in {SettledLedger, {}}
      <4>1. CASE \E q \in Sessions : step[q] = "fill"
        BY <1>2, <4>1 DEF IInv, WriteIsFresh
      <4>2. CASE ~\E q \in Sessions : step[q] = "fill"
        BY <4>2, SettledOutside
      <4> QED BY <4>1, <4>2
    <3> QED BY <1>2, <2>1, <3>1 DEF Stage, Atomic!Stage
  <2>2. ASSUME NEW s \in Sessions, Fill(s), Effect(s, read[s], next[s]),
               SettledLedger = read[s], SettledLedger' = next[s]
        PROVE  Atomic!Next
    <3>1. Records(read[s]) \subseteq Record
      BY <1>2 DEF IInv, TypeOK
    <3>2. CASE tool[s] = "append" /\ Appends(read[s], next[s])
      <4>1. PICK new \in SUBSET Record :
                /\ new # {}
                /\ next[s] = Records(read[s]) \cup new
                /\ \A r \in new : \A i \in IdsOf(read[s]) : i < r.id
                /\ \A r, q \in new : r.id = q.id => r = q
        BY <3>2 DEF Appends
      <4>2. Records(next[s]) = Records(read[s]) \cup new
        BY <3>1, <4>1, LedgerAssumption DEF Records
      <4>3. \A r \in new : r \notin Records(read[s])
        <5>1. ASSUME NEW r \in new, r \in Records(read[s]) PROVE FALSE
          <6>1. r.id \in IdsOf(read[s]) /\ r.id \in Nat
            BY <3>1, <5>1 DEF IdsOf, Record, Ids
          <6> QED BY <4>1, <6>1
        <5> QED BY <5>1
      <4>4. Records(next[s]) \ Records(read[s]) = new
        BY <4>2, <4>3
      <4>5. UNCHANGED <<staged, committed>>
        BY <2>2, <3>2 DEF Fill
      <4>6. file = read[s] /\ file' = next[s]
        BY <1>2, <2>2
      <4> HIDE DEF file
      <4>7. Atomic!Append
        BY <4>1, <4>4, <4>5, <4>6 DEF Atomic!Append, Atomic!Records, Atomic!IdsOf,
           Atomic!Record, Records, IdsOf, Record, file
      <4> QED BY <4>7 DEF Atomic!Next
    <3>3. CASE tool[s] = "review" /\ Reviewed(read[s], args[s], next[s])
      <4>1. args[s].status \in Statuses
        BY <1>2, <3>3 DEF IInv, CallShape
      <4>2. read[s] # NoFile /\ Records(read[s]) = read[s]
        BY <3>3 DEF Reviewed, IdsOf, Records
      <4>3. UNCHANGED <<staged, committed>>
        BY <2>2, <3>3 DEF Fill
      <4>4. Atomic!Review
        BY <1>2, <2>2, <3>3, <4>1, <4>2, <4>3
           DEF Atomic!Review, Reviewed, IdsOf, Atomic!IdsOf, Atomic!Records, Records
      <4> QED BY <4>4 DEF Atomic!Next
    <3>4. CASE tool[s] = "commit" /\ read[s] = staged[s].base /\ next[s] = staged[s].content
      <4>1. s \notin committed /\ staged[s] # NoDraft
        BY <1>2, <3>4 DEF IInv, CallShape
      <4>2. Atomic!Commit(s)
        BY <1>2, <2>2, <3>4, <4>1 DEF Atomic!Commit, Fill
      <4> QED BY <4>2 DEF Atomic!Next
    <3> QED BY <2>2, <3>2, <3>3, <3>4 DEF Effect
  <2>3. CASE SettledLedger' = SettledLedger /\ UNCHANGED <<staged, committed>>
    BY <1>2, <2>3
  <2> HIDE DEF file
  <2> QED BY <1>2, <2>1, <2>2, <2>3, SettledChanges DEF Atomic!Next
<1>3. Spec => [][Atomic!Next]_<<file, staged, committed>>
  BY <1>2, Invariance, LockingIsForEver, PTL DEF Spec
<1> QED BY <1>1, <1>3, PTL DEF Spec, ImplementsAtomicLedger, Atomic!Spec

------------------------------------------------------------------------------
(* Reviewers without a lock *)

(* Where all sessions review observations there is a page to review. *)
ReviewsHavePage ==
    \A start \in Starts :
        (\A s \in Sessions : start.mode[s] \in UnlockedModes) => start.ledger # NoFile

(* Whatever reviewers read is a whole page with these ids or a truncated one, *)
(* and they go on with the whole one only; the last write of those that are   *)
(* under way leaves a whole page.                                             *)
Paged(ids) ==
    /\ ledger # NoFile /\ IsFiniteSet(ledger)
    /\ ledger = {} \/ IdsOf(ledger) = ids
    /\ (\A s \in Sessions : step[s] # "fill") => IdsOf(ledger) = ids
    /\ \A s \in Sessions :
        /\ tool[s] = "write" => args[s] # {}
        /\ step[s] \in {"open", "fill"} =>
            /\ next[s] # NoFile /\ IsFiniteSet(next[s])
            /\ IdsOf(next[s]) = ids /\ IdsOf(read[s]) = ids

ReviewInv == AllReview => \E ids : Paged(ids)

(* The page without the writes under way has the ids. *)
LEMMA SettledIds ==
    ASSUME NEW ids, Paged(ids)
    PROVE  IdsOf(SettledLedger) = ids
<1>1. CASE \E s \in Sessions : step[s] = "fill"
  <2> DEFINE s == CHOOSE q \in Sessions : step[q] = "fill"
  <2>1. s \in Sessions /\ step[s] = "fill"
    BY <1>1
  <2>2. SettledLedger = read[s]
    BY <1>1 DEF SettledLedger
  <2> HIDE DEF s
  <2> QED BY <2>1, <2>2 DEF Paged
<1>2. CASE \A s \in Sessions : step[s] # "fill"
  BY <1>2, SettledOutside DEF Paged
<1> QED BY <1>1, <1>2

(* The same of the page that a step leaves. *)
LEMMA SettledIdsAfter ==
    ASSUME NEW ids, Paged(ids)'
    PROVE  IdsOf(SettledLedger') = ids
<1>1. CASE \E s \in Sessions : step'[s] = "fill"
  <2> DEFINE s == CHOOSE q \in Sessions : step'[q] = "fill"
  <2>1. s \in Sessions /\ step'[s] = "fill"
    BY <1>1
  <2>2. SettledLedger' = read'[s]
    BY <1>1 DEF SettledLedger
  <2> HIDE DEF s
  <2>3. IdsOf(read'[s]) = ids
    BY <2>1 DEF Paged, IdsOf, Records
  <2> QED BY <2>2, <2>3
<1>2. CASE \A s \in Sessions : step'[s] # "fill"
  <2>1. SettledLedger' = ledger'
    BY <1>2 DEF SettledLedger
  <2>2. IdsOf(ledger') = ids
    BY <1>2 DEF Paged, IdsOf, Records
  <2> QED BY <2>1, <2>2
<1> QED BY <1>1, <1>2

(* Pages with as many records of each number have the same numbers. *)
LEMMA SameIdsIs ==
    ASSUME NEW content \in SUBSET Record, NEW page \in SUBSET Record,
           IsFiniteSet(content), IsFiniteSet(page), SameIds(content, page)
    PROVE  IdsOf(content) = IdsOf(page)
<1>1. \A S \in SUBSET Record : Records(S) = S
  BY LedgerAssumption DEF Records
<1>2. ASSUME NEW S \in SUBSET Record, IsFiniteSet(S), NEW i \in Ids
      PROVE  i \in IdsOf(S) <=> Cardinality({r \in S : r.id = i}) # 0
  <2>1. IsFiniteSet({r \in S : r.id = i})
    BY <1>2, FS_Subset
  <2>2. i \in IdsOf(S) <=> {r \in S : r.id = i} # {}
    BY <1>1 DEF IdsOf
  <2> QED BY <2>1, <2>2, FS_EmptySet
<1>3. IdsOf(content) \subseteq Ids /\ IdsOf(page) \subseteq Ids
  BY <1>1 DEF IdsOf, Record
<1>4. \A i \in Ids : i \in IdsOf(content) <=> i \in IdsOf(page)
  BY <1>2 DEF SameIds
<1> QED BY <1>3, <1>4

(* A page with the status of the record of one number changed. *)
Restated(old, id, status) ==
    {IF r.id = id THEN [r EXCEPT !.status = status] ELSE r : r \in old}

(* A review of statuses leaves the numbers. *)
LEMMA ReviewedIds ==
    ASSUME NEW old \in SUBSET Record, IsFiniteSet(old), NEW id, NEW status \in Statuses
    PROVE  /\ Restated(old, id, status) # NoFile
           /\ IsFiniteSet(Restated(old, id, status))
           /\ IdsOf(Restated(old, id, status)) = IdsOf(old)
<1> DEFINE new(r) == IF r.id = id THEN [r EXCEPT !.status = status] ELSE r
           content == Restated(old, id, status)
<1>1. \A r \in old : new(r) \in Record /\ new(r).id = r.id
  BY DEF Record
<1>2. content = {new(r) : r \in old}
  BY DEF Restated
<1> HIDE DEF new, content
<1>3. content \subseteq Record
  BY <1>1, <1>2
<1>4. Records(content) = content /\ Records(old) = old /\ content # NoFile
  BY <1>3, LedgerAssumption DEF Records
<1>5. IsFiniteSet(content)
  <2> DEFINE f == [r \in old |-> new(r)]
  <2>1. content = {f[r] : r \in old}
    BY <1>2
  <2>2. f \in Surjection(old, content)
    BY <2>1 DEF Surjection
  <2> QED BY <2>2, FS_Surjection
<1>6. IdsOf(content) = IdsOf(old)
  <2>1. \A i : i \in IdsOf(content) <=> \E r \in old : i = new(r).id
    BY <1>2, <1>4 DEF IdsOf
  <2>2. \A i : i \in IdsOf(old) <=> \E r \in old : i = r.id
    BY <1>4 DEF IdsOf
  <2> QED BY <1>1, <2>1, <2>2
<1> QED BY <1>4, <1>5, <1>6 DEF content

(* A step of one reviewer that touches no page and opens none. *)
LEMMA PagedBeside ==
    ASSUME NEW ids, Paged(ids), ledger' = ledger,
           \A s \in Sessions :
               /\ step'[s] = "fill" <=> step[s] = "fill"
               /\ tool'[s] = "write" => args'[s] # {}
               /\ step'[s] \in {"open", "fill"} =>
                    /\ next'[s] # NoFile /\ IsFiniteSet(next'[s])
                    /\ IdsOf(next'[s]) = ids /\ IdsOf(read'[s]) = ids
    PROVE  Paged(ids)'
BY DEF Paged, IdsOf, Records

(* The tools of a reviewer of observations take no lock. *)
LEMMA ReviewersDoNotLock ==
    ASSUME IInv, AllReview, NEW s \in Sessions, tool[s] # "none"
    PROVE  tool[s] \in {"review", "write"} /\ ~Locks(s, tool[s])
BY DEF IInv, TypeOK, CallShape, AllReview, Tools, UnlockedModes, Modes, Locks

(* A call that is refused has nothing to write. *)
LEMMA RefusePaged ==
    ASSUME IInv, NEW ids, Paged(ids), NEW s \in Sessions, step[s] = "read", Refuse(s)
    PROVE  Paged(ids)'
<1>1. ledger' = ledger /\ step'[s] \in {"unlock", "idle"} /\ tool'[s] = "none"
  BY DEF IInv, TypeOK, Refuse, EndCall, Goto
<1>2. \A q \in Sessions : q # s => /\ step'[q] = step[q] /\ tool'[q] = tool[q]
                                   /\ args'[q] = args[q] /\ read'[q] = read[q]
                                   /\ next'[q] = next[q]
  BY DEF IInv, TypeOK, CallShape, IsSessionFunction, Refuse, EndCall, Goto
<1> QED BY <1>1, <1>2, PagedBeside DEF Paged

(* A call that goes on has read the page and writes one with its ids. *)
LEMMA PreparePaged ==
    ASSUME IInv, NEW ids, Paged(ids), NEW s \in Sessions, step[s] = "read", NEW content,
           Prepare(s, content), content # NoFile, IsFiniteSet(content), IdsOf(content) = ids,
           IdsOf(ledger) = ids
    PROVE  Paged(ids)'
<1>1. /\ ledger' = ledger /\ tool' = tool /\ args' = args
      /\ step'[s] = "open" /\ read'[s] = ledger /\ next'[s] = content
  BY DEF IInv, TypeOK, CallShape, IsSessionFunction, Prepare, Goto
<1>2. \A q \in Sessions : q # s => /\ step'[q] = step[q] /\ read'[q] = read[q]
                                   /\ next'[q] = next[q]
  BY DEF IInv, TypeOK, CallShape, IsSessionFunction, Prepare, Goto
<1> QED BY <1>1, <1>2, PagedBeside DEF Paged

(* What a reviewer has read and is going to write has the numbers of the page. *)
LEMMA ReadPaged ==
    ASSUME IInv, AllReview, NEW ids, Paged(ids), NEW s \in Sessions,
           ReadAppend(s) \/ AppendBound(s) \/ ReadCommit(s) \/ ReadReview(s) \/ ReadWrite(s)
    PROVE  Paged(ids)'
<1>1. step[s] = "read" /\ tool[s] \in {"review", "write"}
  BY ReviewersDoNotLock DEF ReadAppend, AppendBound, ReadCommit, ReadReview, ReadWrite
<1>2. /\ Records(ledger) = ledger /\ ledger \in SUBSET Record /\ IsFiniteSet(ledger)
      /\ ledger = {} \/ IdsOf(ledger) = ids
  BY DEF Paged, Records, IInv, TypeOK
<1>3. CASE Refuse(s)
  BY <1>1, <1>3, RefusePaged
<1>4. CASE ReadReview(s) /\ ~Refuse(s)
  <2> DEFINE id == args[s].id
             status == args[s].status
             content == Restated(ledger, id, status)
  <2>1. id \in IdsOf(ledger) /\ Prepare(s, content)
    BY <1>2, <1>4 DEF ReadReview, Restated
  <2>2. status \in Statuses
    BY <1>4 DEF ReadReview, IInv, CallShape
  <2> HIDE DEF id, status
  <2>3. content # NoFile /\ IsFiniteSet(content) /\ IdsOf(content) = IdsOf(ledger)
    BY <1>2, <2>2, ReviewedIds
  <2> HIDE DEF content
  <2>4. IdsOf(ledger) = ids
    BY <1>2, <2>1 DEF IdsOf
  <2> QED BY <1>1, <2>1, <2>3, <2>4, PreparePaged
<1>5. CASE ReadWrite(s) /\ ~Refuse(s)
  <2>1. Prepare(s, args[s]) /\ SameIds(ledger, args[s])
    BY <1>5 DEF ReadWrite, Paged
  <2>2. args[s] \in SUBSET Record /\ IsFiniteSet(args[s]) /\ args[s] # {}
    BY <1>5, LedgerAssumption DEF ReadWrite, IInv, CallShape, Paged
  <2>3. IdsOf(args[s]) = IdsOf(ledger)
    BY <1>2, <2>1, <2>2, SameIdsIs
  <2>4. Records(args[s]) = args[s] /\ args[s] # NoFile
    BY <2>2, LedgerAssumption DEF Records
  <2>5. IdsOf(ledger) = ids
    <3>1. IdsOf(ledger) # {}
      BY <2>2, <2>3, <2>4 DEF IdsOf
    <3> QED BY <1>2, <3>1 DEF IdsOf
  <2> QED BY <1>1, <2>1, <2>2, <2>3, <2>4, <2>5, PreparePaged
<1> QED BY <1>1, <1>3, <1>4, <1>5 DEF ReadAppend, AppendBound, ReadCommit

LEMMA OpenPaged ==
    ASSUME IInv, NEW ids, Paged(ids), NEW s \in Sessions, Open(s)
    PROVE  Paged(ids)'
<1>1. /\ ledger' = {} /\ step'[s] = "fill" /\ step[s] = "open"
      /\ tool' = tool /\ args' = args /\ read' = read /\ next' = next
      /\ \A q \in Sessions : q # s => step'[q] = step[q]
  BY DEF IInv, TypeOK, Open, Goto
<1>2. {} # NoFile /\ IsFiniteSet({})
  BY LedgerAssumption, FS_EmptySet
<1> QED BY <1>1, <1>2 DEF Paged

LEMMA FillPaged ==
    ASSUME IInv, NEW ids, Paged(ids), NEW s \in Sessions, Fill(s)
    PROVE  Paged(ids)'
<1>1. /\ ledger' = next[s] /\ step[s] = "fill" /\ step'[s] \in {"idle", "unlock"}
      /\ tool'[s] = "none"
      /\ \A q \in Sessions : q # s => /\ step'[q] = step[q] /\ tool'[q] = tool[q]
                                      /\ args'[q] = args[q] /\ read'[q] = read[q]
                                      /\ next'[q] = next[q]
  BY DEF IInv, TypeOK, CallShape, IsSessionFunction, Fill, EndCall, Goto
<1>2. next[s] # NoFile /\ IsFiniteSet(next[s]) /\ IdsOf(next[s]) = ids
  BY <1>1 DEF Paged
<1> QED BY <1>1, <1>2 DEF Paged

(* Calls begin, drafts are staged, locks move, the source is corrected. *)
LEMMA OthersPaged ==
    ASSUME IInv, NEW ids, Paged(ids),
           \/ \E s \in Sessions : Start(s) \/ Acquire(s) \/ Release(s)
           \/ \E a \in Anchors : EditSource(a)
           \/ UNCHANGED vars
    PROVE  Paged(ids)'
<1>1. ASSUME NEW s \in Sessions, NEW name, NEW arg, Begin(s, name, arg),
             UNCHANGED <<ledger, read, next>>, name = "write" => arg # {}
      PROVE  Paged(ids)'
  <2>1. /\ step'[s] \in {"lock", "read"} /\ step[s] = "idle"
        /\ tool'[s] = name /\ args'[s] = arg
        /\ \A q \in Sessions : q # s => /\ step'[q] = step[q] /\ tool'[q] = tool[q]
                                        /\ args'[q] = args[q]
    BY <1>1 DEF IInv, TypeOK, CallShape, IsSessionFunction, Begin
  <2> QED BY <1>1, <2>1, PagedBeside DEF Paged
<1>2. ASSUME NEW s \in Sessions, Start(s) PROVE Paged(ids)'
  <2>1. ASSUME NEW batch \in Batches, BeginAppend(s, batch) PROVE Paged(ids)'
    BY <1>1, <2>1 DEF BeginAppend
  <2>2. ASSUME NEW id \in Ids, NEW status \in Statuses, BeginReview(s, id, status)
        PROVE  Paged(ids)'
    BY <1>1, <2>2 DEF BeginReview
  <2>3. ASSUME NEW page \in Pages, BeginWrite(s, page) PROVE Paged(ids)'
    BY <1>1, <2>3 DEF BeginWrite, Valid
  <2>4. ASSUME NEW page \in Pages, Stage(s, page) PROVE Paged(ids)'
    BY <2>4, PagedBeside DEF Stage, call, Paged
  <2>5. CASE BeginCommit(s)
    BY <1>1, <2>5 DEF BeginCommit
  <2> QED BY <1>2, <2>1, <2>2, <2>3, <2>4, <2>5 DEF Start
<1>3. ASSUME NEW s \in Sessions, Acquire(s) \/ Release(s) PROVE Paged(ids)'
  <2>1. /\ ledger' = ledger /\ tool' = tool /\ args' = args /\ read' = read /\ next' = next
        /\ step'[s] \in {"read", "idle"} /\ step[s] \in {"lock", "unlock"}
        /\ \A q \in Sessions : q # s => step'[q] = step[q]
    BY <1>3 DEF IInv, TypeOK, Acquire, Release, Goto
  <2> QED BY <2>1, PagedBeside DEF Paged
<1>4. CASE (\E a \in Anchors : EditSource(a)) \/ UNCHANGED vars
  <2>1. ledger' = ledger /\ UNCHANGED <<step, tool, args, read, next>>
    BY <1>4 DEF EditSource, vars, call
  <2> QED BY <2>1, PagedBeside DEF Paged
<1> QED BY <1>2, <1>3, <1>4

(* Every step of reviewers keeps the numbers. *)
LEMMA NextPaged ==
    ASSUME IInv, AllReview, NEW ids, Paged(ids), [Next]_vars
    PROVE  Paged(ids)'
<1>1. ASSUME NEW s \in Sessions, Start(s) \/ Proceed(s) PROVE Paged(ids)'
  BY <1>1, OthersPaged, ReadPaged, OpenPaged, FillPaged DEF Proceed
<1>2. CASE (\E a \in Anchors : EditSource(a)) \/ Finished \/ UNCHANGED vars
  BY <1>2, OthersPaged DEF Finished
<1> QED BY <1>1, <1>2 DEF Next

(* However many reviewers of observations work on a page at a time without a  *)
(* lock, and see it truncated, none of them adds, drops or renumbers a record. *)
THEOREM ReviewsStable ==
    ASSUME ReviewsHavePage
    PROVE  Spec => ReviewsKeepIds
<1>1. Init => ReviewInv
  <2> SUFFICES ASSUME Init, AllReview PROVE \E ids : Paged(ids)
    BY DEF ReviewInv
  <2>1. PICK start \in Starts : mode = start.mode /\ ledger = start.ledger
    BY DEF Init
  <2>2. ledger # NoFile /\ IsFiniteSet(ledger)
    BY <2>1, LedgerAssumption DEF ReviewsHavePage, AllReview, Records
  <2>3. Paged(IdsOf(ledger))
    BY <2>2 DEF Paged, Init
  <2> QED BY <2>3
<1>2. IInv /\ ReviewInv /\ [Next]_vars =>
        /\ ReviewInv'
        /\ AllReview => IdsOf(SettledLedger') = IdsOf(SettledLedger)
  <2> SUFFICES ASSUME IInv, ReviewInv, [Next]_vars, AllReview \/ AllReview'
               PROVE  /\ \E ids : Paged(ids)'
                      /\ IdsOf(SettledLedger') = IdsOf(SettledLedger)
    BY DEF ReviewInv
  <2>1. AllReview
    BY ModeIsConstant DEF AllReview
  <2>2. PICK ids : Paged(ids)
    BY <2>1 DEF ReviewInv
  <2>3. Paged(ids)'
    BY <2>1, <2>2, NextPaged
  <2>4. IdsOf(SettledLedger) = ids
    BY <2>2, SettledIds
  <2>5. IdsOf(SettledLedger') = ids
    BY <2>3, SettledIdsAfter
  <2> QED BY <2>3, <2>4, <2>5
<1> QED BY <1>1, <1>2, Invariance, PTL DEF Spec, ReviewsKeepIds

=============================================================================
