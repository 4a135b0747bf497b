------------------------ MODULE RepoWriteLockProofs ------------------------
(***************************************************************************)
(* Proofs about RepoWriteLock for any set of processes and paths, with     *)
(* crashes, faults and timeouts.  Exclusion needs that no directory ever   *)
(* reaches the stale age (~OrphansAge): the run lock_stale_steal shows     *)
(* that it does not hold otherwise.                                        *)
(***************************************************************************)
EXTENDS RepoWriteLock, TLAPS

------------------------------------------------------------------------------
(* Type correctness *)

(* The variables keep their types, with or without stale directories. *)
THEOREM TypeCorrect == Spec => []TypeOK
<1>1. Init => TypeOK
  BY LockAssumption DEF Init, TypeOK, Steps
<1>2. TypeOK /\ [Next]_vars => TypeOK'
  <2> SUFFICES ASSUME TypeOK, [Next]_vars PROVE TypeOK'
    OBVIOUS
  <2> USE LockAssumption DEF TypeOK, Steps, Goto
  <2>1. ASSUME NEW p \in Procs, Proceed(p) PROVE TypeOK'
    <3>1. CASE Retry(p) \/ EndBody(p) \/ ReleaseStat(p) \/ Return(p)
      BY <3>1 DEF Retry, EndBody, Unwind, ReleaseStat, Return, Over
    <3>2. ASSUME NEW t \in Targets,
                 Mkdir(p, t) \/ MkdirExists(p, t) \/ OwnerGone(p, t)
          PROVE  TypeOK'
      BY <3>2 DEF Mkdir, MkdirExists, OwnerGone, Unwind
    <3>3. ASSUME NEW t \in Targets, WriteOwner(p, t) PROVE TypeOK'
      BY <3>3 DEF WriteOwner
    <3>4. ASSUME NEW t \in Targets,
                 StaleExists(p, t) \/ StaleStat(p, t) \/ StaleRemove(p, t)
          PROVE  TypeOK'
      BY <3>4 DEF StaleExists, StaleStat, StaleRemove, Unwind
    <3>5. ASSUME NEW t \in Targets,
                 ReleaseExists(p, t) \/ ReleaseThrows(p, t)
          PROVE  TypeOK'
      <4>1. CASE ReleaseExists(p, t)
        BY <4>1 DEF ReleaseExists
      <4>2. CASE ReleaseThrows(p, t)
        <5>1. failed' \in [Procs -> SUBSET Failures]
          BY <4>2 DEF ReleaseThrows, FailsAt, Failures
        <5>2. held' \in [Procs -> SUBSET Targets] /\ pc' \in [Procs -> Steps]
          BY <4>2 DEF ReleaseThrows
        <5> QED BY <4>2, <5>1, <5>2 DEF ReleaseThrows
      <4> QED BY <3>5, <4>1, <4>2
    <3>6. ASSUME NEW t \in Targets, ReleaseRemove(p, t) PROVE TypeOK'
      BY <3>6 DEF ReleaseRemove
    <3> QED BY <2>1, <3>1, <3>2, <3>3, <3>4, <3>5, <3>6 DEF Proceed
  <2>2. ASSUME NEW p \in Procs, Disturb(p) PROVE TypeOK'
    <3>1. ASSUME NEW scope \in SUBSET Targets, Call(p, scope) PROVE TypeOK'
      BY <3>1 DEF Call
    <3>2. CASE AcquireFault(p) \/ TimeOut(p) \/ Crash(p)
      BY <3>2 DEF AcquireFault, TimeOut, Crash, Over, Unwind
    <3>3. ASSUME NEW t \in Targets, OwnerFault(p, t) PROVE TypeOK'
      BY <3>3 DEF OwnerFault, FailsAt, Failures, Unwind
    <3> QED BY <2>2, <3>1, <3>2, <3>3 DEF Disturb
  <2>3. ASSUME NEW t \in Targets, Age(t) PROVE TypeOK'
    BY <2>3 DEF Age
  <2>4. CASE Finished \/ UNCHANGED vars
    BY <2>4 DEF Finished, vars
  <2> QED BY <2>1, <2>2, <2>3, <2>4 DEF Next
<1> QED BY <1>1, <1>2, PTL DEF Spec

------------------------------------------------------------------------------
(* The inductive invariant *)

(* Nothing is held outside a call, and a body runs with its whole scope. *)
HeldMatchesStep ==
    \A p \in Procs :
        /\ held[p] \subseteq want[p]
        /\ pc[p] \in {"idle", "done"} => held[p] = {}
        /\ pc[p] = "body" => want[p] \subseteq held[p]
        /\ pc[p] # "idle" => want[p] # {}

(* A directory that a call has created and not yet removed is still its own. *)
PossessedIsOwn ==
    \A p \in Procs, t \in Targets : Possesses(p, t) => lock[t] = p

(* Held locks are always the first ones of the sorted scope, both while    *)
(* they are taken and while they are released in reverse.                  *)
HeldIsPrefix ==
    \A p \in Procs :
        \A t \in held[p], u \in want[p] : u < t => u \in held[p]

(* Without an old directory nobody gets to the rmSync of removeStaleLock. *)
NothingStale == stale = {} /\ \A p \in Procs : pc[p] # "remove"

IInv ==
    /\ TypeOK
    /\ HeldMatchesStep
    /\ PossessedIsOwn
    /\ HeldIsPrefix
    /\ NothingStale

(* The sorted order leaves no choice of the next target. *)
LEMMA NextIsUnique ==
    ASSUME TypeOK, NEW p \in Procs, NEW t \in Targets, NEW u \in Targets,
           NextToAcquire(p, t), NextToAcquire(p, u)
    PROVE  t = u
<1>1. t <= u /\ u <= t
  BY DEF NextToAcquire
<1>2. t \in Nat /\ u \in Nat
  BY LockAssumption
<1> QED BY <1>1, <1>2

LEMMA InitInv == Init => IInv
  BY LockAssumption DEF Init, IInv, TypeOK, Steps, HeldMatchesStep, PossessedIsOwn,
     Possesses, HeldIsPrefix, NothingStale, NextToAcquire

LEMMA StepInv == ~OrphansAge /\ IInv /\ TypeOK' /\ [Next]_vars => IInv'
<1> SUFFICES ASSUME ~OrphansAge, IInv, TypeOK', [Next]_vars PROVE IInv'
  OBVIOUS
<1> USE LockAssumption DEF IInv, TypeOK
<1> USE DEF HeldMatchesStep, PossessedIsOwn, HeldIsPrefix, NothingStale,
            Possesses, Goto
<1>1. ASSUME NEW p \in Procs, Proceed(p) PROVE IInv'
  <2>1. CASE Retry(p)
    BY <2>1 DEF Retry, NextToAcquire
  <2>2. CASE EndBody(p)
    BY <2>2 DEF EndBody, Unwind, NextToAcquire
  <2>3. CASE ReleaseStat(p)
    BY <2>3 DEF ReleaseStat, NextToAcquire
  <2>4. CASE Return(p)
    BY <2>4 DEF Return, Over, NextToAcquire
  <2>5. ASSUME NEW t \in Targets, Mkdir(p, t) PROVE IInv'
    <3>1. HeldMatchesStep'
      BY <2>5 DEF Mkdir, NextToAcquire
    <3>2. PossessedIsOwn'
      BY <2>5, NextIsUnique DEF Mkdir, NextToAcquire
    <3>3. HeldIsPrefix'
      BY <2>5 DEF Mkdir, NextToAcquire
    <3>4. NothingStale'
      BY <2>5 DEF Mkdir, NextToAcquire
    <3> QED BY <3>1, <3>2, <3>3, <3>4
  <2>6. ASSUME NEW t \in Targets, MkdirExists(p, t) PROVE IInv'
    BY <2>6 DEF MkdirExists, NextToAcquire
  <2>7. ASSUME NEW t \in Targets, WriteOwner(p, t) PROVE IInv'
    <3>1. HeldMatchesStep'
      BY <2>7 DEF WriteOwner, NextToAcquire
    <3>2. PossessedIsOwn'
      BY <2>7, NextIsUnique DEF WriteOwner, NextToAcquire
    <3>3. HeldIsPrefix'
      BY <2>7 DEF WriteOwner, NextToAcquire
    <3>4. NothingStale'
      BY <2>7 DEF WriteOwner, NextToAcquire
    <3> QED BY <3>1, <3>2, <3>3, <3>4
  <2>8. ASSUME NEW t \in Targets, OwnerGone(p, t) PROVE IInv'
    BY <2>8 DEF OwnerGone, Unwind, NextToAcquire
  <2>9. ASSUME NEW t \in Targets, StaleExists(p, t) PROVE IInv'
    BY <2>9 DEF StaleExists, NextToAcquire
  <2>10. ASSUME NEW t \in Targets, StaleStat(p, t) PROVE IInv'
    BY <2>10 DEF StaleStat, Unwind, NextToAcquire
  <2>11. ASSUME NEW t \in Targets, StaleRemove(p, t) PROVE IInv'
    BY <2>11 DEF StaleRemove
  <2>12. ASSUME NEW t \in Targets, ReleaseExists(p, t) PROVE IInv'
    BY <2>12 DEF ReleaseExists, NextToAcquire, NextToRelease
  <2>13. ASSUME NEW t \in Targets, ReleaseThrows(p, t) PROVE IInv'
    <3>1. HeldMatchesStep'
      BY <2>13 DEF ReleaseThrows, NextToAcquire
    <3>2. PossessedIsOwn'
      BY <2>13 DEF ReleaseThrows, NextToAcquire
    <3>3. HeldIsPrefix'
      <4>1. held'[p] = {}
        BY <2>13 DEF ReleaseThrows
      <4>2. \A q \in Procs \ {p} : held'[q] = held[q] /\ want'[q] = want[q]
        BY <2>13 DEF ReleaseThrows
      <4> QED BY <4>1, <4>2
    <3>4. NothingStale'
      BY <2>13 DEF ReleaseThrows, NextToAcquire
    <3> QED BY <3>1, <3>2, <3>3, <3>4
  <2>14. ASSUME NEW t \in Targets, ReleaseRemove(p, t) PROVE IInv'
    <3>1. HeldMatchesStep'
      BY <2>14 DEF ReleaseRemove, NextToRelease, NextToAcquire
    <3>2. PossessedIsOwn'
      BY <2>14 DEF ReleaseRemove, NextToRelease, NextToAcquire
    <3>3. HeldIsPrefix'
      BY <2>14 DEF ReleaseRemove, NextToRelease, NextToAcquire
    <3>4. NothingStale'
      BY <2>14 DEF ReleaseRemove, NextToRelease, NextToAcquire
    <3> QED BY <3>1, <3>2, <3>3, <3>4
  <2> QED BY <1>1, <2>1, <2>2, <2>3, <2>4, <2>5, <2>6, <2>7, <2>8, <2>9, <2>10,
             <2>11, <2>12, <2>13, <2>14 DEF Proceed
<1>2. ASSUME NEW p \in Procs, Disturb(p) PROVE IInv'
  <2>1. ASSUME NEW scope \in SUBSET Targets, Call(p, scope) PROVE IInv'
    BY <2>1 DEF Call, NextToAcquire
  <2>2. CASE AcquireFault(p)
    BY <2>2 DEF AcquireFault, Unwind, NextToAcquire
  <2>3. CASE TimeOut(p)
    BY <2>3 DEF TimeOut, Unwind, NextToAcquire
  <2>4. CASE Crash(p)
    <3>1. HeldMatchesStep'
      BY <2>4 DEF Crash, Over, NextToAcquire
    <3>2. PossessedIsOwn'
      BY <2>4 DEF Crash, Over, NextToAcquire
    <3>3. HeldIsPrefix'
      <4>1. held'[p] = {}
        BY <2>4 DEF Crash, Over
      <4>2. \A q \in Procs \ {p} : held'[q] = held[q] /\ want'[q] = want[q]
        BY <2>4 DEF Crash, Over
      <4> QED BY <4>1, <4>2
    <3>4. NothingStale'
      BY <2>4 DEF Crash, Over, NextToAcquire
    <3> QED BY <3>1, <3>2, <3>3, <3>4
  <2>5. ASSUME NEW t \in Targets, OwnerFault(p, t) PROVE IInv'
    BY <2>5, NextIsUnique DEF OwnerFault, Unwind, NextToAcquire
  <2> QED BY <1>2, <2>1, <2>2, <2>3, <2>4, <2>5 DEF Disturb
<1>3. ASSUME NEW t \in Targets, Age(t) PROVE IInv'
  BY <1>3 DEF Age
<1>4. CASE Finished \/ UNCHANGED vars
  BY <1>4 DEF Finished, vars, NextToAcquire
<1> QED BY <1>1, <1>2, <1>3, <1>4 DEF Next

(* The inductive invariant holds in every reachable state. *)
THEOREM Invariance == ASSUME ~OrphansAge PROVE Spec => []IInv
<1>1. IInv /\ TypeOK' /\ [Next]_vars => IInv'
  BY StepInv
<1> QED BY <1>1, InitInv, TypeCorrect, PTL DEF Spec

(* Two bodies over a shared path never run at once. *)
THEOREM Exclusion == ASSUME ~OrphansAge PROVE Spec => []MutualExclusion
<1>1. IInv => MutualExclusion
  BY DEF IInv, TypeOK, HeldMatchesStep, PossessedIsOwn, Possesses, MutualExclusion
<1> QED BY <1>1, Invariance, PTL

(* Waiting callers never form a cycle: the paths they need ascend. *)
THEOREM NoWaitCycle == ASSUME ~OrphansAge PROVE Spec => []WaitsAscend
<1>1. IInv => WaitsAscend
  BY LockAssumption
     DEF IInv, TypeOK, HeldMatchesStep, HeldIsPrefix, WaitsAscend, Acquiring, NextToAcquire
<1> QED BY <1>1, Invariance, PTL

------------------------------------------------------------------------------
(* What calls leave behind, with or without stale directories *)

LInv == TypeOK /\ HeldMatchesStep /\ OnlyFaultsLeak

LEMMA InitLeaks == Init => LInv
  BY LockAssumption DEF Init, LInv, TypeOK, Steps, HeldMatchesStep, OnlyFaultsLeak

(* A step that changes neither the directories nor what p and the others   *)
(* have met, and after which p still removes what it would have removed.   *)
LEMMA StillAccounted ==
    ASSUME TypeOK, OnlyFaultsLeak, NEW p \in Procs,
           lock' = lock, failed' = failed,
           \A q \in Procs \ {p} :
               pc'[q] = pc[q] /\ held'[q] = held[q] /\ want'[q] = want[q],
           \A t \in Targets : lock[t] = p /\ pc[p] # "done" /\ Possesses(p, t) =>
               pc'[p] # "done" /\ Possesses(p, t)'
    PROVE  OnlyFaultsLeak'
  BY DEF OnlyFaultsLeak, Possesses, NextToAcquire

LEMMA StepLeaks == LInv /\ TypeOK' /\ [Next]_vars => LInv'
<1> SUFFICES ASSUME LInv, TypeOK', [Next]_vars PROVE LInv'
  OBVIOUS
<1> USE LockAssumption DEF LInv, TypeOK, HeldMatchesStep, Goto
<1>1. ASSUME NEW p \in Procs, Proceed(p) PROVE LInv'
  <2>1. CASE Retry(p) \/ EndBody(p) \/ ReleaseStat(p)
    <3>1. HeldMatchesStep'
      BY <2>1 DEF Retry, EndBody, Unwind, ReleaseStat
    <3>2. OnlyFaultsLeak'
      BY <2>1, StillAccounted DEF Retry, EndBody, Unwind, ReleaseStat, Possesses
    <3> QED BY <3>1, <3>2
  <2>2. CASE Return(p)
    <3>1. HeldMatchesStep'
      BY <2>2 DEF Return, Over
    <3>2. OnlyFaultsLeak'
      BY <2>2 DEF Return, Over, OnlyFaultsLeak, Possesses, NextToAcquire
    <3> QED BY <3>1, <3>2
  <2>3. ASSUME NEW t \in Targets, Mkdir(p, t) PROVE LInv'
    <3>1. HeldMatchesStep'
      BY <2>3 DEF Mkdir
    <3>2. OnlyFaultsLeak'
      BY <2>3 DEF Mkdir, OnlyFaultsLeak, Possesses, NextToAcquire
    <3> QED BY <3>1, <3>2
  <2>4. ASSUME NEW t \in Targets,
               MkdirExists(p, t) \/ StaleExists(p, t) \/ StaleStat(p, t)
        PROVE  LInv'
    <3>1. HeldMatchesStep'
      BY <2>4 DEF MkdirExists, StaleExists, StaleStat, Unwind
    <3>2. OnlyFaultsLeak'
      BY <2>4, StillAccounted DEF MkdirExists, StaleExists, StaleStat, Unwind, Possesses
    <3> QED BY <3>1, <3>2
  <2>5. ASSUME NEW t \in Targets, WriteOwner(p, t) PROVE LInv'
    <3>1. HeldMatchesStep'
      BY <2>5 DEF WriteOwner, NextToAcquire
    <3>2. OnlyFaultsLeak'
      BY <2>5, NextIsUnique DEF WriteOwner, OnlyFaultsLeak, Possesses, NextToAcquire
    <3> QED BY <3>1, <3>2
  <2>6. ASSUME NEW t \in Targets, OwnerGone(p, t) PROVE LInv'
    <3>1. HeldMatchesStep'
      BY <2>6 DEF OwnerGone, Unwind
    <3>2. OnlyFaultsLeak'
      BY <2>6, NextIsUnique DEF OwnerGone, Unwind, OnlyFaultsLeak, Possesses, NextToAcquire
    <3> QED BY <3>1, <3>2
  <2>7. ASSUME NEW t \in Targets, StaleRemove(p, t) PROVE LInv'
    <3>1. HeldMatchesStep'
      BY <2>7 DEF StaleRemove
    <3>2. OnlyFaultsLeak'
      BY <2>7 DEF StaleRemove, OnlyFaultsLeak, Possesses, NextToAcquire
    <3> QED BY <3>1, <3>2
  <2>8. ASSUME NEW t \in Targets, ReleaseExists(p, t) PROVE LInv'
    <3>1. HeldMatchesStep'
      BY <2>8 DEF ReleaseExists, NextToRelease
    <3>2. OnlyFaultsLeak'
      BY <2>8, StillAccounted DEF ReleaseExists, Possesses
    <3> QED BY <3>1, <3>2
  <2>9. ASSUME NEW t \in Targets, ReleaseThrows(p, t) PROVE LInv'
    <3>1. HeldMatchesStep'
      BY <2>9 DEF ReleaseThrows
    <3>2. OnlyFaultsLeak'
      BY <2>9 DEF ReleaseThrows, FailsAt, OnlyFaultsLeak, Possesses, NextToAcquire, NextToRelease
    <3> QED BY <3>1, <3>2
  <2>10. ASSUME NEW t \in Targets, ReleaseRemove(p, t) PROVE LInv'
    <3>1. HeldMatchesStep'
      BY <2>10 DEF ReleaseRemove, NextToRelease
    <3>2. OnlyFaultsLeak'
      BY <2>10 DEF ReleaseRemove, OnlyFaultsLeak, Possesses, NextToAcquire, NextToRelease
    <3> QED BY <3>1, <3>2
  <2> QED BY <1>1, <2>1, <2>2, <2>3, <2>4, <2>5, <2>6, <2>7, <2>8, <2>9, <2>10 DEF Proceed
<1>2. ASSUME NEW p \in Procs, Disturb(p) PROVE LInv'
  <2>1. ASSUME NEW scope \in SUBSET Targets, Call(p, scope) PROVE LInv'
    <3>1. HeldMatchesStep'
      BY <2>1 DEF Call
    <3>2. OnlyFaultsLeak'
      BY <2>1, StillAccounted DEF Call, Possesses
    <3> QED BY <3>1, <3>2
  <2>2. CASE AcquireFault(p) \/ TimeOut(p)
    <3>1. HeldMatchesStep'
      BY <2>2 DEF AcquireFault, TimeOut, Unwind
    <3>2. OnlyFaultsLeak'
      BY <2>2, StillAccounted DEF AcquireFault, TimeOut, Unwind, Possesses
    <3> QED BY <3>1, <3>2
  <2>3. CASE Crash(p)
    <3>1. HeldMatchesStep'
      BY <2>3 DEF Crash, Over
    <3>2. OnlyFaultsLeak'
      BY <2>3 DEF Crash, Over, OnlyFaultsLeak, Possesses, NextToAcquire
    <3> QED BY <3>1, <3>2
  <2>4. ASSUME NEW t \in Targets, OwnerFault(p, t) PROVE LInv'
    <3>1. HeldMatchesStep'
      BY <2>4 DEF OwnerFault, Unwind
    <3>2. OnlyFaultsLeak'
      BY <2>4, NextIsUnique
         DEF OwnerFault, FailsAt, Unwind, OnlyFaultsLeak, Possesses, NextToAcquire
    <3> QED BY <3>1, <3>2
  <2> QED BY <1>2, <2>1, <2>2, <2>3, <2>4 DEF Disturb
<1>3. ASSUME NEW t \in Targets, Age(t) PROVE LInv'
  BY <1>3 DEF Age, OnlyFaultsLeak, Possesses, NextToAcquire
<1>4. CASE Finished \/ UNCHANGED vars
  BY <1>4 DEF Finished, vars, OnlyFaultsLeak, Possesses, NextToAcquire
<1> QED BY <1>1, <1>2, <1>3, <1>4 DEF Next

(* A call that is over has left no more than its own failures account for, *)
(* even when its directories are stolen meanwhile.                         *)
THEOREM NoLeak == Spec => []OnlyFaultsLeak
<1>1. LInv /\ TypeOK' /\ [Next]_vars => LInv'
  BY StepLeaks
<1>2. LInv => OnlyFaultsLeak
  BY DEF LInv
<1> QED BY <1>1, <1>2, InitLeaks, TypeCorrect, PTL DEF Spec

------------------------------------------------------------------------------
(* Refinement *)

Inside == [p \in Procs |-> IF pc[p] = "body" THEN want[p] ELSE {}]

LEMMA StepImplements ==
    IInv /\ IInv' /\ [Next]_vars => [Sections!Next]_Inside
<1> SUFFICES ASSUME IInv, IInv', Next, Inside' # Inside PROVE Sections!Next
  BY DEF vars, Inside
<1> USE DEF IInv, TypeOK, Goto
<1>1. ASSUME NEW p \in Procs, pc[p] = "body", pc'[p] # "body",
             \A q \in Procs \ {p} : pc'[q] = pc[q] /\ want'[q] = want[q]
      PROVE  Sections!Leave(p)
  <2>1. Inside[p] # {}
    BY <1>1 DEF Inside, HeldMatchesStep
  <2>2. Inside' = [Inside EXCEPT ![p] = {}]
    BY <1>1 DEF Inside
  <2> QED BY <2>1, <2>2 DEF Sections!Leave, Inside
<1>2. ASSUME NEW p \in Procs, NEW t \in Targets, WriteOwner(p, t), pc'[p] = "body"
      PROVE  Sections!Enter(p, want[p])
  <2>1. Inside[p] = {} /\ want[p] # {}
    BY <1>2 DEF WriteOwner, Inside, HeldMatchesStep
  <2>2. \A q \in Procs : Inside[q] \cap want[p] = {}
    BY <1>2, <2>1 DEF WriteOwner, Inside, HeldMatchesStep, PossessedIsOwn, Possesses
  <2>3. Inside' = [Inside EXCEPT ![p] = want[p]]
    BY <1>2 DEF WriteOwner, Inside
  <2> QED BY <2>1, <2>2, <2>3 DEF Sections!Enter, Inside
<1>3. ASSUME NEW p \in Procs, Proceed(p) PROVE Sections!Next
  <2>1. CASE EndBody(p)
    BY <2>1, <1>1 DEF EndBody, Unwind, Sections!Next
  <2>2. ASSUME NEW t \in Targets, WriteOwner(p, t) PROVE Sections!Next
    <3>1. CASE pc'[p] = "body"
      <4>1. want[p] \in SUBSET Targets /\ Sections!Enter(p, want[p])
        BY <2>2, <3>1, <1>2
      <4> QED BY <4>1 DEF Sections!Next, Sections!Enter
    <3>2. CASE pc'[p] # "body"
      BY <2>2, <3>2 DEF WriteOwner, Inside
    <3> QED BY <3>1, <3>2
  <2>3. CASE Retry(p) \/ ReleaseStat(p) \/ Return(p)
    BY <2>3 DEF Retry, ReleaseStat, Return, Over, Inside
  <2>4. ASSUME NEW t \in Targets,
               Mkdir(p, t) \/ MkdirExists(p, t) \/ OwnerGone(p, t)
        PROVE  Sections!Next
    BY <2>4 DEF Mkdir, MkdirExists, OwnerGone, Unwind, Inside
  <2>5. ASSUME NEW t \in Targets,
               StaleExists(p, t) \/ StaleStat(p, t) \/ StaleRemove(p, t)
        PROVE  Sections!Next
    BY <2>5 DEF StaleExists, StaleStat, StaleRemove, Unwind, Inside
  <2>6. ASSUME NEW t \in Targets,
               ReleaseExists(p, t) \/ ReleaseThrows(p, t)
        PROVE  Sections!Next
    BY <2>6 DEF ReleaseExists, ReleaseThrows, Inside
  <2>7. ASSUME NEW t \in Targets, ReleaseRemove(p, t) PROVE Sections!Next
    BY <2>7 DEF ReleaseRemove, Inside
  <2> QED BY <1>3, <2>1, <2>2, <2>3, <2>4, <2>5, <2>6, <2>7 DEF Proceed
<1>4. ASSUME NEW p \in Procs, Disturb(p) PROVE Sections!Next
  <2>1. ASSUME NEW scope \in SUBSET Targets, Call(p, scope) PROVE Sections!Next
    BY <2>1 DEF Call, Inside
  <2>2. CASE AcquireFault(p) \/ TimeOut(p)
    BY <2>2 DEF AcquireFault, TimeOut, Unwind, Inside
  <2>3. CASE Crash(p)
    <3>1. CASE pc[p] = "body"
      BY <2>3, <3>1, <1>1 DEF Crash, Over, Sections!Next
    <3>2. CASE pc[p] # "body"
      BY <2>3, <3>2 DEF Crash, Over, Inside
    <3> QED BY <3>1, <3>2
  <2>4. ASSUME NEW t \in Targets, OwnerFault(p, t) PROVE Sections!Next
    BY <2>4 DEF OwnerFault, Unwind, Inside
  <2> QED BY <1>4, <2>1, <2>2, <2>3, <2>4 DEF Disturb
<1>5. ASSUME NEW t \in Targets, Age(t) PROVE Sections!Next
  BY <1>5 DEF Age, Inside
<1>6. CASE Finished
  BY <1>6 DEF Finished, vars, Inside
<1> QED BY <1>3, <1>4, <1>5, <1>6 DEF Next

(* The lock implements ExclusiveSections: entering a body is Enter, ending *)
(* it or dying in it is Leave, and every other step is invisible.          *)
THEOREM LockImplementsSections ==
    ASSUME ~OrphansAge PROVE Spec => ImplementsExclusiveSections
<1>1. Init => Sections!Init
  BY DEF Init, Sections!Init
<1>2. IInv /\ IInv' /\ [Next]_vars => [Sections!Next]_Inside
  BY StepImplements
<1> QED BY <1>1, <1>2, Invariance, PTL DEF Spec, ImplementsExclusiveSections, Sections!Spec, Inside

==============================================================================
