---------------------------- MODULE RepoWriteLock ----------------------------
(***************************************************************************)
(* withRepoWriteLock (packages/harness/src/file-lock.ts): an advisory lock *)
(* over a set of repository paths, shared by operating system processes.   *)
(* A path is locked by creating its lock directory under                   *)
(* scratch/wiki-write-locks; mkdir is the only atomic step of the          *)
(* protocol.  The owner file is diagnostic and is never read back, so      *)
(* neither the release nor the removal of an old directory can tell whose  *)
(* directory it removes.                                                   *)
(*                                                                         *)
(* One step of a process is one file-system call.  Every process runs one  *)
(* call at a time (the functions are synchronous), and calls again later.  *)
(***************************************************************************)
EXTENDS Naturals

CONSTANTS
    Procs,          \* the processes that write the repository
    Targets,        \* repo-relative paths, numbered in their sort() order
    Free,           \* lock state: the lock directory does not exist
    Orphan,         \* lock state: a directory whose call has ended
    MaxCalls,       \* bound: calls of withRepoWriteLock per process
    OrphansAge,     \* may an orphaned directory reach WIKI_WRITE_LOCK_STALE_MS?
    Crashes,        \* may a process die in the middle of a call?
    Faults,         \* may a file-system call fail for a reason of its own?
    Timeouts        \* may a wait reach WIKI_WRITE_LOCK_TIMEOUT_MS?

ASSUME LockAssumption ==
    /\ Targets \subseteq Nat
    /\ MaxCalls \in Nat
    /\ Free \notin Procs
    /\ Orphan \notin Procs
    /\ Free # Orphan
    /\ {OrphansAge, Crashes, Faults, Timeouts} \subseteq BOOLEAN

VARIABLES
    pc,         \* pc[p]: the next file-system call of p
    want,       \* want[p]: the resolved targets of p's call
    held,       \* held[p]: the lock paths p has pushed to "held"
    lock,       \* lock[t]: Free, or whose call created the directory (history)
    stale,      \* the targets whose directory's mtime is staleMs old
    calls,      \* calls[p]: how many calls p has started
    failed      \* failed[p]: where p's call has met failures (history)

vars == <<pc, want, held, lock, stale, calls, failed>>

Steps == {"idle", "mkdir", "owner", "exists", "stat", "remove", "retry",
          "body", "relcheck", "relstat", "relrm", "done"}

(* Where a call has failed, and for which path. *)
Failures == {"owner", "release"} \X Targets

------------------------------------------------------------------------------
(* The order of acquisition and release *)

(* Mutant: targets are not sorted. *)
NextInAnyOrder(p, t) == t \in want[p] \ held[p]

(* acquire() runs over the sorted targets, those already in held excepted. *)
NextToAcquire(p, t) ==
    /\ t \in want[p] \ held[p]
    /\ \A u \in want[p] \ held[p] : t <= u

(* The finally clause runs over held.reverse(). *)
NextToRelease(p, t) ==
    /\ t \in held[p]
    /\ \A u \in held[p] : u <= t

Goto(p, step) == pc' = [pc EXCEPT ![p] = step]

------------------------------------------------------------------------------
(* Acquiring *)

(* Mutant: counts no bound. *)
CallUnbounded(p, scope) ==
    /\ pc[p] = "idle"
    /\ scope # {}
    /\ want' = [want EXCEPT ![p] = scope]
    /\ calls' = [calls EXCEPT ![p] = @ + 1]
    /\ Goto(p, "mkdir")
    /\ UNCHANGED <<held, lock, stale, failed>>

(* resolveLockTargets: an empty scope is an error and starts nothing. *)
Call(p, scope) ==
    /\ pc[p] = "idle"
    /\ calls[p] < MaxCalls
    /\ scope # {}
    /\ want' = [want EXCEPT ![p] = scope]
    /\ calls' = [calls EXCEPT ![p] = @ + 1]
    /\ Goto(p, "mkdir")
    /\ UNCHANGED <<held, lock, stale, failed>>

(* Mutant: mkdirSync(path, { recursive: true }) accepts what is there. *)
MkdirRecursive(p, t) ==
    /\ pc[p] = "mkdir"
    /\ NextToAcquire(p, t)
    /\ lock' = [lock EXCEPT ![t] = p]
    /\ stale' = stale \ {t}
    /\ Goto(p, "owner")
    /\ UNCHANGED <<want, held, calls, failed>>

(* acquire: mkdirSync(path) creates the directory ... *)
Mkdir(p, t) ==
    /\ pc[p] = "mkdir"
    /\ NextToAcquire(p, t)
    /\ lock[t] = Free
    /\ lock' = [lock EXCEPT ![t] = p]
    /\ stale' = stale \ {t}
    /\ Goto(p, "owner")
    /\ UNCHANGED <<want, held, calls, failed>>

(* ... or fails with EEXIST. *)
MkdirExists(p, t) ==
    /\ pc[p] = "mkdir"
    /\ NextToAcquire(p, t)
    /\ lock[t] # Free
    /\ Goto(p, "exists")
    /\ UNCHANGED <<want, held, lock, stale, calls, failed>>

(* The lock is held once owner.json is written; the new entry also renews  *)
(* the directory's mtime.                                                  *)
WriteOwner(p, t) ==
    /\ pc[p] = "owner"
    /\ NextToAcquire(p, t)
    /\ lock[t] # Free
    /\ stale' = stale \ {t}
    /\ held' = [held EXCEPT ![p] = @ \cup {t}]
    /\ Goto(p, IF want[p] \subseteq held'[p] THEN "body" ELSE "mkdir")
    /\ UNCHANGED <<want, lock, calls, failed>>

(* Mutant: acquire fails, or the body throws, and nothing is released. *)
UnwindWithoutFinally(p) == Goto(p, "done")

(* The finally clause, with nothing or something in held. *)
Unwind(p) == Goto(p, IF held[p] = {} THEN "done" ELSE "relcheck")

(* The directory was removed under the writer: ENOENT, and acquire throws. *)
OwnerGone(p, t) ==
    /\ pc[p] = "owner"
    /\ NextToAcquire(p, t)
    /\ lock[t] = Free
    /\ Unwind(p)
    /\ UNCHANGED <<want, held, lock, stale, calls, failed>>

(* A call before the directory is made fails, or one of removeStaleLock.   *)
AcquireFault(p) ==
    /\ Faults
    /\ pc[p] \in {"mkdir", "stat", "remove"}
    /\ Unwind(p)
    /\ UNCHANGED <<want, held, lock, stale, calls, failed>>

FailsAt(p, where, t) == failed' = [failed EXCEPT ![p] = @ \cup {<<where, t>>}]

(* Writing owner.json fails: acquire throws with the directory made and its *)
(* path not yet in held.                                                    *)
OwnerFault(p, t) ==
    /\ Faults
    /\ pc[p] = "owner"
    /\ NextToAcquire(p, t)
    /\ FailsAt(p, "owner", t)
    /\ Unwind(p)
    /\ UNCHANGED <<want, held, lock, stale, calls>>

------------------------------------------------------------------------------
(* removeStaleLock, and the wait *)

(* existsSync(path) *)
StaleExists(p, t) ==
    /\ pc[p] = "exists"
    /\ NextToAcquire(p, t)
    /\ Goto(p, IF lock[t] = Free THEN "retry" ELSE "stat")
    /\ UNCHANGED <<want, held, lock, stale, calls, failed>>

(* Mutant: the age is not compared. *)
StaleStatAnyAge(p, t) ==
    /\ pc[p] = "stat"
    /\ NextToAcquire(p, t)
    /\ IF lock[t] = Free THEN Unwind(p) ELSE Goto(p, "remove")
    /\ UNCHANGED <<want, held, lock, stale, calls, failed>>

(* Mutant: an old directory is never removed. *)
StaleStatNever(p, t) ==
    /\ pc[p] = "stat"
    /\ NextToAcquire(p, t)
    /\ Goto(p, "retry")
    /\ UNCHANGED <<want, held, lock, stale, calls, failed>>

(* lstat and stat of a directory that is gone throw, and so does acquire. *)
StaleStat(p, t) ==
    /\ pc[p] = "stat"
    /\ NextToAcquire(p, t)
    /\ IF lock[t] = Free
         THEN Unwind(p)
         ELSE Goto(p, IF t \in stale THEN "remove" ELSE "retry")
    /\ UNCHANGED <<want, held, lock, stale, calls, failed>>

(* rmSync removes whatever directory is at the path by now. *)
StaleRemove(p, t) ==
    /\ pc[p] = "remove"
    /\ NextToAcquire(p, t)
    /\ lock' = [lock EXCEPT ![t] = Free]
    /\ stale' = stale \ {t}
    /\ Goto(p, "retry")
    /\ UNCHANGED <<want, held, calls, failed>>

(* Not yet timed out: sleep and try again ... *)
Retry(p) ==
    /\ pc[p] = "retry"
    /\ Goto(p, "mkdir")
    /\ UNCHANGED <<want, held, lock, stale, calls, failed>>

(* ... or give up. *)
TimeOut(p) ==
    /\ Timeouts
    /\ pc[p] = "retry"
    /\ Unwind(p)
    /\ UNCHANGED <<want, held, lock, stale, calls, failed>>

------------------------------------------------------------------------------
(* The body and the finally clause *)

(* The body returns or throws: both run the finally clause. *)
EndBody(p) ==
    /\ pc[p] = "body"
    /\ Unwind(p)
    /\ UNCHANGED <<want, held, lock, stale, calls, failed>>

(* existsSync(path) *)
ReleaseExists(p, t) ==
    /\ pc[p] = "relcheck"
    /\ NextToRelease(p, t)
    /\ Goto(p, IF lock[t] = Free THEN "relrm" ELSE "relstat")
    /\ UNCHANGED <<want, held, lock, stale, calls, failed>>

(* canonicalRepoDirectoryForWrite passes ... *)
ReleaseStat(p) ==
    /\ pc[p] = "relstat"
    /\ Goto(p, "relrm")
    /\ UNCHANGED <<want, held, lock, stale, calls, failed>>

(* ... or throws, for a fault or because the directory vanished, as rmSync *)
(* may: the remaining iterations do not happen.                            *)
ReleaseThrows(p, t) ==
    /\ \/ pc[p] = "relstat" /\ (Faults \/ lock[t] = Free)
       \/ pc[p] = "relrm" /\ Faults
    /\ NextToRelease(p, t)
    /\ FailsAt(p, "release", t)
    /\ held' = [held EXCEPT ![p] = {}]
    /\ Goto(p, "done")
    /\ UNCHANGED <<want, lock, stale, calls>>

(* rmSync(path, force): removes whatever directory is there, or nothing. *)
ReleaseRemove(p, t) ==
    /\ pc[p] = "relrm"
    /\ NextToRelease(p, t)
    /\ lock' = [lock EXCEPT ![t] = Free]
    /\ stale' = stale \ {t}
    /\ held' = [held EXCEPT ![p] = @ \ {t}]
    /\ Goto(p, IF held'[p] = {} THEN "done" ELSE "relcheck")
    /\ UNCHANGED <<want, calls, failed>>

(* The call is over, with what it has left: no later one knows about it. *)
Over(p) ==
    /\ lock' = [t \in Targets |-> IF lock[t] = p THEN Orphan ELSE lock[t]]
    /\ failed' = [failed EXCEPT ![p] = {}]
    /\ held' = [held EXCEPT ![p] = {}]
    /\ want' = [want EXCEPT ![p] = {}]
    /\ Goto(p, "idle")

(* withRepoWriteLock returns or throws to its caller; held is local to it. *)
Return(p) ==
    /\ pc[p] = "done"
    /\ Over(p)
    /\ UNCHANGED <<stale, calls>>

------------------------------------------------------------------------------
(* The environment *)

(* The process dies; its directories stay.  A later call is by a new one. *)
Crash(p) ==
    /\ Crashes
    /\ pc[p] # "idle"
    /\ Over(p)
    /\ UNCHANGED <<stale, calls>>

(* Half an hour passes over a directory nobody will ever release. *)
Age(t) ==
    /\ OrphansAge
    /\ lock[t] = Orphan
    /\ t \notin stale
    /\ stale' = stale \cup {t}
    /\ UNCHANGED <<pc, want, held, lock, calls, failed>>

AllDone == \A p \in Procs : pc[p] = "idle" /\ calls[p] = MaxCalls

(* Every process has made its calls: the model stops here. *)
Finished == AllDone /\ UNCHANGED vars

------------------------------------------------------------------------------
Init ==
    /\ pc = [p \in Procs |-> "idle"]
    /\ want = [p \in Procs |-> {}]
    /\ held = [p \in Procs |-> {}]
    /\ lock = [t \in Targets |-> Free]
    /\ stale = {}
    /\ calls = [p \in Procs |-> 0]
    /\ failed = [p \in Procs |-> {}]

(* The steps the code takes by itself once a call has started. *)
Proceed(p) ==
    \/ Retry(p) \/ EndBody(p) \/ ReleaseStat(p) \/ Return(p)
    \/ \E t \in Targets :
        \/ Mkdir(p, t) \/ MkdirExists(p, t) \/ WriteOwner(p, t) \/ OwnerGone(p, t)
        \/ StaleExists(p, t) \/ StaleStat(p, t) \/ StaleRemove(p, t)
        \/ ReleaseExists(p, t) \/ ReleaseThrows(p, t) \/ ReleaseRemove(p, t)

(* The steps that need the environment. *)
Disturb(p) ==
    \/ \E scope \in SUBSET Targets : Call(p, scope)
    \/ AcquireFault(p) \/ TimeOut(p) \/ Crash(p)
    \/ \E t \in Targets : OwnerFault(p, t)

Next ==
    \/ \E p \in Procs : Proceed(p) \/ Disturb(p)
    \/ \E t \in Targets : Age(t)
    \/ Finished

Spec == Init /\ [][Next]_vars

(* Processes are scheduled, bodies end, callers call, and clocks advance. *)
Fairness ==
    /\ \A p \in Procs : WF_vars(Proceed(p))
    /\ \A p \in Procs : WF_vars(\E scope \in SUBSET Targets : Call(p, scope))
    /\ \A t \in Targets : WF_vars(Age(t))

FairSpec == Spec /\ Fairness

------------------------------------------------------------------------------
(* Properties *)

(* Every variable has its type. *)
TypeOK ==
    /\ pc \in [Procs -> Steps]
    /\ want \in [Procs -> SUBSET Targets]
    /\ held \in [Procs -> SUBSET Targets]
    /\ lock \in [Targets -> Procs \cup {Free, Orphan}]
    /\ stale \subseteq Targets
    /\ calls \in [Procs -> 0..MaxCalls]
    /\ failed \in [Procs -> SUBSET Failures]

(* Two callers that touch the same file are mutually exclusive: the bodies *)
(* of two calls never run at once over scopes that share a path            *)
(* (file-lock.ts, the doc of WriteLockScope).                              *)
MutualExclusion ==
    \A p, q \in Procs :
        p # q /\ pc[p] = "body" /\ pc[q] = "body" => want[p] \cap want[q] = {}

(* The process has t in held or has just created t's directory. *)
Possesses(p, t) ==
    \/ t \in held[p]
    \/ pc[p] = "owner" /\ NextToAcquire(p, t)

(* What a call leaves behind when it is over is no more than its failures  *)
(* account for: the one directory whose owner.json could not be written,   *)
(* and those from the path on whose release threw, which the code leaks    *)
(* although the process lives (file-lock.ts:79, :120; README, Findings).   *)
(* A wait that times out, a body that throws and any other failure of the  *)
(* acquisition leave nothing.                                              *)
OnlyFaultsLeak ==
    \A p \in Procs, t \in Targets : lock[t] = p =>
        \/ pc[p] # "done" /\ Possesses(p, t)
        \/ <<"owner", t>> \in failed[p]
        \/ \E u \in Targets : t <= u /\ <<"release", u>> \in failed[p]

(* A caller that is acquiring its locks and needs t next. *)
Acquiring(p, t) ==
    /\ pc[p] \in {"mkdir", "owner", "exists", "stat", "remove", "retry"}
    /\ NextToAcquire(p, t)

(* Callers cannot deadlock against each other (doc of withRepoWriteLock):  *)
(* along a chain of waiting callers, each needing a path that the next one *)
(* holds, the needed paths strictly ascend in sort order, so that no chain *)
(* closes into a cycle.                                                    *)
WaitsAscend ==
    \A p, q \in Procs, t, u \in Targets :
        Acquiring(p, t) /\ t \in held[q] /\ Acquiring(q, u) => t < u

(* With fair scheduling every process gets through all of its calls: no    *)
(* caller waits for ever, not even for the lock of a process that died.    *)
EveryCallReturns == <>[]AllDone

(* A caller of the lock enters and leaves exclusive sections. *)
Sections == INSTANCE ExclusiveSections WITH
    inside <- [p \in Procs |-> IF pc[p] = "body" THEN want[p] ELSE {}]

(* Whatever the interleaving of the file-system calls, callers see what    *)
(* ExclusiveSections promises, as long as no directory grows stale.        *)
ImplementsExclusiveSections == Sections!Spec
==============================================================================
