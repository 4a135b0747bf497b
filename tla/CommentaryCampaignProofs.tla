----------------------- MODULE CommentaryCampaignProofs -----------------------
(***************************************************************************)
(* Proofs about the campaign.  What holds however runs and retries overlap *)
(* comes first: the types, which worker has the thread of its run, and     *)
(* what an output is bound to.  The rest needs operators who start nothing *)
(* while a run or a retry is going: campaign_overlap is the counterexample *)
(* without that.  Runs crash and writes fail throughout.                   *)
(***************************************************************************)
EXTENDS CommentaryCampaign, FiniteSetTheorems, FunctionTheorems, TLAPS

(* Steps of a worker that has the thread; and those after the answer. *)
Answered == {"block", "output", "state", "check", "usage", "undo_output",
             "undo_state", "compare", "clear", "cleanup"}
Held == {"schema", "ask"} \cup Answered

------------------------------------------------------------------------------
(* The invariants *)

(* Only the worker that has the thread is between two awaits; a run that is *)
(* not at work has no worker on the way, and a run that stops no worker     *)
(* that is about to ask.                                                    *)
WorkerInPlace(x) ==
    /\ at[x] \in Held => turn[x[1]] = x[2]
    /\ turn[x[1]] = x[2] => at[x] \in Held \cup {"loop"}
    /\ at[x] \in {"loop", "done"} <=> job[x] = NoJob
    /\ at[x] # "done" => phase[x[1]] = "working"
    /\ at[x] \in {"schema", "ask"} => x[1] \notin stop
    /\ at[x] \in Answered => from[x] \in Versions

Threads == \A x \in Workers : WorkerInPlace(x)

TInv == TypeOK /\ Threads

(* Every output and state of an audit names the input in the manifest of the *)
(* run that paid for it, and a run that owns a file has its manifest.        *)
BoundToManifest ==
    /\ \A j \in Jobs, k \in {"output", "state"} : Exists(j, k) =>
        /\ phase[file[j][k].by] # "off"
        /\ file[j][k].input = manifest[file[j][k].by][j]
    /\ \A x \in Workers : at[x] \in Answered => from[x] = manifest[x[1]][job[x]]

MInv == TInv /\ BoundToManifest

(* At most one run or retry is going. *)
Alone ==
    /\ \A r, q \in Runs : Active(r) /\ Active(q) => r = q
    /\ \A r \in Runs : Active(r) => retrying = {}
    /\ retrying = {} => moving = {}

JobsApart ==
    /\ \A x, y \in Workers : job[x] = job[y] /\ job[x] # NoJob => x = y
    /\ \A x \in Workers : job[x] \notin pending[x[1]]

Untouched(j) == \A k \in KindSet : ~Exists(j, k)

Paid(j, k, r) == Exists(j, k) /\ file[j][k].by = r

(* What inspectResume finds missing for run r. *)
Missing(r, j) ==
    /\ ~Exists(j, "output") /\ ~Exists(j, "state")
    /\ ~Reusable(j, manifest[r][j])

Bound(r) == IF Limit[r] = Unlimited THEN 1 ELSE Limit[r]

(* The jobs that the run has taken from the manifest. *)
Taken(r) == {j \in Jobs : results[r][j] \in {"none", "generated"}}

(* The output and the state are those of the answer, or there are none. *)
PairMatches(x) ==
    IF response[x] \in Verdicts
    THEN Paid(job[x], "output", x[1]) /\ Paid(job[x], "state", x[1])
    ELSE ~Exists(job[x], "output") /\ ~Exists(job[x], "state")

(* A write of the attempt of run r at job j has failed, up to its record. *)
Faulted(r, j) == \E step \in {"block", "output", "state", "usage"} : <<r, j, step>> \in faults

(* There was no request, it is on record, or a write has failed. *)
Recorded(r, j) == requests[r][j] = 0 \/ Paid(j, "usage", r) \/ Faulted(r, j)

(* What the files, the requests and the results say of the job of a worker. *)
WorkerOnJob(x) ==
    LET r == x[1]
        j == job[x]
    IN  /\ results[r][j] = "none"
        /\ at[x] \in {"schema", "ask"} => requests[r][j] = 0
        /\ at[x] \notin {"schema", "ask", "settle"} => requests[r][j] = 1
        /\ at[x] \in {"ask", "wait"} => j \in schema
        /\ at[x] \in {"schema", "ask", "wait", "block", "output"} => Untouched(j)
        /\ at[x] = "state" =>
            Paid(j, "output", r) /\ ~Exists(j, "state") /\ ~Exists(j, "usage")
        /\ at[x] \in {"check", "usage"} => ~Exists(j, "usage") /\ PairMatches(x)
        /\ at[x] = "undo_output" => Paid(j, "output", r) /\ Paid(j, "state", r)
        /\ at[x] = "undo_state" => ~Exists(j, "output") /\ Paid(j, "state", r)
        /\ at[x] \in {"undo_output", "undo_state"} =>
            <<r, j, "usage">> \in faults /\ response[x] \notin Verdicts
        /\ at[x] \in {"compare", "clear"} => Paid(j, "usage", r) /\ PairMatches(x)
        /\ at[x] \in {"cleanup", "settle"} =>
            /\ Recorded(r, j)
            /\ response[x] \in Verdicts => Paid(j, "output", r) /\ Paid(j, "state", r)
        /\ at[x] \in {"output", "state", "compare", "clear"} => response[x] \in Verdicts
        /\ at[x] = "block" => response[x] \notin Verdicts
        /\ at[x] = "clear" => block = snapshot[x]

(* What a run that has not started its workers has found. *)
NothingDone(r) ==
    /\ pending[r] = {} /\ failures[r] = {} /\ r \notin stop
    /\ \A j \in Jobs : requests[r][j] = 0

MissingAreClean(r) ==
    /\ \A j \in Jobs : Missing(r, j) => ~Exists(j, "usage")
    /\ Limit[r] = Unlimited => Cardinality({j \in Jobs : Missing(r, j)}) <= 1

(* Every job that was taken is pending, with a worker, failed or generated. *)
AtWork(r) ==
    /\ \A j \in pending[r] :
        results[r][j] = "none" /\ requests[r][j] = 0 /\ Untouched(j)
    /\ \A j \in Jobs : results[r][j] = "none" =>
        j \in pending[r] \cup failures[r] \/ \E s \in Slots : job[<<r, s>>] = j
    /\ \A j \in Jobs : requests[r][j] > 0 => j \in Taken(r)
    /\ Cardinality(Taken(r)) <= Bound(r)
    /\ at[<<r, 1>>] = "done" => pending[r] = {} \/ r \in stop
    /\ r \in stop => failures[r] # {}

Ended(r) == phase[r] \in {"reported", "refused", "dead"}

(* A pair that was resumed is of a run that takes nothing back any more. *)
ResultHolds(r, j) ==
    /\ results[r][j] = "deferred" => Limit[r] # Unlimited
    /\ results[r][j] = "generated" => Kept(j, "output", r) /\ Kept(j, "state", r)
    /\ results[r][j] = "reused_canonical" => Canonical[j] = manifest[r][j]
    /\ results[r][j] = "resumed" =>
        \E q \in Runs : Ended(q) /\ Kept(j, "output", q) /\ Kept(j, "state", q)

(* A run that owns a file has started its workers. *)
OwnersHaveStarted ==
    \A j \in Jobs, k \in KindSet : Exists(j, k) => phase[file[j][k].by] \notin {"off", "checked"}

RunInPhase(r) ==
    /\ phase[r] \in {"off", "checked"} => NothingDone(r)
    /\ phase[r] = "checked" => MissingAreClean(r)
    /\ phase[r] = "working" => AtWork(r)
    /\ phase[r] \in {"working", "reported"} => \A j \in Jobs : ResultHolds(r, j)
    /\ phase[r] = "reported" => \A j \in Jobs : results[r][j] # "none"

IInv ==
    /\ TInv /\ Alone /\ JobsApart
    /\ \A x \in Workers : job[x] # NoJob => WorkerOnJob(x)
    /\ \A r \in Runs : RunInPhase(r)
    /\ OwnersHaveStarted
    /\ SpendingIsBounded
    /\ AttemptsAreRecorded

------------------------------------------------------------------------------
(* Types and threads, however runs overlap *)

LEMMA WorkerIsPair ==
    ASSUME NEW x \in Workers
    PROVE  x[1] \in Runs /\ x[2] \in Slots /\ x = <<x[1], x[2]>> /\ x[2] # Nobody
BY CampaignAssumption DEF Workers

LEMMA BusyWorker ==
    ASSUME TInv, NEW x \in Workers
    PROVE  /\ WorkerInPlace(x)
           /\ at[x] \notin {"loop", "done"} => job[x] \in Jobs
<1>1. WorkerInPlace(x)
  BY DEF TInv, Threads
<1>2. job[x] \in Jobs \cup {NoJob}
  BY DEF TInv, TypeOK
<1> QED BY <1>1, <1>2 DEF WorkerInPlace

(* What a step of worker x does to its own entries is enough to know that   *)
(* threads stay in order: no other worker of its run has the thread.        *)
LEMMA OthersStayInPlace ==
    ASSUME TInv, NEW x \in Workers, MayTake(x),
           \A y \in Workers : y # x =>
              at'[y] = at[y] /\ job'[y] = job[y] /\ from'[y] = from[y],
           \A q \in Runs : q # x[1] => turn'[q] = turn[q],
           turn'[x[1]] \in {x[2], Nobody},
           phase' = phase,
           stop' \subseteq stop \cup {x[1]},
           WorkerInPlace(x)'
    PROVE  Threads'
<1> SUFFICES ASSUME NEW y \in Workers, y # x PROVE WorkerInPlace(y)'
  BY DEF Threads
<1>1. WorkerInPlace(y) /\ x[1] \in Runs /\ y[1] \in Runs
  BY WorkerIsPair DEF TInv, Threads
<1>2. CASE y[1] # x[1]
  BY <1>1, <1>2 DEF WorkerInPlace
<1>3. CASE y[1] = x[1]
  <2>1. y[2] # x[2] /\ y[2] # Nobody
    BY <1>3, WorkerIsPair, Zenon
  <2> QED BY <1>1, <1>3, <2>1 DEF WorkerInPlace, MayTake, Held
<1> QED BY <1>2, <1>3

(* A table of tables keeps its type when one entry gets a new value. *)
LEMMA TableEntry ==
    ASSUME NEW A, NEW B, NEW C, NEW f \in [A -> [B -> C]],
           NEW i \in A, NEW j \in B, NEW c \in C
    PROVE  [f EXCEPT ![i][j] = c] \in [A -> [B -> C]]
<1> DEFINE g == [f[i] EXCEPT ![j] = c]
<1>1. g \in [B -> C]
  OBVIOUS
<1>2. [f EXCEPT ![i] = g] \in [A -> [B -> C]]
  BY <1>1
<1> QED BY <1>2

(* ... and that entry alone differs. *)
LEMMA TableOther ==
    ASSUME NEW A, NEW B, NEW C, NEW f \in [A -> [B -> C]],
           NEW i \in A, NEW j \in B, NEW c,
           NEW k \in A, NEW l \in B
    PROVE  [f EXCEPT ![i][j] = c][k][l] = (IF k = i /\ l = j THEN c ELSE f[k][l])
OBVIOUS

LEMMA TakeTyped ==
    ASSUME TInv, NEW x \in Workers, Take(x)
    PROVE  TInv'
<1> USE DEF TInv, Goto, KeepThread
<1>0. x[1] \in Runs /\ x[2] \in Slots /\ x[2] # Nobody
  BY WorkerIsPair
<1>1. PICK j \in Jobs :
        /\ pending' = [pending EXCEPT ![x[1]] = @ \ {j}]
        /\ job' = [job EXCEPT ![x] = j]
  BY DEF Take
<1>2. TypeOK'
  BY <1>0, <1>1 DEF TypeOK, Take, files, run, retry, bounds, Steps
<1>3. WorkerInPlace(x)'
  <2>1. at'[x] = "schema" /\ turn'[x[1]] = x[2] /\ job'[x] = j /\ from'[x] = from[x]
    BY <1>0, <1>1 DEF TypeOK, Take
  <2>2. phase'[x[1]] = "working" /\ x[1] \notin stop'
    BY BusyWorker DEF Take, Schedules, WorkerInPlace
  <2> QED BY <2>1, <2>2, CampaignAssumption DEF WorkerInPlace, Held, Answered
<1>4. Threads'
  BY <1>0, <1>1, <1>3, OthersStayInPlace DEF TypeOK, Take
<1> QED BY <1>2, <1>4

LEMMA LeaveTyped ==
    ASSUME TInv, NEW x \in Workers, Leave(x)
    PROVE  TInv'
<1> USE DEF TInv, TypeOK, Goto, KeepThread, GiveUpThread
<1>0. x[1] \in Runs /\ x[2] \in Slots /\ x[2] # Nobody
  BY WorkerIsPair
<1>1. TypeOK'
  BY <1>0 DEF Leave, files, run, retry, bounds, Steps
<1>2. WorkerInPlace(x)'
  BY <1>0, CampaignAssumption DEF Leave, run, WorkerInPlace, Threads, Held, Answered
<1>3. Threads'
  BY <1>0, <1>2, OthersStayInPlace DEF Leave, run
<1> QED BY <1>1, <1>3

LEMMA WriteSchemaTyped ==
    ASSUME TInv, NEW x \in Workers, WriteSchema(x)
    PROVE  TInv'
<1> USE DEF TInv, Goto, KeepThread, GiveUpThread
<1>0. x[1] \in Runs /\ x[2] \in Slots /\ x[2] # Nobody /\ WorkerInPlace(x)
  BY WorkerIsPair, BusyWorker
<1>1. TypeOK'
  BY <1>0, BusyWorker DEF TypeOK, WriteSchema, files, run, retry, bounds, Steps
<1>2. WorkerInPlace(x)'
  BY <1>0, CampaignAssumption DEF TypeOK, WriteSchema, run, WorkerInPlace, Held, Answered
<1>3. Threads'
  BY <1>0, <1>2, OthersStayInPlace DEF TypeOK, WriteSchema, run, Holds, MayTake
<1> QED BY <1>1, <1>3

LEMMA AskTyped ==
    ASSUME TInv, NEW x \in Workers, Ask(x)
    PROVE  TInv'
<1> USE DEF TInv, TypeOK, Goto, KeepThread, GiveUpThread
<1>0. x[1] \in Runs /\ x[2] \in Slots /\ x[2] # Nobody
  BY WorkerIsPair
<1>1. TypeOK'
  <2>1. job[x] \in Jobs
    BY BusyWorker DEF Ask
  <2>2. requests' \in [Runs -> [Jobs -> Nat]]
    BY <1>0, <2>1, TableEntry DEF Ask
  <2> QED BY <1>0, <2>2 DEF Ask, files, retry, bounds, Steps
<1>2. WorkerInPlace(x)'
  BY <1>0, CampaignAssumption DEF Ask, WorkerInPlace, Threads, Held, Answered
<1>3. Threads'
  BY <1>0, <1>2, OthersStayInPlace DEF Ask, Holds, MayTake
<1> QED BY <1>1, <1>3

LEMMA WriteBlockTyped ==
    ASSUME TInv, NEW x \in Workers, WriteBlock(x)
    PROVE  TInv'
<1> USE DEF TInv, Goto, KeepThread, GiveUpThread
<1>0. x[1] \in Runs /\ x[2] \in Slots /\ x[2] # Nobody /\ WorkerInPlace(x)
  BY WorkerIsPair, BusyWorker
<1>1. TypeOK'
  BY <1>0, BusyWorker DEF TypeOK, WriteBlock, files, run, retry, bounds, Steps
<1>2. WorkerInPlace(x)'
  BY <1>0, CampaignAssumption DEF TypeOK, WriteBlock, run, WorkerInPlace, Held, Answered
<1>3. Threads'
  BY <1>0, <1>2, OthersStayInPlace DEF TypeOK, WriteBlock, run, Holds, MayTake
<1> QED BY <1>1, <1>3

LEMMA WriteOutputTyped ==
    ASSUME TInv, NEW x \in Workers, WriteOutput(x)
    PROVE  TInv'
<1> USE DEF TInv, Goto, KeepThread, GiveUpThread
<1>0. x[1] \in Runs /\ x[2] \in Slots /\ x[2] # Nobody /\ WorkerInPlace(x)
  BY WorkerIsPair, BusyWorker
<1>1. TypeOK'
  <2>1. job[x] \in Jobs /\ Written(x, from[x]) \in File \cup {NoFile}
    BY <1>0, BusyWorker DEF TypeOK, WriteOutput, Written, File, WorkerInPlace, Answered
  <2>2. file' \in [Jobs -> [KindSet -> File \cup {NoFile}]]
    BY <2>1, TableEntry DEF TypeOK, WriteOutput, KindSet
  <2> QED BY <1>0, <2>2 DEF TypeOK, WriteOutput, files, run, retry, bounds, Steps
<1>2. WorkerInPlace(x)'
  BY <1>0, CampaignAssumption DEF TypeOK, WriteOutput, run, WorkerInPlace, Held, Answered
<1>3. Threads'
  BY <1>0, <1>2, OthersStayInPlace DEF TypeOK, WriteOutput, run, Holds, MayTake
<1> QED BY <1>1, <1>3

LEMMA WriteStateTyped ==
    ASSUME TInv, NEW x \in Workers, WriteState(x)
    PROVE  TInv'
<1> USE DEF TInv, Goto, KeepThread, GiveUpThread
<1>0. x[1] \in Runs /\ x[2] \in Slots /\ x[2] # Nobody /\ WorkerInPlace(x)
  BY WorkerIsPair, BusyWorker
<1>1. TypeOK'
  <2>0. job[x] \in Jobs
    BY <1>0, BusyWorker DEF WriteState
  <2>1. Written(x, manifest[x[1]][job[x]]) \in File \cup {NoFile}
    BY <1>0, <2>0 DEF TypeOK, Written, File
  <2>2. file' \in [Jobs -> [KindSet -> File \cup {NoFile}]]
    BY <2>0, <2>1, TableEntry DEF TypeOK, WriteState, KindSet
  <2> QED BY <1>0, <2>2 DEF TypeOK, WriteState, files, run, retry, bounds, Steps
<1>2. WorkerInPlace(x)'
  BY <1>0, CampaignAssumption DEF TypeOK, WriteState, run, WorkerInPlace, Held, Answered
<1>3. Threads'
  BY <1>0, <1>2, OthersStayInPlace DEF TypeOK, WriteState, run, Holds, MayTake
<1> QED BY <1>1, <1>3

LEMMA CheckUsageTyped ==
    ASSUME TInv, NEW x \in Workers, CheckUsage(x)
    PROVE  TInv'
<1> USE DEF TInv, Goto, KeepThread, GiveUpThread
<1>0. x[1] \in Runs /\ x[2] \in Slots /\ x[2] # Nobody /\ WorkerInPlace(x)
  BY WorkerIsPair, BusyWorker
<1>1. TypeOK'
  BY <1>0, BusyWorker DEF TypeOK, CheckUsage, files, run, retry, bounds, Steps, Responses
<1>2. WorkerInPlace(x)'
  <2>1. at'[x] \in {"usage", "undo_output", "cleanup"}
    BY <1>0 DEF TypeOK, CheckUsage
  <2> QED BY <1>0, <2>1, CampaignAssumption DEF TypeOK, CheckUsage, run, WorkerInPlace, Held, Answered
<1>3. Threads'
  BY <1>0, <1>2, OthersStayInPlace DEF TypeOK, CheckUsage, run, Holds, MayTake
<1> QED BY <1>1, <1>3

LEMMA WriteUsageTyped ==
    ASSUME TInv, NEW x \in Workers, WriteUsage(x)
    PROVE  TInv'
<1> USE DEF TInv, Goto, KeepThread, GiveUpThread
<1>0. x[1] \in Runs /\ x[2] \in Slots /\ x[2] # Nobody /\ WorkerInPlace(x)
  BY WorkerIsPair, BusyWorker
<1>1. TypeOK'
  <2>0. job[x] \in Jobs
    BY <1>0, BusyWorker DEF WriteUsage
  <2>1. Written(x, manifest[x[1]][job[x]]) \in File \cup {NoFile}
    BY <1>0, <2>0 DEF TypeOK, Written, File
  <2>2. file' \in [Jobs -> [KindSet -> File \cup {NoFile}]]
    BY <2>0, <2>1, TableEntry DEF TypeOK, WriteUsage, KindSet
  <2> QED BY <1>0, <2>2 DEF TypeOK, WriteUsage, files, run, retry, bounds, Steps
<1>2. WorkerInPlace(x)'
  BY <1>0, CampaignAssumption DEF TypeOK, WriteUsage, run, WorkerInPlace, Held, Answered
<1>3. Threads'
  BY <1>0, <1>2, OthersStayInPlace DEF TypeOK, WriteUsage, run, Holds, MayTake
<1> QED BY <1>1, <1>3

LEMMA UndoOutputTyped ==
    ASSUME TInv, NEW x \in Workers, UndoOutput(x)
    PROVE  TInv'
<1> USE DEF TInv, Goto, KeepThread, GiveUpThread
<1>0. x[1] \in Runs /\ x[2] \in Slots /\ x[2] # Nobody /\ WorkerInPlace(x)
  BY WorkerIsPair, BusyWorker
<1>1. TypeOK'
  <2>1. job[x] \in Jobs /\ NoFile \in File \cup {NoFile}
    BY <1>0, BusyWorker DEF TypeOK, UndoOutput, Written, File, WorkerInPlace, Answered
  <2>2. file' \in [Jobs -> [KindSet -> File \cup {NoFile}]]
    BY <2>1, TableEntry DEF TypeOK, UndoOutput, KindSet
  <2> QED BY <1>0, <2>2 DEF TypeOK, UndoOutput, files, run, retry, bounds, Steps
<1>2. WorkerInPlace(x)'
  BY <1>0, CampaignAssumption DEF TypeOK, UndoOutput, run, WorkerInPlace, Held, Answered
<1>3. Threads'
  BY <1>0, <1>2, OthersStayInPlace DEF TypeOK, UndoOutput, run, Holds, MayTake
<1> QED BY <1>1, <1>3

LEMMA UndoStateTyped ==
    ASSUME TInv, NEW x \in Workers, UndoState(x)
    PROVE  TInv'
<1> USE DEF TInv, Goto, KeepThread, GiveUpThread
<1>0. x[1] \in Runs /\ x[2] \in Slots /\ x[2] # Nobody /\ WorkerInPlace(x)
  BY WorkerIsPair, BusyWorker
<1>1. TypeOK'
  <2>1. job[x] \in Jobs /\ NoFile \in File \cup {NoFile}
    BY <1>0, BusyWorker DEF TypeOK, UndoState, Written, File, WorkerInPlace, Answered
  <2>2. file' \in [Jobs -> [KindSet -> File \cup {NoFile}]]
    BY <2>1, TableEntry DEF TypeOK, UndoState, KindSet
  <2> QED BY <1>0, <2>2 DEF TypeOK, UndoState, files, run, retry, bounds, Steps
<1>2. WorkerInPlace(x)'
  BY <1>0, CampaignAssumption DEF TypeOK, UndoState, run, WorkerInPlace, Held, Answered
<1>3. Threads'
  BY <1>0, <1>2, OthersStayInPlace DEF TypeOK, UndoState, run, Holds, MayTake
<1> QED BY <1>1, <1>3

LEMMA CompareBlockTyped ==
    ASSUME TInv, NEW x \in Workers, CompareBlock(x)
    PROVE  TInv'
<1> USE DEF TInv, Goto, KeepThread, GiveUpThread
<1>0. x[1] \in Runs /\ x[2] \in Slots /\ x[2] # Nobody /\ WorkerInPlace(x)
  BY WorkerIsPair, BusyWorker
<1>1. TypeOK'
  BY <1>0, BusyWorker DEF TypeOK, CompareBlock, files, run, retry, bounds, Steps
<1>2. WorkerInPlace(x)'
  BY <1>0, CampaignAssumption DEF TypeOK, CompareBlock, run, WorkerInPlace, Held, Answered
<1>3. Threads'
  BY <1>0, <1>2, OthersStayInPlace DEF TypeOK, CompareBlock, run, Holds, MayTake
<1> QED BY <1>1, <1>3

LEMMA ClearBlockTyped ==
    ASSUME TInv, NEW x \in Workers, ClearBlock(x)
    PROVE  TInv'
<1> USE DEF TInv, Goto, KeepThread, GiveUpThread
<1>0. x[1] \in Runs /\ x[2] \in Slots /\ x[2] # Nobody /\ WorkerInPlace(x)
  BY WorkerIsPair, BusyWorker
<1>1. TypeOK'
  BY <1>0, BusyWorker DEF TypeOK, ClearBlock, files, run, retry, bounds, Steps
<1>2. WorkerInPlace(x)'
  BY <1>0, CampaignAssumption DEF TypeOK, ClearBlock, run, WorkerInPlace, Held, Answered
<1>3. Threads'
  BY <1>0, <1>2, OthersStayInPlace DEF TypeOK, ClearBlock, run, Holds, MayTake
<1> QED BY <1>1, <1>3

LEMMA CleanUpTyped ==
    ASSUME TInv, NEW x \in Workers, CleanUp(x)
    PROVE  TInv'
<1> USE DEF TInv, Goto, KeepThread, GiveUpThread
<1>0. x[1] \in Runs /\ x[2] \in Slots /\ x[2] # Nobody /\ WorkerInPlace(x)
  BY WorkerIsPair, BusyWorker
<1>1. TypeOK'
  BY <1>0, BusyWorker DEF TypeOK, CleanUp, files, run, retry, bounds, Steps, SchemasLeft
<1>2. WorkerInPlace(x)'
  BY <1>0, CampaignAssumption DEF TypeOK, CleanUp, run, WorkerInPlace, Held, Answered
<1>3. Threads'
  BY <1>0, <1>2, OthersStayInPlace DEF TypeOK, CleanUp, run, Holds, MayTake
<1> QED BY <1>1, <1>3

LEMMA RespondTyped ==
    ASSUME TInv, NEW x \in Workers, NEW answer \in Responses, Respond(x, answer)
    PROVE  TInv'
<1> USE DEF TInv, Goto, KeepThread, GiveUpThread
<1>0. x[1] \in Runs /\ x[2] \in Slots /\ x[2] # Nobody /\ WorkerInPlace(x)
  BY WorkerIsPair, BusyWorker
<1>1. ProviderReads(x) \in Versions
  <2>1. job[x] \in Jobs
    BY <1>0, BusyWorker DEF Respond
  <2> QED BY <1>0, <2>1 DEF TypeOK, ProviderReads
<1>2. AfterResponse(answer) \in {"output", "block", "check"}
  BY DEF AfterResponse, Responses, Verdicts
<1>3. TypeOK'
  BY <1>0, <1>1, <1>2 DEF TypeOK, Respond, files, run, retry, bounds, Steps
<1>4. WorkerInPlace(x)'
  BY <1>0, <1>1, <1>2 DEF TypeOK, Respond, run, WorkerInPlace, Held, Answered
<1>5. Threads'
  BY <1>0, <1>4, OthersStayInPlace DEF TypeOK, Respond, run, MayTake
<1> QED BY <1>3, <1>5

LEMMA SettleTyped ==
    ASSUME TInv, NEW x \in Workers, Settle(x)
    PROVE  TInv'
<1> USE DEF TInv, Goto, KeepThread, GiveUpThread
<1>0. x[1] \in Runs /\ x[2] \in Slots /\ x[2] # Nobody /\ WorkerInPlace(x)
  BY WorkerIsPair, BusyWorker
<1>1. TypeOK'
  <2>1. job[x] \in Jobs
    BY <1>0, BusyWorker DEF Settle
  <2>2. results' \in [Runs -> [Jobs -> Results]]
    <3>1. "generated" \in Results /\ results \in [Runs -> [Jobs -> Results]]
      BY DEF TypeOK, Results
    <3>2. [results EXCEPT ![x[1]][job[x]] = "generated"] \in [Runs -> [Jobs -> Results]]
      BY <1>0, <2>1, <3>1, TableEntry
    <3> QED BY <3>1, <3>2 DEF Settle
  <2>3. failures' \in [Runs -> SUBSET Jobs] /\ stop' \subseteq Runs
    <3>1. failures \in [Runs -> SUBSET Jobs] /\ stop \subseteq Runs
      BY DEF TypeOK
    <3>2. [failures EXCEPT ![x[1]] = @ \cup {job[x]}] \in [Runs -> SUBSET Jobs]
      BY <1>0, <2>1, <3>1
    <3> QED BY <1>0, <3>1, <3>2 DEF Settle
  <2> QED BY <1>0, <2>2, <2>3 DEF TypeOK, Settle, files, run, retry, bounds, Steps
<1>2. stop' \subseteq stop \cup {x[1]}
  BY DEF Settle
<1>3. WorkerInPlace(x)'
  BY <1>0, CampaignAssumption DEF TypeOK, Settle, WorkerInPlace, Held, Answered
<1>4. Threads'
  BY <1>0, <1>2, <1>3, OthersStayInPlace DEF TypeOK, Settle, MayTake
<1> QED BY <1>1, <1>4

LEMMA FaultTyped ==
    ASSUME TInv, NEW x \in Workers, Fault(x)
    PROVE  TInv'
<1> USE DEF TInv, Goto, GiveUpThread
<1>0. /\ x[1] \in Runs /\ x[2] \in Slots /\ x[2] # Nobody /\ WorkerInPlace(x)
      /\ job[x] \in Jobs /\ at[x] \in Steps
  BY WorkerIsPair, BusyWorker DEF Fault, TypeOK
<1>1. /\ AfterFault(x) \in {"settle", "cleanup", "undo_output"}
      /\ at[x] = "schema" => AfterFault(x) = "settle"
  BY DEF AfterFault
<1>2. TypeOK'
  <2>1. accidents' \in 0..MaxAccidents
    BY CampaignAssumption DEF TypeOK, Fault
  <2>2. <<x[1], job[x], at[x]>> \in Runs \X Jobs \X Steps
    BY <1>0
  <2>3. faults' \subseteq (Runs \X Jobs \X Steps)
    BY <2>2 DEF TypeOK, Fault
  <2>4. /\ at' \in [Workers -> Steps] /\ response' \in [Workers -> Responses]
        /\ turn' \in [Runs -> Slots \cup {Nobody}]
    BY <1>0, <1>1 DEF TypeOK, Fault, Steps, Responses
  <2> QED BY <2>1, <2>3, <2>4 DEF TypeOK, Fault, files, run, retry
<1>3. WorkerInPlace(x)'
  <2>1. at'[x] = AfterFault(x) /\ from'[x] = from[x]
    BY DEF TypeOK, Fault
  <2>2. turn'[x[1]] = IF AfterFault(x) = "settle" THEN Nobody ELSE x[2]
    BY <1>0 DEF TypeOK, Fault, Holds
  <2>3. at[x] = "schema" \/ at[x] \in Answered
    BY DEF Fault, Answered
  <2>4. UNCHANGED <<job, phase, stop>>
    BY DEF Fault, run
  <2>5. job[x] # NoJob /\ phase[x[1]] = "working" /\ (at[x] \in Answered => from[x] \in Versions)
    BY <1>0, <2>3 DEF WorkerInPlace, Answered
  <2> QED BY <1>0, <1>1, <2>1, <2>2, <2>3, <2>4, <2>5, CampaignAssumption
        DEF WorkerInPlace, Held, Answered
<1>4. Threads'
  <2>1. \A y \in Workers : y # x => at'[y] = at[y] /\ job'[y] = job[y] /\ from'[y] = from[y]
    BY DEF TypeOK, Fault
  <2>2. /\ turn'[x[1]] \in {x[2], Nobody} /\ MayTake(x)
        /\ \A q \in Runs : q # x[1] => turn'[q] = turn[q]
    BY <1>0 DEF TypeOK, Fault, Holds, MayTake
  <2> QED BY <1>3, <2>1, <2>2, OthersStayInPlace DEF Fault, run
<1> QED BY <1>2, <1>4

(* The steps of a worker. *)
LEMMA GenerateTyped ==
    ASSUME TInv, NEW x \in Workers, Generate(x)
    PROVE  TInv'
BY TakeTyped, LeaveTyped, WriteSchemaTyped, AskTyped, WriteBlockTyped, WriteOutputTyped, WriteStateTyped,
   CheckUsageTyped, WriteUsageTyped, UndoOutputTyped, UndoStateTyped, CompareBlockTyped,
   ClearBlockTyped, CleanUpTyped, SettleTyped DEF Generate

(* A run that is not at work has no worker on the way. *)
LEMMA IdleRun ==
    ASSUME TInv, NEW r \in Runs, phase[r] # "working"
    PROVE  \A x \in Workers : x[1] = r =>
              at[x] = "done" /\ job[x] = NoJob /\ turn[r] # x[2]
BY BusyWorker DEF WorkerInPlace, Held, Answered

(* Only what workers look at decides whether threads are in order. *)
LEMMA ThreadsKept ==
    ASSUME Threads,
           at' = at, job' = job, turn' = turn, from' = from, stop' = stop,
           \A r \in Runs : phase[r] = "working" => phase'[r] = "working"
    PROVE  Threads'
BY WorkerIsPair DEF Threads, WorkerInPlace

LEMMA PreflightTyped ==
    ASSUME TInv, NEW r \in Runs, Preflight(r)
    PROVE  TInv'
<1> USE DEF TInv
<1>1. \E ph \in {"checked", "refused"} : phase' = [phase EXCEPT ![r] = ph]
  BY DEF Preflight
<1>2. TypeOK'
  BY <1>1 DEF TypeOK, Preflight, files, worker, retry, bounds, Phases
<1>3. Threads'
  BY <1>1, ThreadsKept DEF TypeOK, Preflight, worker
<1> QED BY <1>2, <1>3

LEMMA NotLoggedInTyped ==
    ASSUME TInv, NEW r \in Runs, NotLoggedIn(r)
    PROVE  TInv'
<1> USE DEF TInv
<1>1. TypeOK'
  BY DEF TypeOK, NotLoggedIn, files, worker, retry, bounds, Phases
<1>2. Threads'
  BY ThreadsKept DEF TypeOK, NotLoggedIn, worker
<1> QED BY <1>1, <1>2

LEMMA FinishTyped ==
    ASSUME TInv, NEW r \in Runs, Finish(r)
    PROVE  TInv'
<1> USE DEF TInv
<1>1. \E ph \in {"reported", "refused"} : phase' = [phase EXCEPT ![r] = ph]
  BY DEF Finish
<1>2. TypeOK'
  BY <1>1 DEF TypeOK, Finish, files, worker, retry, bounds, Phases
<1>3. Threads'
  <2> SUFFICES ASSUME NEW y \in Workers PROVE WorkerInPlace(y)'
    BY DEF Threads
  <2>1. WorkerInPlace(y) /\ y[1] \in Runs /\ y[2] \in Slots /\ y = <<y[1], y[2]>>
    BY BusyWorker, WorkerIsPair
  <2>2. y[1] = r => at[y] = "done"
    BY <2>1 DEF Finish, Joined
  <2> QED BY <1>1, <2>1, <2>2 DEF TypeOK, Finish, worker, WorkerInPlace
<1> QED BY <1>2, <1>3

LEMMA CrashTyped ==
    ASSUME TInv, NEW r \in Runs, Crash(r)
    PROVE  TInv'
<1> USE DEF TInv
<1>1. TypeOK'
  <2>1. accidents' \in 0..MaxAccidents
    BY CampaignAssumption DEF TypeOK, Crash
  <2>2. at' \in [Workers -> Steps] /\ job' \in [Workers -> Jobs \cup {NoJob}]
    BY DEF TypeOK, Crash, Steps
  <2>3. phase' \in [Runs -> Phases] /\ turn' \in [Runs -> Slots \cup {Nobody}]
    BY DEF TypeOK, Crash, Phases
  <2> QED BY <2>1, <2>2, <2>3 DEF TypeOK, Crash, files, retry
<1>2. Threads'
  <2> SUFFICES ASSUME NEW y \in Workers PROVE WorkerInPlace(y)'
    BY DEF Threads
  <2>1. WorkerInPlace(y) /\ y[1] \in Runs /\ y[2] \in Slots /\ y[2] # Nobody
    BY BusyWorker, WorkerIsPair
  <2> QED BY <2>1 DEF TypeOK, Crash, WorkerInPlace, Held, Answered
<1> QED BY <1>1, <1>2

(* The jobs that run r will take when it inspects the files. *)
ToTake(r) == Sliced({j \in Jobs : InspectResume(j, manifest[r][j]) = "none"}, Limit[r])

(* The two ways in which the inspection ends. *)
LEMMA InspectEnds ==
    ASSUME TInv, NEW r \in Runs, Inspect(r)
    PROVE  \/ /\ phase' = [phase EXCEPT ![r] = "refused"]
              /\ UNCHANGED <<pending, results, at>>
           \/ /\ phase' = [phase EXCEPT ![r] = "working"]
              /\ \A j \in Jobs : InspectResume(j, manifest[r][j]) # "refused"
              /\ pending' = [pending EXCEPT ![r] = ToTake(r)]
              /\ \A q \in Runs : q # r => results'[q] = results[q]
              /\ results' \in [Runs -> [Jobs -> Results]]
              /\ \A j \in Jobs : results'[r][j] =
                    IF InspectResume(j, manifest[r][j]) # "none"
                    THEN InspectResume(j, manifest[r][j])
                    ELSE IF j \in ToTake(r) THEN "none" ELSE "deferred"
              /\ at' = [x \in Workers |->
                    IF x[1] = r /\ x[2] <= Cardinality(ToTake(r)) THEN "loop" ELSE at[x]]
<1> DEFINE decision == [j \in Jobs |-> InspectResume(j, manifest[r][j])]
           found == [j \in Jobs |-> IF decision[j] # "none" THEN decision[j]
                        ELSE IF j \in ToTake(r) THEN "none" ELSE "deferred"]
<1>1. {j \in Jobs : decision[j] = "none"} = {j \in Jobs : InspectResume(j, manifest[r][j]) = "none"}
  OBVIOUS
<1>2. Sliced({j \in Jobs : decision[j] = "none"}, Limit[r]) = ToTake(r)
  BY <1>1 DEF ToTake
<1>3. CASE \A j \in Jobs : decision[j] # "refused"
  <2>1. \A j \in Jobs : found[j] \in Results
    BY <1>3 DEF InspectResume, Results
  <2>2. found \in [Jobs -> Results]
    BY <2>1
  <2> HIDE DEF found
  <2>3. [results EXCEPT ![r] = found] \in [Runs -> [Jobs -> Results]]
    BY <2>2 DEF TInv, TypeOK
  <2>4. \A q \in Runs : [results EXCEPT ![r] = found][q] = (IF q = r THEN found ELSE results[q])
    BY DEF TInv, TypeOK
  <2>5. CASE input = manifest[r]
    <3>1. /\ phase' = [phase EXCEPT ![r] = "working"]
          /\ pending' = [pending EXCEPT ![r] = ToTake(r)]
          /\ results' = [results EXCEPT ![r] = found]
          /\ at' = [x \in Workers |->
                IF x[1] = r /\ x[2] <= Cardinality(ToTake(r)) THEN "loop" ELSE at[x]]
      BY <1>2, <1>3, <2>5 DEF Inspect, found
    <3>2. \A j \in Jobs : found[j] =
                    IF InspectResume(j, manifest[r][j]) # "none"
                    THEN InspectResume(j, manifest[r][j])
                    ELSE IF j \in ToTake(r) THEN "none" ELSE "deferred"
      BY DEF found
    <3> QED BY <1>3, <2>3, <2>4, <3>1, <3>2
  <2>6. CASE input # manifest[r]
    BY <2>6 DEF Inspect
  <2> QED BY <2>5, <2>6
<1>4. CASE ~\A j \in Jobs : decision[j] # "refused"
  BY <1>4 DEF Inspect
<1> QED BY <1>3, <1>4

LEMMA InspectTyped ==
    ASSUME TInv, NEW r \in Runs, Inspect(r)
    PROVE  TInv'
<1> USE DEF TInv
<1>0. /\ phase[r] = "checked"
      /\ UNCHANGED <<input, files, manifest, failures, stop, requests, turn, job,
                     snapshot, response, from, retry, bounds>>
  BY DEF Inspect
<1>1. CASE /\ phase' = [phase EXCEPT ![r] = "refused"]
           /\ UNCHANGED <<pending, results, at>>
  <2>1. TypeOK'
    BY <1>0, <1>1 DEF TypeOK, files, retry, bounds, Phases
  <2>2. Threads'
    BY <1>0, <1>1, ThreadsKept DEF TypeOK
  <2> QED BY <2>1, <2>2
<1>2. CASE /\ phase' = [phase EXCEPT ![r] = "working"]
           /\ pending' = [pending EXCEPT ![r] = ToTake(r)]
           /\ results' \in [Runs -> [Jobs -> Results]]
           /\ at' = [x \in Workers |->
                    IF x[1] = r /\ x[2] <= Cardinality(ToTake(r)) THEN "loop" ELSE at[x]]
  <2>1. TypeOK'
    <3>1. ToTake(r) \in SUBSET Jobs
      BY DEF ToTake, Sliced
    <3> HIDE DEF ToTake
    <3>2. pending' \in [Runs -> SUBSET Jobs] /\ phase' \in [Runs -> Phases]
      BY <1>2, <3>1 DEF TypeOK, Phases
    <3>3. at' \in [Workers -> Steps]
      BY <1>2 DEF TypeOK, Steps
    <3> QED BY <1>0, <1>2, <3>2, <3>3 DEF TypeOK, files, retry, bounds
  <2>2. Threads'
    <3> SUFFICES ASSUME NEW y \in Workers PROVE WorkerInPlace(y)'
      BY DEF Threads
    <3>1. WorkerInPlace(y) /\ y[1] \in Runs /\ y[2] \in Slots
      BY BusyWorker, WorkerIsPair
    <3>2. phase'[y[1]] = IF y[1] = r THEN "working" ELSE phase[y[1]]
      BY <1>2, <3>1 DEF TypeOK
    <3>3. y[1] = r => at'[y] \in {"loop", "done"} /\ job[y] = NoJob /\ turn[y[1]] # y[2]
      BY <1>0, <1>2, <3>1, IdleRun
    <3>4. y[1] # r => at'[y] = at[y]
      BY <1>2
    <3> QED BY <1>0, <3>1, <3>2, <3>3, <3>4 DEF WorkerInPlace, Held, Answered
  <2> QED BY <2>1, <2>2
<1> QED BY <1>1, <1>2, InspectEnds

(* The retry command and edits. *)
LEMMA RetryTyped ==
    ASSUME TInv,
           \/ \E jobs \in SUBSET Jobs : RetryBegin(jobs)
           \/ RetryLook \/ RetryMove \/ RetryCrash
           \/ \E j \in Jobs, v \in Versions : Edit(j, v)
    PROVE  TInv'
<1> USE DEF TInv
<1>1. Threads'
  BY ThreadsKept DEF RetryBegin, RetryLook, RetryMove, RetryCrash, Edit, run, worker
<1>2. TypeOK'
  <2>1. ASSUME NEW jobs \in SUBSET Jobs, RetryBegin(jobs) PROVE TypeOK'
    BY <2>1 DEF RetryBegin, TypeOK, files, run, worker, bounds
  <2>2. CASE RetryLook
    BY <2>2 DEF RetryLook, TypeOK, files, run, worker, bounds
  <2>3. CASE RetryMove
    <3>1. PICK j \in retrying, k \in moving :
            IF Exists(j, k)
            THEN /\ history' = history \cup {<<j, k, file[j][k]>>}
                 /\ file' = [file EXCEPT ![j][k] = NoFile]
                 /\ moving' = moving \ {k}
                 /\ retrying' = IF moving' = {} THEN retrying \ {j} ELSE retrying
            ELSE moving' = {} /\ retrying' = {} /\ UNCHANGED <<file, history>>
      BY <2>3 DEF RetryMove
    <3>2. j \in Jobs /\ k \in KindSet
      BY DEF TypeOK
    <3>3. retrying' \subseteq Jobs /\ moving' \subseteq KindSet
      BY <3>1 DEF TypeOK
    <3>4. CASE Exists(j, k)
      <4>1. file[j][k] \in File
        BY <3>2, <3>4 DEF TypeOK, Exists
      <4>2. history' \subseteq (Jobs \X KindSet \X File)
        BY <3>1, <3>2, <3>4, <4>1 DEF TypeOK
      <4>3. file' \in [Jobs -> [KindSet -> File \cup {NoFile}]]
        <5>1. file \in [Jobs -> [KindSet -> File \cup {NoFile}]] /\ NoFile \in File \cup {NoFile}
          BY DEF TypeOK
        <5>2. [file EXCEPT ![j][k] = NoFile] \in [Jobs -> [KindSet -> File \cup {NoFile}]]
          BY <3>2, <5>1, TableEntry
        <5> QED BY <3>1, <3>4, <5>2
      <4> QED BY <2>3, <3>3, <4>2, <4>3 DEF RetryMove, TypeOK, run, worker, bounds
    <3>5. CASE ~Exists(j, k)
      BY <2>3, <3>1, <3>3, <3>5 DEF RetryMove, TypeOK, run, worker, bounds
    <3> QED BY <3>4, <3>5
  <2>4. CASE RetryCrash
    BY <2>4, CampaignAssumption DEF RetryCrash, TypeOK, files, run, worker
  <2>5. ASSUME NEW j \in Jobs, NEW v \in Versions, Edit(j, v) PROVE TypeOK'
    BY <2>5, CampaignAssumption DEF Edit, TypeOK, files, run, worker, retry
  <2> QED BY <2>1, <2>2, <2>3, <2>4, <2>5
<1> QED BY <1>1, <1>2

LEMMA InitTyped == Init => TInv
<1> SUFFICES ASSUME Init PROVE TInv
  OBVIOUS
<1>1. TypeOK
  BY CampaignAssumption DEF Init, TypeOK, Phases, Results, Steps, Responses, Verdicts
<1>2. Threads
  <2> SUFFICES ASSUME NEW x \in Workers PROVE WorkerInPlace(x)
    BY DEF Threads
  <2> QED BY WorkerIsPair DEF Init, WorkerInPlace, Held, Answered
<1> QED BY <1>1, <1>2 DEF TInv

LEMMA StutterTyped == TInv /\ UNCHANGED vars => TInv'
<1> SUFFICES ASSUME TInv, UNCHANGED vars PROVE TInv'
  OBVIOUS
<1>1. TypeOK'
  BY DEF TInv, TypeOK, vars, files, run, worker, retry, bounds
<1>2. Threads'
  BY ThreadsKept DEF TInv, vars, run, worker
<1> QED BY <1>1, <1>2 DEF TInv

LEMMA NextTyped == TInv /\ [Next]_vars => TInv'
<1> SUFFICES ASSUME TInv, Next PROVE TInv'
  BY StutterTyped
<1>1. CASE \E r \in Runs : Preflight(r) \/ NotLoggedIn(r) \/ Inspect(r) \/ Finish(r) \/ Crash(r)
  BY <1>1, PreflightTyped, NotLoggedInTyped, InspectTyped, FinishTyped, CrashTyped
<1>2. CASE \E x \in Workers : Generate(x) \/ Fault(x)
  BY <1>2, GenerateTyped, FaultTyped
<1>3. CASE \E x \in Workers, answer \in Responses : Respond(x, answer)
  BY <1>3, RespondTyped
<1>4. CASE \/ \E jobs \in SUBSET Jobs : RetryBegin(jobs)
           \/ RetryLook \/ RetryMove \/ RetryCrash
           \/ \E j \in Jobs, v \in Versions : Edit(j, v)
  BY <1>4, RetryTyped
<1> QED BY <1>1, <1>2, <1>3, <1>4 DEF Next

LEMMA Typed == Spec => []TInv
BY InitTyped, NextTyped, PTL DEF Spec

(* Every variable has its type, in every order of the steps of runs,        *)
(* workers, retries, crashes and edits.                                     *)
THEOREM TypeCorrect == Spec => []TypeOK
<1>1. TInv => TypeOK
  BY DEF TInv
<1> QED BY <1>1, Typed, PTL

(* A run that has met a failure other than an invalid output sends nothing  *)
(* more: a worker that is about to ask has kept the thread since it saw     *)
(* that the run goes on, so no other worker has settled in between.         *)
THEOREM StopObeyed == Spec => StopIsObeyed
<1>1. TInv /\ [Next]_vars =>
        [\A r \in Runs : r \in stop => requests'[r] = requests[r]]_vars
  <2> SUFFICES ASSUME TInv, Next, NEW r \in Runs, r \in stop
               PROVE  requests'[r] = requests[r]
    BY DEF vars
  <2>1. ASSUME NEW x \in Workers, Ask(x) PROVE requests'[r] = requests[r]
    <3>1. x[1] # r
      BY <2>1, BusyWorker DEF Ask, WorkerInPlace
    <3> QED BY <2>1, <3>1 DEF Ask, TInv, TypeOK
  <2>2. CASE requests' = requests
    BY <2>2
  <2>3. requests' = requests \/ \E x \in Workers : Ask(x)
    BY DEF Next, Generate, Fault, Preflight, NotLoggedIn, Inspect, Finish, Crash, Take, Leave,
           WriteSchema, WriteBlock, WriteOutput, WriteState, CheckUsage, WriteUsage, UndoOutput,
           UndoState, CompareBlock, ClearBlock, CleanUp, Settle, Respond, RetryBegin,
           RetryLook, RetryMove, RetryCrash, Edit, run
  <2> QED BY <2>1, <2>2, <2>3
<1> QED BY <1>1, Typed, PTL DEF Spec, StopIsObeyed

------------------------------------------------------------------------------
(* What an audit is bound to *)

Owned(j, k) ==
    Exists(j, k) =>
        /\ phase[file[j][k].by] # "off"
        /\ file[j][k].input = manifest[file[j][k].by][j]

(* What a step may do to keep outputs and answers bound to the manifest. *)
FilesStayBound ==
    \A j \in Jobs, k \in {"output", "state"} : file'[j][k] # NoFile =>
        \/ file'[j][k] = file[j][k]
        \/ /\ file'[j][k].by \in Runs /\ phase[file'[j][k].by] # "off"
           /\ file'[j][k].input = manifest[file'[j][k].by][j]

LEMMA StayBound ==
    ASSUME MInv, TypeOK',
           \A r \in Runs : phase[r] # "off" => phase'[r] # "off" /\ manifest'[r] = manifest[r],
           FilesStayBound,
           \A x \in Workers : at'[x] \in Answered =>
               /\ at[x] # "done" /\ job'[x] = job[x]
               /\ \/ at[x] \in Answered /\ from'[x] = from[x]
                  \/ from'[x] = manifest[x[1]][job[x]]
    PROVE  BoundToManifest'
<1>1. ASSUME NEW j \in Jobs, NEW k \in {"output", "state"}, file'[j][k] # NoFile
      PROVE  /\ phase'[file'[j][k].by] # "off"
             /\ file'[j][k].input = manifest'[file'[j][k].by][j]
  <2>1. CASE file'[j][k] = file[j][k]
    <3>1. Exists(j, k)
      BY <1>1, <2>1 DEF Exists
    <3>2. file[j][k].by \in Runs
      BY <3>1 DEF MInv, TInv, TypeOK, Exists, File, KindSet
    <3> QED BY <2>1, <3>1, <3>2 DEF MInv, BoundToManifest
  <2>2. CASE /\ file'[j][k].by \in Runs /\ phase[file'[j][k].by] # "off"
             /\ file'[j][k].input = manifest[file'[j][k].by][j]
    BY <2>2
  <2> QED BY <1>1, <2>1, <2>2 DEF FilesStayBound
<1>2. ASSUME NEW x \in Workers, at'[x] \in Answered
      PROVE  from'[x] = manifest'[x[1]][job'[x]]
  <2>1. x[1] \in Runs /\ phase[x[1]] = "working"
    BY <1>2, WorkerIsPair, BusyWorker DEF MInv, WorkerInPlace
  <2> QED BY <1>2, <2>1 DEF MInv, BoundToManifest
<1> QED BY <1>1, <1>2 DEF BoundToManifest, Exists

LEMMA GenerateBound ==
    ASSUME MInv, NEW x \in Workers, Generate(x)
    PROVE  MInv'
<1> USE DEF MInv
<1>0. /\ TInv' /\ TypeOK /\ TypeOK'
      /\ x[1] \in Runs /\ WorkerInPlace(x) /\ phase' = phase /\ manifest' = manifest
      /\ at[x] \notin {"loop", "done"} => job[x] \in Jobs
  BY GenerateTyped, WorkerIsPair, BusyWorker
     DEF TInv, Generate, Take, Leave, WriteSchema, Ask, WriteBlock, WriteOutput, WriteState, CheckUsage,
         WriteUsage, UndoOutput, UndoState, CompareBlock, ClearBlock, CleanUp, Settle, run
<1>1. FilesStayBound
  <2>1. ASSUME file' = file PROVE FilesStayBound
    BY <2>1 DEF FilesStayBound
  <2>2. ASSUME at[x] \in Held, NEW k \in KindSet, NEW c \in File \cup {NoFile},
               file' = [file EXCEPT ![job[x]][k] = c],
               k = "usage" \/ c = NoFile \/ c = Written(x, manifest[x[1]][job[x]])
        PROVE  FilesStayBound
    <3>1. job[x] \in Jobs
      BY <1>0, <2>2 DEF Held, Answered
    <3> SUFFICES ASSUME NEW j \in Jobs, NEW l \in {"output", "state"}, file'[j][l] # NoFile,
                        file'[j][l] # file[j][l]
                 PROVE  /\ file'[j][l].by \in Runs /\ phase[file'[j][l].by] # "off"
                        /\ file'[j][l].input = manifest[file'[j][l].by][j]
      BY DEF FilesStayBound
    <3>2. file'[j][l] = IF j = job[x] /\ l = k THEN c ELSE file[j][l]
      BY <1>0, <2>2, <3>1, TableOther DEF TypeOK, KindSet
    <3>3. j = job[x] /\ c = Written(x, manifest[x[1]][j]) /\ file'[j][l] = c
      BY <2>2, <3>2
    <3>4. phase[x[1]] = "working"
      BY <1>0, <2>2 DEF WorkerInPlace, Held, Answered
    <3> QED BY <1>0, <3>3, <3>4 DEF Written
  <2>3. ASSUME WriteOutput(x) PROVE FilesStayBound
    <3>1. job[x] \in Jobs /\ from[x] = manifest[x[1]][job[x]] /\ at[x] \in Held
      BY <1>0, <2>3 DEF WriteOutput, BoundToManifest, Held, Answered
    <3>2. Written(x, manifest[x[1]][job[x]]) \in File
      BY <1>0, <3>1 DEF TypeOK, Written, File
    <3> QED BY <2>2, <2>3, <3>1, <3>2 DEF WriteOutput, KindSet
  <2>4. ASSUME WriteState(x) \/ WriteUsage(x) PROVE FilesStayBound
    <3>1. job[x] \in Jobs /\ at[x] \in Held
      BY <1>0, <2>4 DEF WriteState, WriteUsage, Held, Answered
    <3>2. Written(x, manifest[x[1]][job[x]]) \in File
      BY <1>0, <3>1 DEF TypeOK, Written, File
    <3> QED BY <2>2, <2>4, <3>1, <3>2 DEF WriteState, WriteUsage, KindSet
  <2>5. ASSUME UndoOutput(x) \/ UndoState(x) PROVE FilesStayBound
    BY <2>2, <2>5 DEF UndoOutput, UndoState, KindSet, Held, Answered
  <2> QED BY <2>1, <2>3, <2>4, <2>5
       DEF Generate, Take, Leave, WriteSchema, Ask, WriteBlock, CheckUsage, CompareBlock, ClearBlock,
           CleanUp, Settle, files
<1>2. \A y \in Workers : at'[y] \in Answered =>
        at[y] \in Answered /\ job'[y] = job[y] /\ from'[y] = from[y]
  <2> SUFFICES ASSUME NEW y \in Workers, at'[y] \in Answered
               PROVE  at[y] \in Answered /\ job'[y] = job[y] /\ from'[y] = from[y]
    OBVIOUS
  <2>1. from' = from
    BY DEF Generate, Take, Leave, WriteSchema, Ask, WriteBlock, WriteOutput, WriteState, CheckUsage,
           WriteUsage, UndoOutput, UndoState, CompareBlock, ClearBlock, CleanUp, Settle
  <2>2. CASE y # x
    BY <1>0, <2>1, <2>2
       DEF TypeOK, Goto, Generate, Take, Leave, WriteSchema, Ask, WriteBlock, WriteOutput, WriteState,
           CheckUsage, WriteUsage, UndoOutput, UndoState, CompareBlock, ClearBlock,
           CleanUp, Settle
  <2>3. CASE y = x
    <3>1. ~(Take(x) \/ Leave(x) \/ WriteSchema(x) \/ Ask(x) \/ CleanUp(x) \/ Settle(x))
      <4>1. \A s : at' = [at EXCEPT ![x] = s] => at'[x] = s
        BY <1>0 DEF TypeOK
      <4>2. at'[x] \notin {"schema", "ask", "done", "wait", "settle", "loop"}
        BY <2>3 DEF Answered
      <4> QED BY <4>1, <4>2 DEF Goto, Take, Leave, WriteSchema, Ask, CleanUp, Settle
    <3> QED BY <1>0, <2>1, <2>3, <3>1
         DEF Generate, WriteBlock, WriteOutput, WriteState, CheckUsage,
           WriteUsage, UndoOutput, UndoState, CompareBlock, ClearBlock, Answered
  <2> QED BY <2>2, <2>3
<1>3. \A y \in Workers : at'[y] \in Answered => at[y] # "done"
  BY <1>2 DEF Answered
<1> QED BY <1>0, <1>1, <1>2, <1>3, StayBound

(* A write that fails changes no file. *)
LEMMA FaultBound ==
    ASSUME MInv, NEW x \in Workers, Fault(x)
    PROVE  MInv'
<1> USE DEF MInv
<1>0. /\ TInv' /\ TypeOK /\ TypeOK' /\ phase' = phase /\ manifest' = manifest
      /\ FilesStayBound
  BY FaultTyped DEF TInv, Fault, run, files, FilesStayBound
<1>1. \A y \in Workers : at'[y] \in Answered =>
        at[y] \in Answered /\ job'[y] = job[y] /\ from'[y] = from[y]
  <2>1. AfterFault(x) \in Answered => at[x] \in Answered
    BY DEF AfterFault, Fault, Answered
  <2> QED BY <1>0, <2>1 DEF TypeOK, Fault, Goto
<1>2. \A y \in Workers : at'[y] \in Answered => at[y] # "done"
  BY <1>1 DEF Answered
<1> QED BY <1>0, <1>1, <1>2, StayBound

LEMMA RespondBound ==
    ASSUME MInv, Stage = "audit", NEW x \in Workers, NEW answer \in Responses,
           Respond(x, answer)
    PROVE  MInv'
<1> USE DEF MInv
<1>0. /\ TInv' /\ TypeOK /\ TypeOK' /\ phase' = phase /\ manifest' = manifest
      /\ FilesStayBound
  BY RespondTyped DEF TInv, Respond, run, files, FilesStayBound
<1>1. \A y \in Workers : at'[y] \in Answered =>
        /\ at[y] # "done" /\ job'[y] = job[y]
        /\ \/ at[y] \in Answered /\ from'[y] = from[y]
           \/ from'[y] = manifest[y[1]][job[y]]
  BY <1>0 DEF TypeOK, Respond, Goto, ProviderReads, Answered
<1> QED BY <1>0, <1>1, StayBound

(* The steps of runs, retries and edits write no file. *)
LEMMA OtherBound ==
    ASSUME MInv,
           \/ \E r \in Runs : Preflight(r) \/ NotLoggedIn(r) \/ Inspect(r) \/ Finish(r) \/ Crash(r)
           \/ \E jobs \in SUBSET Jobs : RetryBegin(jobs)
           \/ RetryLook \/ RetryMove \/ RetryCrash
           \/ \E j \in Jobs, v \in Versions : Edit(j, v)
           \/ UNCHANGED vars
    PROVE  MInv'
<1> USE DEF MInv
<1>0. TInv' /\ TypeOK /\ TypeOK'
  BY NextTyped DEF Next, TInv
<1>1. FilesStayBound
  <2>1. CASE file' = file
    BY <2>1 DEF FilesStayBound
  <2>2. ASSUME NEW j \in Jobs, NEW k \in KindSet, file' = [file EXCEPT ![j][k] = NoFile]
        PROVE  FilesStayBound
    <3> SUFFICES ASSUME NEW i \in Jobs, NEW l \in {"output", "state"}, file'[i][l] # NoFile
                 PROVE  file'[i][l] = file[i][l]
      BY DEF FilesStayBound
    <3> QED BY <1>0, <2>2, TableOther DEF TypeOK, KindSet
  <2>3. file' = file \/ \E j \in Jobs, k \in KindSet : file' = [file EXCEPT ![j][k] = NoFile]
    <3>1. CASE RetryMove
      BY <1>0, <3>1 DEF RetryMove, TypeOK
    <3> QED BY <3>1 DEF Preflight, NotLoggedIn, Inspect, Finish, Crash, RetryBegin, RetryLook,
                        RetryCrash, Edit, files, vars
  <2> QED BY <2>1, <2>2, <2>3
<1>2. \A y \in Workers : at'[y] \in Answered =>
        at[y] \in Answered /\ job'[y] = job[y] /\ from'[y] = from[y]
  <2>1. ASSUME NEW r \in Runs, Inspect(r)
        PROVE \A y \in Workers : at'[y] \in Answered =>
              at[y] \in Answered /\ job'[y] = job[y] /\ from'[y] = from[y]
    BY <2>1, InspectEnds DEF Inspect, Answered
  <2>2. ASSUME NEW r \in Runs, Crash(r)
        PROVE \A y \in Workers : at'[y] \in Answered =>
              at[y] \in Answered /\ job'[y] = job[y] /\ from'[y] = from[y]
    BY <2>2 DEF Crash, Answered
  <2> QED BY <2>1, <2>2 DEF Preflight, NotLoggedIn, Finish, RetryBegin, RetryLook,
                        RetryMove, RetryCrash, Edit, run, worker, vars
<1>3. \A r \in Runs : phase[r] # "off" => phase'[r] # "off" /\ manifest'[r] = manifest[r]
  <2>1. ASSUME NEW q \in Runs, Preflight(q)
        PROVE  \A r \in Runs : phase[r] # "off" => phase'[r] # "off" /\ manifest'[r] = manifest[r]
    BY <1>0, <2>1 DEF Preflight, TypeOK
  <2>2. ASSUME NEW q \in Runs, NotLoggedIn(q) \/ Inspect(q) \/ Finish(q) \/ Crash(q)
        PROVE  \A r \in Runs : phase[r] # "off" => phase'[r] # "off" /\ manifest'[r] = manifest[r]
    BY <1>0, <2>2, InspectEnds DEF NotLoggedIn, Inspect, Finish, Crash, TypeOK
  <2> QED BY <2>1, <2>2 DEF RetryBegin, RetryLook, RetryMove, RetryCrash, Edit, run, vars
<1>4. \A y \in Workers : at'[y] \in Answered => at[y] # "done"
  BY <1>2 DEF Answered
<1> QED BY <1>0, <1>1, <1>2, <1>3, <1>4, StayBound

(* An audit that is bound to an input was made from that input, also when   *)
(* runs overlap and the input is edited while the provider works: its       *)
(* packet was made for the manifest, and the state that validates it names  *)
(* the same run.                                                            *)
THEOREM AuditsMatch ==
    ASSUME Stage = "audit"
    PROVE  Spec => []AuditsMatchTheirInput
<1>1. Init => MInv
  <2> SUFFICES ASSUME Init PROVE BoundToManifest
    BY InitTyped DEF MInv
  <2> QED BY DEF Init, BoundToManifest, Exists, KindSet, Answered
<1>2. MInv /\ [Next]_vars => MInv'
  BY GenerateBound, FaultBound, RespondBound, OtherBound DEF Next
<1>3. MInv => AuditsMatchTheirInput
  <2> SUFFICES ASSUME MInv, NEW j \in Jobs, Resumable(j, file[j]["state"].input)
               PROVE  file[j]["output"].input = file[j]["state"].input
    BY DEF AuditsMatchTheirInput
  <2> QED BY DEF MInv, BoundToManifest, Resumable
<1> QED BY <1>1, <1>2, <1>3, PTL DEF Spec

------------------------------------------------------------------------------
(* Runs and retries that wait for each other *)

(* Everything that was paid for stays on record. *)
LEMMA KeptStays ==
    ASSUME NEW j \in Jobs, NEW k \in KindSet, NEW r \in Runs, Kept(j, k, r),
           history \subseteq history',
           Exists(j, k) /\ file[j][k].by = r /\ file'[j][k] # file[j][k] =>
              <<j, k, file[j][k]>> \in history'
    PROVE  Kept(j, k, r)'
<1>1. CASE Exists(j, k) /\ file[j][k].by = r
  <2>1. CASE file'[j][k] = file[j][k]
    BY <1>1, <2>1 DEF Kept, Exists
  <2>2. CASE file'[j][k] # file[j][k]
    BY <1>1, <2>2 DEF Kept
  <2> QED BY <2>1, <2>2
<1>2. CASE \E h \in history : h[1] = j /\ h[2] = k /\ h[3].by = r
  BY <1>2 DEF Kept
<1> QED BY <1>1, <1>2 DEF Kept

(* What a step takes back is of a run that has not ended, and reports none *)
(* of it.                                                                  *)
LEMMA ResultStays ==
    ASSUME NEW r \in Runs, NEW j \in Jobs, ResultHolds(r, j),
           results'[r][j] = results[r][j], manifest'[r][j] = manifest[r][j],
           history \subseteq history',
           \A q \in Runs : Ended(q) => Ended(q)',
           \A k \in KindSet : Exists(j, k) /\ file'[j][k] # file[j][k] =>
              \/ <<j, k, file[j][k]>> \in history'
              \/ /\ ~Ended(file[j][k].by)
                 /\ results[r][j] = "generated" => file[j][k].by # r
    PROVE  ResultHolds(r, j)'
<1>1. \A q \in Runs, k \in {"output", "state"} : Kept(j, k, q) /\ Ended(q) => Kept(j, k, q)'
  BY KeptStays DEF KindSet
<1>2. results[r][j] = "generated" => \A k \in {"output", "state"} : Kept(j, k, r) => Kept(j, k, r)'
  BY KeptStays DEF KindSet
<1> QED BY <1>1, <1>2 DEF ResultHolds

(* Two workers on the way are of the same run, and only one has the thread. *)
LEMMA OtherWorkers ==
    ASSUME TInv, Alone, NEW x \in Workers, MayTake(x), at[x] # "done",
           NEW y \in Workers, y # x, job[y] # NoJob
    PROVE  y[1] = x[1] /\ at[y] \in {"wait", "settle"} /\ phase[x[1]] = "working"
<1>1. x[1] \in Runs /\ y[1] \in Runs /\ x = <<x[1], x[2]>> /\ y = <<y[1], y[2]>>
      /\ y[2] # Nobody
  BY WorkerIsPair
<1>2. WorkerInPlace(x) /\ WorkerInPlace(y)
  BY BusyWorker
<1>3. phase[x[1]] = "working" /\ phase[y[1]] = "working" /\ at[y] \notin {"loop", "done"}
  BY <1>2 DEF WorkerInPlace
<1>4. x[1] = y[1]
  BY <1>1, <1>3 DEF Alone, Active
<1>5. turn[x[1]] # y[2]
  BY <1>1, <1>4 DEF MayTake
<1>6. at[y] \notin Held /\ at[y] \in Steps
  BY <1>2, <1>4, <1>5 DEF WorkerInPlace, TInv, TypeOK
<1> QED BY <1>3, <1>4, <1>6 DEF Steps, Held, Answered

(* A run that is going is the only one. *)
LEMMA OtherRuns ==
    ASSUME Alone, NEW r \in Runs, Active(r), NEW q \in Runs, q # r
    PROVE  phase[q] \notin {"checked", "working"}
BY DEF Alone, Active

(* What a step of worker x on its job leaves as it is for the other workers. *)
LEMMA OthersOnJob ==
    ASSUME IInv, NEW x \in Workers, MayTake(x), at[x] # "done",
           NEW y \in Workers, y # x, job[y] # NoJob,
           job'[y] = job[y], at'[y] = at[y], response'[y] = response[y],
           results'[y[1]][job[y]] = results[y[1]][job[y]],
           requests'[y[1]][job[y]] = requests[y[1]][job[y]],
           faults \subseteq faults',
           job[y] \in schema => job[y] \in schema',
           \A k \in KindSet : file'[job[y]][k] = file[job[y]][k]
    PROVE  WorkerOnJob(y)'
<1>1. at[y] \in {"wait", "settle"}
  BY OtherWorkers DEF IInv
<1>2. WorkerOnJob(y)
  BY DEF IInv
<1> QED BY <1>1, <1>2
    DEF WorkerOnJob, PairMatches, Paid, Untouched, Recorded, Faulted, Exists, KindSet

(* What is known of a worker on its job, and of the entries it writes. *)
LEMMA OnJob ==
    ASSUME IInv, NEW x \in Workers, at[x] \notin {"loop", "done"}
    PROVE  /\ TInv /\ TypeOK /\ WorkerOnJob(x) /\ WorkerInPlace(x)
           /\ x[1] \in Runs /\ x[2] \in Slots /\ job[x] \in Jobs /\ job[x] # NoJob
           /\ results[x[1]][job[x]] = "none"
           /\ at[x] \in Steps
<1>1. job[x] # NoJob
  BY BusyWorker DEF IInv, WorkerInPlace
<1> QED BY <1>1, WorkerIsPair, BusyWorker DEF IInv, TInv, TypeOK, WorkerOnJob

(* A step on the job of a worker that writes no file twice, takes back none *)
(* but its own, and leaves what the run keeps in memory as it is.           *)
LEMMA QuietStep ==
    ASSUME IInv, TInv', NEW x \in Workers, MayTake(x), at[x] \notin {"loop", "done"},
           phase' = phase, manifest' = manifest, pending' = pending, results' = results,
           failures' = failures, stop' = stop, requests' = requests, job' = job,
           retrying' = retrying, moving' = moving, history' = history, faults \subseteq faults',
           \A y \in Workers : y # x => at'[y] = at[y] /\ response'[y] = response[y],
           at'[x] \notin {"loop", "done"},
           \A j \in Jobs, k \in KindSet :
              file'[j][k] # file[j][k] =>
                 /\ j = job[x]
                 /\ ~Exists(j, k) \/ (k # "usage" /\ file[j][k].by = x[1])
                 /\ file'[j][k] # NoFile => file'[j][k].by = x[1],
           \A j \in Jobs : j \in schema /\ j # job[x] => j \in schema',
           WorkerOnJob(x)'
    PROVE  IInv'
<1>0. /\ TInv /\ Alone /\ JobsApart /\ SpendingIsBounded /\ AttemptsAreRecorded
      /\ x[1] \in Runs /\ x[2] \in Slots /\ job[x] \in Jobs /\ phase[x[1]] = "working"
      /\ Active(x[1])
  BY WorkerIsPair, BusyWorker DEF IInv, WorkerInPlace, Active
<1>1. Alone' /\ JobsApart'
  BY <1>0 DEF Alone, JobsApart, Active
<1>2. ASSUME NEW y \in Workers, job'[y] # NoJob PROVE WorkerOnJob(y)'
  <2>1. CASE y = x
    BY <2>1
  <2>2. CASE y # x
    <3>1. job[y] # job[x] /\ job[y] \in Jobs
      BY <1>0, <1>2, <2>2 DEF JobsApart, TInv, TypeOK
    <3> QED BY <1>2, <2>2, <3>1, OthersOnJob
  <2> QED BY <2>1, <2>2
<1>3. ASSUME NEW r \in Runs PROVE RunInPhase(r)'
  <2>0. RunInPhase(r)
    BY DEF IInv
  <2>1. \A j \in Jobs : ResultHolds(r, j) => ResultHolds(r, j)'
    <3> SUFFICES ASSUME NEW j \in Jobs, ResultHolds(r, j) PROVE ResultHolds(r, j)'
      OBVIOUS
    <3>1. ~Ended(x[1]) /\ \A q \in Runs : Ended(q) => Ended(q)'
      BY <1>0 DEF Ended
    <3>2. results[x[1]][job[x]] # "generated"
      BY <1>0, OnJob
    <3> QED BY <3>1, <3>2, ResultStays
  <2>2. CASE r # x[1]
    <3>1. phase[r] \notin {"checked", "working"}
      BY <1>0, <2>2, OtherRuns
    <3> QED BY <2>0, <2>1, <3>1 DEF RunInPhase, NothingDone
  <2>3. CASE r = x[1]
    <3>1. AtWork(r)
      BY <1>0, <2>0, <2>3 DEF RunInPhase
    <3>2. \A j \in pending[r] : j # job[x] /\ j \in Jobs
      BY <1>0, <2>3 DEF JobsApart, TInv, TypeOK
    <3>3. \A j \in pending[r] : Untouched(j)'
      BY <3>1, <3>2 DEF AtWork, Untouched, Exists
    <3>4. at'[<<r, 1>>] = "done" => at[<<r, 1>>] = "done"
      <4>1. <<r, 1>> \in Workers
        BY CampaignAssumption DEF Workers, Slots
      <4> QED BY <4>1
    <3>5. Taken(r)' = Taken(r) /\ Bound(r)' = Bound(r)
      BY DEF Taken, Bound
    <3>6. AtWork(r)'
      BY <3>1, <3>3, <3>4, <3>5 DEF AtWork
    <3> QED BY <1>0, <2>0, <2>1, <2>3, <3>6 DEF RunInPhase
  <2> QED BY <2>2, <2>3
<1>4. SpendingIsBounded'
  BY <1>0 DEF SpendingIsBounded
<1>5. AttemptsAreRecorded'
  <2> SUFFICES ASSUME NEW r \in Runs, NEW j \in Jobs, requests[r][j] # 0, phase[r] # "dead",
                      ~\E s \in Slots : job[<<r, s>>] = j
               PROVE  Kept(j, "usage", r)' \/ Faulted(r, j)'
    BY DEF AttemptsAreRecorded, Faulted
  <2>1. Kept(j, "usage", r) \/ Faulted(r, j)
    BY <1>0 DEF AttemptsAreRecorded, Faulted
  <2>2. Kept(j, "usage", r) => Kept(j, "usage", r)'
    BY KeptStays DEF KindSet
  <2>3. Faulted(r, j) => Faulted(r, j)'
    BY DEF Faulted
  <2> QED BY <2>1, <2>2, <2>3
<1>6. OwnersHaveStarted'
  BY <1>0 DEF IInv, OwnersHaveStarted, Exists
<1> QED BY <1>1, <1>2, <1>3, <1>4, <1>5, <1>6 DEF IInv

LEMMA WrittenIsFile ==
    ASSUME TypeOK, NEW x \in Workers, NEW v \in Versions
    PROVE  Written(x, v) \in File /\ Written(x, v) # NoFile /\ Written(x, v).by = x[1]
<1>1. Written(x, v) \in File /\ Written(x, v).by = x[1]
  BY WorkerIsPair DEF TypeOK, Written, File
<1> QED BY <1>1, CampaignAssumption

LEMMA WriteSchemaInv ==
    ASSUME IInv, NEW x \in Workers, WriteSchema(x)
    PROVE  IInv'
<1>1. /\ TInv' /\ at[x] = "schema" /\ TypeOK /\ WorkerOnJob(x) /\ MayTake(x)
  BY WriteSchemaTyped, OnJob DEF IInv, WriteSchema, MayTake, Holds
<1>2. at'[x] = "ask" /\ \A y \in Workers : y # x => at'[y] = at[y] /\ response'[y] = response[y]
  BY <1>1 DEF TypeOK, WriteSchema, Goto
<1>3. WorkerOnJob(x)'
  BY <1>1, <1>2 DEF WriteSchema, run, WorkerOnJob, Untouched, Exists
<1> QED BY <1>1, <1>2, <1>3, QuietStep DEF WriteSchema, run, retry, bounds

LEMMA RespondInv ==
    ASSUME IInv, NEW x \in Workers, NEW answer \in Responses, Respond(x, answer)
    PROVE  IInv'
<1>1. /\ TInv' /\ at[x] = "wait" /\ TypeOK /\ WorkerOnJob(x) /\ MayTake(x)
  BY RespondTyped, OnJob DEF IInv, Respond, MayTake
<1>2. /\ at'[x] = AfterResponse(answer) /\ response'[x] = answer
      /\ \A y \in Workers : y # x => at'[y] = at[y] /\ response'[y] = response[y]
  BY <1>1 DEF TypeOK, Respond, Goto
<1>3. /\ at'[x] \in {"output", "block", "check"}
      /\ at'[x] = "output" => answer \in Verdicts
      /\ at'[x] # "output" => answer \notin Verdicts
  BY <1>2 DEF AfterResponse, Responses, Verdicts
<1>4. WorkerOnJob(x)'
  BY <1>1, <1>2, <1>3 DEF Respond, files, run, WorkerOnJob, Untouched, PairMatches, Exists, KindSet
<1> QED BY <1>1, <1>2, <1>3, <1>4, QuietStep DEF Respond, files, run, retry, bounds

LEMMA WriteBlockInv ==
    ASSUME IInv, NEW x \in Workers, WriteBlock(x)
    PROVE  IInv'
<1>1. /\ TInv' /\ at[x] = "block" /\ TypeOK /\ WorkerOnJob(x) /\ MayTake(x)
  BY WriteBlockTyped, OnJob DEF IInv, WriteBlock, MayTake, Holds
<1>2. at'[x] = "check" /\ \A y \in Workers : y # x => at'[y] = at[y] /\ response'[y] = response[y]
  BY <1>1 DEF TypeOK, WriteBlock, Goto
<1>3. WorkerOnJob(x)'
  BY <1>1, <1>2 DEF WriteBlock, run, WorkerOnJob, Untouched, PairMatches, Exists, KindSet
<1> QED BY <1>1, <1>2, <1>3, QuietStep DEF WriteBlock, run, retry, bounds

LEMMA WriteOutputInv ==
    ASSUME IInv, NEW x \in Workers, WriteOutput(x)
    PROVE  IInv'
<1> DEFINE c == Written(x, from[x])
<1>1. /\ TInv' /\ at[x] = "output" /\ TypeOK /\ WorkerOnJob(x) /\ MayTake(x)
      /\ job[x] \in Jobs /\ "output" \in KindSet /\ from[x] \in Versions
  BY WriteOutputTyped, OnJob
     DEF IInv, WriteOutput, MayTake, Holds, WorkerInPlace, Answered, KindSet
<1>2. at'[x] = "state" /\ \A y \in Workers : y # x => at'[y] = at[y] /\ response'[y] = response[y]
  BY <1>1 DEF TypeOK, WriteOutput, Goto
<1>3. c \in File /\ c # NoFile /\ c.by = x[1]
  BY <1>1, WrittenIsFile
<1> HIDE DEF c
<1>4. file' = [file EXCEPT ![job[x]]["output"] = c]
  BY DEF WriteOutput, c
<1>5. Untouched(job[x])
  BY <1>1 DEF WorkerOnJob
<1>6. /\ \A j \in Jobs, k \in KindSet : file'[j][k] # file[j][k] =>
            j = job[x] /\ ~Exists(j, k) /\ file'[j][k].by = x[1]
      /\ \A k \in KindSet : file'[job[x]][k] = IF k = "output" THEN c ELSE file[job[x]][k]
  <2>1. ~Exists(job[x], "output") /\ file \in [Jobs -> [KindSet -> File \cup {NoFile}]]
    BY <1>1, <1>3, <1>5, <1>1 DEF Untouched, TypeOK
  <2>2. ASSUME NEW j \in Jobs, NEW k \in KindSet
        PROVE  file'[j][k] = IF j = job[x] /\ k = "output" THEN c ELSE file[j][k]
    BY <1>1, <1>4, <2>1, TableOther
  <2> QED BY <1>1, <1>3, <2>1, <2>2
<1>7. WorkerOnJob(x)'
  BY <1>1, <1>2, <1>3, <1>5, <1>6
     DEF WriteOutput, run, WorkerOnJob, Untouched, Paid, Exists, KindSet
<1> QED BY <1>1, <1>2, <1>6, <1>7, QuietStep DEF WriteOutput, run, retry, bounds

LEMMA WriteStateInv ==
    ASSUME IInv, NEW x \in Workers, WriteState(x)
    PROVE  IInv'
<1> DEFINE c == Written(x, manifest[x[1]][job[x]])
<1>1. /\ TInv' /\ at[x] = "state" /\ TypeOK /\ WorkerOnJob(x) /\ MayTake(x)
      /\ job[x] \in Jobs /\ "state" \in KindSet /\ x[1] \in Runs
  BY WriteStateTyped, OnJob DEF IInv, WriteState, MayTake, Holds, KindSet
<1>2. at'[x] = "check" /\ \A y \in Workers : y # x => at'[y] = at[y] /\ response'[y] = response[y]
  BY <1>1 DEF TypeOK, WriteState, Goto
<1>3. c \in File /\ c # NoFile /\ c.by = x[1]
  <2>1. manifest[x[1]][job[x]] \in Versions
    BY <1>1 DEF TypeOK
  <2> QED BY <1>1, <2>1, WrittenIsFile
<1> HIDE DEF c
<1>4. file' = [file EXCEPT ![job[x]]["state"] = c]
  BY DEF WriteState, c
<1>5. /\ Paid(job[x], "output", x[1]) /\ ~Exists(job[x], "state") /\ ~Exists(job[x], "usage")
      /\ response[x] \in Verdicts
  BY <1>1 DEF WorkerOnJob
<1>6. /\ \A j \in Jobs, k \in KindSet : file'[j][k] # file[j][k] =>
            j = job[x] /\ ~Exists(j, k) /\ file'[j][k].by = x[1]
      /\ \A k \in KindSet : file'[job[x]][k] = IF k = "state" THEN c ELSE file[job[x]][k]
  <2>1. ~Exists(job[x], "state") /\ file \in [Jobs -> [KindSet -> File \cup {NoFile}]]
    BY <1>3, <1>5, <1>1 DEF TypeOK
  <2>2. ASSUME NEW j \in Jobs, NEW k \in KindSet
        PROVE  file'[j][k] = IF j = job[x] /\ k = "state" THEN c ELSE file[j][k]
    BY <1>1, <1>4, <2>1, TableOther
  <2> QED BY <1>1, <1>3, <2>1, <2>2
<1>7. WorkerOnJob(x)'
  BY <1>1, <1>2, <1>3, <1>5, <1>6
     DEF WriteState, run, bounds, WorkerOnJob, PairMatches, Paid, Recorded, Faulted,
         Exists, KindSet
<1> QED BY <1>1, <1>2, <1>6, <1>7, QuietStep DEF WriteState, run, retry, bounds

(* The usage record is never there yet: the run has found the job clean. *)
LEMMA CheckUsageInv ==
    ASSUME IInv, NEW x \in Workers, CheckUsage(x)
    PROVE  IInv'
<1>1. /\ TInv' /\ at[x] = "check" /\ TypeOK /\ WorkerOnJob(x) /\ MayTake(x)
      /\ ~Exists(job[x], "usage")
  BY CheckUsageTyped, OnJob DEF IInv, CheckUsage, MayTake, Holds, WorkerOnJob
<1>2. /\ at'[x] = "usage" /\ response' = response
      /\ \A y \in Workers : y # x => at'[y] = at[y]
  BY <1>1 DEF TypeOK, CheckUsage, Goto
<1>3. WorkerOnJob(x)'
  BY <1>1, <1>2 DEF CheckUsage, files, run, bounds, WorkerOnJob, PairMatches, Paid, Recorded, Faulted,
         Exists, KindSet
<1> QED BY <1>1, <1>2, <1>3, QuietStep DEF CheckUsage, files, run, retry, bounds

LEMMA WriteUsageInv ==
    ASSUME IInv, NEW x \in Workers, WriteUsage(x)
    PROVE  IInv'
<1> DEFINE c == Written(x, manifest[x[1]][job[x]])
<1>1. /\ TInv' /\ at[x] = "usage" /\ TypeOK /\ WorkerOnJob(x) /\ MayTake(x)
      /\ job[x] \in Jobs /\ "usage" \in KindSet /\ x[1] \in Runs
  BY WriteUsageTyped, OnJob DEF IInv, WriteUsage, MayTake, Holds, KindSet
<1>2. /\ at'[x] = IF response[x] \in Verdicts THEN "compare" ELSE "cleanup"
      /\ \A y \in Workers : y # x => at'[y] = at[y] /\ response'[y] = response[y]
  BY <1>1 DEF TypeOK, WriteUsage, Goto
<1>3. c \in File /\ c # NoFile /\ c.by = x[1]
  <2>1. manifest[x[1]][job[x]] \in Versions
    BY <1>1 DEF TypeOK
  <2> QED BY <1>1, <2>1, WrittenIsFile
<1> HIDE DEF c
<1>4. file' = [file EXCEPT ![job[x]]["usage"] = c]
  BY DEF WriteUsage, c
<1>5. ~Exists(job[x], "usage") /\ PairMatches(x)
  BY <1>1 DEF WorkerOnJob
<1>6. /\ \A j \in Jobs, k \in KindSet : file'[j][k] # file[j][k] =>
            j = job[x] /\ ~Exists(j, k) /\ file'[j][k].by = x[1]
      /\ \A k \in KindSet : file'[job[x]][k] = IF k = "usage" THEN c ELSE file[job[x]][k]
  <2>1. ~Exists(job[x], "usage") /\ file \in [Jobs -> [KindSet -> File \cup {NoFile}]]
    BY <1>3, <1>5, <1>1 DEF TypeOK
  <2>2. ASSUME NEW j \in Jobs, NEW k \in KindSet
        PROVE  file'[j][k] = IF j = job[x] /\ k = "usage" THEN c ELSE file[j][k]
    BY <1>1, <1>4, <2>1, TableOther
  <2> QED BY <1>1, <1>3, <2>1, <2>2
<1>7. WorkerOnJob(x)'
  BY <1>1, <1>2, <1>3, <1>5, <1>6
     DEF WriteUsage, run, bounds, WorkerOnJob, PairMatches, Paid, Recorded, Faulted,
         Exists, KindSet
<1> QED BY <1>1, <1>2, <1>6, <1>7, QuietStep DEF WriteUsage, run, retry, bounds

(* What is taken back is the run's own, of an attempt without a record. *)
LEMMA UndoOutputInv ==
    ASSUME IInv, NEW x \in Workers, UndoOutput(x)
    PROVE  IInv'
<1>1. /\ TInv' /\ at[x] = "undo_output" /\ TypeOK /\ WorkerOnJob(x) /\ MayTake(x)
      /\ job[x] \in Jobs /\ "output" \in KindSet /\ x[1] \in Runs
  BY UndoOutputTyped, OnJob DEF IInv, UndoOutput, MayTake, Holds, KindSet
<1>2. /\ at'[x] = "undo_state"
      /\ \A y \in Workers : y # x => at'[y] = at[y] /\ response'[y] = response[y]
  BY <1>1 DEF TypeOK, UndoOutput, Goto
<1>3. Paid(job[x], "output", x[1]) /\ Paid(job[x], "state", x[1])
  BY <1>1 DEF WorkerOnJob
<1>4. \A j \in Jobs, k \in KindSet :
        file'[j][k] = IF j = job[x] /\ k = "output" THEN NoFile ELSE file[j][k]
  BY <1>1, TableOther DEF TypeOK, UndoOutput
<1>5. \A j \in Jobs, k \in KindSet : file'[j][k] # file[j][k] =>
        j = job[x] /\ k # "usage" /\ file[j][k].by = x[1] /\ file'[j][k] = NoFile
  BY <1>3, <1>4 DEF Paid
<1>6. WorkerOnJob(x)'
  BY <1>1, <1>2, <1>3, <1>4 DEF UndoOutput, run, bounds, WorkerOnJob, Paid, Exists, KindSet
<1> QED BY <1>1, <1>2, <1>5, <1>6, QuietStep DEF UndoOutput, run, retry, bounds

LEMMA UndoStateInv ==
    ASSUME IInv, NEW x \in Workers, UndoState(x)
    PROVE  IInv'
<1>1. /\ TInv' /\ at[x] = "undo_state" /\ TypeOK /\ WorkerOnJob(x) /\ MayTake(x)
      /\ job[x] \in Jobs /\ "state" \in KindSet /\ x[1] \in Runs
  BY UndoStateTyped, OnJob DEF IInv, UndoState, MayTake, Holds, KindSet
<1>2. /\ at'[x] = "cleanup"
      /\ \A y \in Workers : y # x => at'[y] = at[y] /\ response'[y] = response[y]
  BY <1>1 DEF TypeOK, UndoState, Goto
<1>3. Paid(job[x], "state", x[1]) /\ Faulted(x[1], job[x])
  BY <1>1 DEF WorkerOnJob, Faulted
<1>4. \A j \in Jobs, k \in KindSet :
        file'[j][k] = IF j = job[x] /\ k = "state" THEN NoFile ELSE file[j][k]
  BY <1>1, TableOther DEF TypeOK, UndoState
<1>5. \A j \in Jobs, k \in KindSet : file'[j][k] # file[j][k] =>
        j = job[x] /\ k # "usage" /\ file[j][k].by = x[1] /\ file'[j][k] = NoFile
  BY <1>3, <1>4 DEF Paid
<1>6. WorkerOnJob(x)'
  BY <1>1, <1>2, <1>3 DEF UndoState, run, bounds, WorkerOnJob, Recorded, Faulted
<1> QED BY <1>1, <1>2, <1>5, <1>6, QuietStep DEF UndoState, run, retry, bounds

LEMMA CompareBlockInv ==
    ASSUME IInv, NEW x \in Workers, CompareBlock(x)
    PROVE  IInv'
<1>1. /\ TInv' /\ at[x] = "compare" /\ TypeOK /\ WorkerOnJob(x) /\ MayTake(x)
  BY CompareBlockTyped, OnJob DEF IInv, CompareBlock, MayTake, Holds
<1>2. /\ at'[x] = IF ClearsBlock(x) THEN "clear" ELSE "cleanup"
      /\ \A y \in Workers : y # x => at'[y] = at[y] /\ response'[y] = response[y]
  BY <1>1 DEF TypeOK, CompareBlock, Goto
<1>3. WorkerOnJob(x)'
  BY <1>1, <1>2
     DEF CompareBlock, files, run, ClearsBlock, bounds, WorkerOnJob, PairMatches, Paid, Recorded, Faulted,
         Exists, KindSet
<1> QED BY <1>1, <1>2, <1>3, QuietStep DEF CompareBlock, files, run, retry, bounds

LEMMA ClearBlockInv ==
    ASSUME IInv, NEW x \in Workers, ClearBlock(x)
    PROVE  IInv'
<1>1. /\ TInv' /\ at[x] = "clear" /\ TypeOK /\ WorkerOnJob(x) /\ MayTake(x)
  BY ClearBlockTyped, OnJob DEF IInv, ClearBlock, MayTake, Holds
<1>2. /\ at'[x] = "cleanup"
      /\ \A y \in Workers : y # x => at'[y] = at[y] /\ response'[y] = response[y]
  BY <1>1 DEF TypeOK, ClearBlock, Goto
<1>3. WorkerOnJob(x)'
  BY <1>1, <1>2
     DEF ClearBlock, run, bounds, WorkerOnJob, PairMatches, Paid, Recorded, Faulted,
         Exists, KindSet
<1> QED BY <1>1, <1>2, <1>3, QuietStep DEF ClearBlock, run, retry, bounds

LEMMA CleanUpInv ==
    ASSUME IInv, NEW x \in Workers, CleanUp(x)
    PROVE  IInv'
<1>1. /\ TInv' /\ at[x] = "cleanup" /\ TypeOK /\ WorkerOnJob(x) /\ MayTake(x)
  BY CleanUpTyped, OnJob DEF IInv, CleanUp, MayTake, Holds
<1>2. /\ at'[x] = "settle"
      /\ \A y \in Workers : y # x => at'[y] = at[y] /\ response'[y] = response[y]
  BY <1>1 DEF TypeOK, CleanUp, Goto
<1>3. WorkerOnJob(x)'
  BY <1>1, <1>2
     DEF CleanUp, run, bounds, WorkerOnJob, PairMatches, Paid, Recorded, Faulted,
         Exists, KindSet
<1> QED BY <1>1, <1>2, <1>3, QuietStep DEF CleanUp, SchemasLeft, run, retry, bounds

(* A write that fails leaves the files as they are, and is remembered. *)
LEMMA FaultInv ==
    ASSUME IInv, NEW x \in Workers, Fault(x)
    PROVE  IInv'
<1> DEFINE r == x[1]
           j == job[x]
<1>1. /\ TInv' /\ TypeOK /\ WorkerOnJob(x) /\ MayTake(x) /\ at[x] \notin {"loop", "done"}
  BY FaultTyped, OnJob DEF IInv, Fault, MayTake, Holds
<1>2. /\ at'[x] = AfterFault(x) /\ response'[x] = "failed" /\ "failed" \notin Verdicts
      /\ \A y \in Workers : y # x => at'[y] = at[y] /\ response'[y] = response[y]
  BY <1>1 DEF TypeOK, Fault, Goto, Verdicts
<1>3. /\ UNCHANGED <<files, run, job, snapshot, retry>>
      /\ faults' = faults \cup {<<r, j, at[x]>>}
  BY DEF Fault
<1>4. requests[r][j] = 0 \/ Paid(j, "usage", r) \/ Faulted(r, j)'
  BY <1>1, <1>3 DEF Fault, WorkerOnJob, Recorded, Faulted
<1>5. Recorded(r, j)'
  BY <1>3, <1>4 DEF Recorded, Paid, Exists, files, run
<1>6. AfterFault(x) = "undo_output" =>
        at[x] = "usage" /\ Paid(j, "output", r) /\ Paid(j, "state", r)
  BY <1>1 DEF AfterFault, WorkerOnJob, PairMatches
<1>7. /\ AfterFault(x) \in {"settle", "cleanup", "undo_output"}
      /\ AfterFault(x) # "settle" => at[x] # "schema"
  BY DEF AfterFault
<1>8. WorkerOnJob(x)'
  <2>1. results[r][j] = "none" /\ (AfterFault(x) # "settle" => requests[r][j] = 1)
    BY <1>1, <1>7 DEF Fault, WorkerOnJob
  <2> QED BY <1>2, <1>3, <1>5, <1>6, <1>7, <2>1
       DEF WorkerOnJob, Paid, Exists, files, run
<1> QED BY <1>1, <1>2, <1>3, <1>7, <1>8, QuietStep DEF files, run, retry

(* A step of worker x that touches no file of the job: what its run keeps   *)
(* in memory is to be shown, the rest stays as it is.                       *)
LEMMA MemoryStep ==
    ASSUME IInv, TInv', NEW x \in Workers, MayTake(x), at[x] # "done",
           file' = file, history' = history, phase' = phase, manifest' = manifest,
           retrying' = retrying, moving' = moving, schema \subseteq schema', faults' = faults,
           \A y \in Workers : y # x =>
              at'[y] = at[y] /\ job'[y] = job[y] /\ response'[y] = response[y],
           \A q \in Runs : q # x[1] =>
              /\ pending'[q] = pending[q] /\ results'[q] = results[q]
              /\ failures'[q] = failures[q] /\ requests'[q] = requests[q]
              /\ q \in stop' <=> q \in stop,
           \A y \in Workers : y # x /\ job[y] # NoJob =>
              /\ results'[y[1]][job[y]] = results[y[1]][job[y]]
              /\ requests'[y[1]][job[y]] = requests[y[1]][job[y]],
           JobsApart',
           job'[x] # NoJob => WorkerOnJob(x)',
           AtWork(x[1])',
           \A j \in Jobs : ResultHolds(x[1], j)',
           SpendingIsBounded', AttemptsAreRecorded'
    PROVE  IInv'
<1>0. /\ TInv /\ Alone /\ x[1] \in Runs /\ phase[x[1]] = "working" /\ Active(x[1])
  BY WorkerIsPair, BusyWorker DEF IInv, WorkerInPlace, Active
<1>1. Alone'
  BY <1>0 DEF Alone, Active
<1>2. ASSUME NEW y \in Workers, job'[y] # NoJob PROVE WorkerOnJob(y)'
  <2>1. CASE y = x
    BY <1>2, <2>1
  <2>2. CASE y # x
    BY <1>2, <2>2, OthersOnJob
  <2> QED BY <2>1, <2>2
<1>3. ASSUME NEW r \in Runs PROVE RunInPhase(r)'
  <2>0. RunInPhase(r)
    BY DEF IInv
  <2>1. CASE r # x[1]
    <3>1. phase[r] \notin {"checked", "working"}
      BY <1>0, <2>1, OtherRuns
    <3>2. \A j \in Jobs : ResultHolds(r, j) => ResultHolds(r, j)'
      BY <2>1, ResultStays DEF Ended
    <3> QED BY <2>0, <2>1, <3>1, <3>2 DEF RunInPhase, NothingDone
  <2>2. CASE r = x[1]
    BY <1>0, <2>2 DEF RunInPhase
  <2> QED BY <2>1, <2>2
<1>4. OwnersHaveStarted'
  BY DEF IInv, OwnersHaveStarted, Exists
<1> QED BY <1>1, <1>2, <1>3, <1>4 DEF IInv

(* Attempts that were on record or with a worker are so after a step of x   *)
(* that ends no attempt.                                                    *)
LEMMA StillRecorded ==
    ASSUME IInv, NEW x \in Workers, file' = file, history' = history, phase' = phase,
           requests' = requests, faults' = faults, job[x] = NoJob \/ job'[x] = job[x],
           \A y \in Workers : y # x => job'[y] = job[y]
    PROVE  AttemptsAreRecorded'
<1> SUFFICES ASSUME NEW r \in Runs, NEW j \in Jobs,
                    requests[r][j] # 0, phase[r] # "dead",
                    ~Kept(j, "usage", r)', ~Faulted(r, j)
             PROVE  \E s \in Slots : job'[<<r, s>>] = j
  BY DEF AttemptsAreRecorded, Faulted
<1>1. ~Kept(j, "usage", r)
  BY KeptStays DEF KindSet
<1>2. PICK s \in Slots : job[<<r, s>>] = j
  BY <1>1 DEF IInv, AttemptsAreRecorded, Faulted
<1>3. <<r, s>> \in Workers /\ j # NoJob
  BY CampaignAssumption DEF Workers
<1>4. job'[<<r, s>>] = j
  BY <1>2, <1>3
<1> QED BY <1>4

LEMMA TakeInv ==
    ASSUME IInv, NEW x \in Workers, Take(x)
    PROVE  IInv'
<1> DEFINE r == x[1]
<1>0. /\ TInv /\ TInv' /\ TypeOK /\ Alone /\ JobsApart /\ at[x] = "loop" /\ MayTake(x)
      /\ r \in Runs /\ x[2] \in Slots /\ x = <<r, x[2]>> /\ job[x] = NoJob
      /\ phase[r] = "working" /\ AtWork(r)
  <2>1. TInv /\ at[x] = "loop" /\ MayTake(x)
    BY DEF IInv, Take
  <2>2. job[x] = NoJob /\ phase[r] = "working" /\ r \in Runs
    BY <2>1, BusyWorker, WorkerIsPair DEF WorkerInPlace
  <2> QED BY <2>1, <2>2, TakeTyped, WorkerIsPair DEF IInv, TInv, RunInPhase
<1>1. PICK j \in Jobs :
        /\ j \in pending[r]
        /\ pending' = [pending EXCEPT ![r] = @ \ {j}]
        /\ job' = [job EXCEPT ![x] = j]
  BY DEF Take, IsNextJob
<1>2. /\ at'[x] = "schema" /\ job'[x] = j /\ j # NoJob
      /\ pending'[r] = pending[r] \ {j}
      /\ \A y \in Workers : y # x => at'[y] = at[y] /\ job'[y] = job[y]
      /\ \A q \in Runs : q # r => pending'[q] = pending[q]
  BY <1>0, <1>1, CampaignAssumption DEF TypeOK, Take, Goto
<1>3. \A y \in Workers : y # x /\ job[y] # NoJob => y[1] = r /\ job[y] # j
  BY <1>0, <1>1, OtherWorkers DEF JobsApart
<1>4. JobsApart'
  <2>1. ASSUME NEW y \in Workers, NEW z \in Workers, job'[y] = job'[z], job'[y] # NoJob
        PROVE  y = z
    BY <1>0, <1>2, <1>3, <2>1 DEF JobsApart
  <2>2. ASSUME NEW y \in Workers PROVE job'[y] \notin pending'[y[1]]
    <3>1. CASE y = x
      BY <1>2, <3>1
    <3>2. CASE y # x
      <4>1. job[y] \notin pending[y[1]] /\ y[1] \in Runs
        BY <1>0, WorkerIsPair DEF JobsApart
      <4> QED BY <1>2, <3>2, <4>1
    <3> QED BY <3>1, <3>2
  <2> QED BY <2>1, <2>2 DEF JobsApart
<1>5. WorkerOnJob(x)'
  <2>1. results[r][j] = "none" /\ requests[r][j] = 0 /\ Untouched(j)
    BY <1>0, <1>1 DEF AtWork
  <2> QED BY <1>1, <1>2, <2>1 DEF Take, files, WorkerOnJob, Untouched, Exists
<1>6. AtWork(r)'
  <2>1. \A i \in Jobs : results[r][i] = "none" =>
          i \in pending'[r] \cup failures[r] \/ \E s \in Slots : job'[<<r, s>>] = i
    <3> SUFFICES ASSUME NEW i \in Jobs, results[r][i] = "none",
                        i \notin pending'[r] \cup failures[r]
                 PROVE  \E s \in Slots : job'[<<r, s>>] = i
      OBVIOUS
    <3>1. CASE i = j
      BY <1>0, <1>2, <3>1
    <3>2. CASE i # j
      <4>1. PICK s \in Slots : job[<<r, s>>] = i
        BY <1>0, <1>2, <3>2 DEF AtWork
      <4>2. <<r, s>> \in Workers /\ i # NoJob
        BY <1>0, CampaignAssumption DEF Workers
      <4> QED BY <1>0, <1>2, <4>1, <4>2
    <3> QED BY <3>1, <3>2
  <2>2. at'[<<r, 1>>] = "done" => pending[r] = {} \/ r \in stop
    <3>1. <<r, 1>> \in Workers
      BY <1>0, CampaignAssumption DEF Workers, Slots
    <3> QED BY <1>0, <1>2, <3>1 DEF AtWork
  <2>3. Taken(r)' = Taken(r) /\ Bound(r)' = Bound(r)
    BY DEF Take, Taken, Bound
  <2> QED BY <1>0, <1>2, <2>1, <2>2, <2>3 DEF Take, files, AtWork, Untouched, Exists
<1>7. \A i \in Jobs : ResultHolds(r, i)'
  BY <1>0, ResultStays DEF IInv, RunInPhase, Take, files, Ended
<1>8. SpendingIsBounded'
  BY DEF IInv, SpendingIsBounded, Take
<1>9. AttemptsAreRecorded'
  BY <1>0, <1>2, StillRecorded DEF Take, files, bounds
<1> QED BY <1>0, <1>1, <1>2, <1>4, <1>5, <1>6, <1>7, <1>8, <1>9, MemoryStep
    DEF Take, files, retry, bounds

LEMMA LeaveInv ==
    ASSUME IInv, NEW x \in Workers, Leave(x)
    PROVE  IInv'
<1> DEFINE r == x[1]
<1>0. /\ TInv /\ TInv' /\ TypeOK /\ JobsApart /\ at[x] = "loop" /\ MayTake(x)
      /\ r \in Runs /\ x[2] \in Slots /\ x = <<r, x[2]>> /\ job[x] = NoJob
      /\ phase[r] = "working" /\ AtWork(r)
  <2>1. TInv /\ at[x] = "loop" /\ MayTake(x)
    BY DEF IInv, Leave
  <2>2. job[x] = NoJob /\ phase[r] = "working" /\ r \in Runs
    BY <2>1, BusyWorker, WorkerIsPair DEF WorkerInPlace
  <2> QED BY <2>1, <2>2, LeaveTyped, WorkerIsPair DEF IInv, TInv, RunInPhase
<1>1. at'[x] = "done" /\ \A y \in Workers : y # x => at'[y] = at[y]
  BY <1>0 DEF TypeOK, Leave, Goto
<1>2. UNCHANGED <<files, run, job, response, retry, bounds>>
  BY DEF Leave
<1>3. JobsApart'
  BY <1>0, <1>2 DEF JobsApart, run
<1>4. AtWork(r)'
  <2>1. at'[<<r, 1>>] = "done" => pending[r] = {} \/ r \in stop
    <3>1. <<r, 1>> \in Workers
      BY <1>0, CampaignAssumption DEF Workers, Slots
    <3> QED BY <1>0, <1>1, <3>1 DEF AtWork, Leave, Schedules
  <2>2. Taken(r)' = Taken(r) /\ Bound(r)' = Bound(r)
    BY <1>2 DEF run, Taken, Bound
  <2> QED BY <1>0, <1>2, <2>1, <2>2 DEF run, files, AtWork, Untouched, Exists
<1>5. \A i \in Jobs : ResultHolds(r, i)'
  BY <1>0, <1>2, ResultStays DEF IInv, RunInPhase, run, files, Ended
<1>6. SpendingIsBounded'
  BY <1>2 DEF IInv, SpendingIsBounded, run
<1>7. AttemptsAreRecorded'
  BY <1>0, <1>2, StillRecorded DEF run, files, bounds
<1> QED BY <1>0, <1>1, <1>2, <1>3, <1>4, <1>5, <1>6, <1>7, MemoryStep
    DEF run, files, retry, bounds

LEMMA AskInv ==
    ASSUME IInv, NEW x \in Workers, Ask(x)
    PROVE  IInv'
<1> DEFINE r == x[1]
           j == job[x]
<1>0. /\ TInv /\ TInv' /\ TypeOK /\ JobsApart /\ at[x] = "ask" /\ MayTake(x)
      /\ r \in Runs /\ x[2] \in Slots /\ x = <<r, x[2]>> /\ j \in Jobs /\ j # NoJob
      /\ phase[r] = "working" /\ AtWork(r) /\ WorkerOnJob(x)
  <2>1. at[x] = "ask" /\ MayTake(x)
    BY DEF Ask, Holds, MayTake
  <2>2. WorkerInPlace(x) /\ TInv /\ r \in Runs
    BY <2>1, OnJob
  <2> QED BY <2>1, <2>2, OnJob, AskTyped, WorkerIsPair DEF IInv, RunInPhase, WorkerInPlace
<1>1. /\ at'[x] = "wait"
      /\ \A y \in Workers : y # x => at'[y] = at[y]
      /\ UNCHANGED <<files, job, response, retry, phase, manifest, pending, results,
                     failures, stop, faults>>
  BY <1>0 DEF TypeOK, Ask, Goto, bounds
<1>2. \A q \in Runs, i \in Jobs :
        requests'[q][i] = IF q = r /\ i = j THEN 1 ELSE requests[q][i]
  <2>1. requests[r][j] = 0
    BY <1>0 DEF WorkerOnJob
  <2>2. requests' = [requests EXCEPT ![r][j] = 1]
    BY <2>1 DEF Ask
  <2>3. requests \in [Runs -> [Jobs -> Nat]]
    BY <1>0 DEF TypeOK
  <2> HIDE DEF r, j
  <2> QED BY <1>0, <2>2, <2>3, TableOther
<1>3. \A q \in Runs : q # r => requests'[q] = requests[q]
  BY <1>0 DEF TypeOK, Ask
<1>4. JobsApart'
  BY <1>0, <1>1 DEF JobsApart
<1>5. WorkerOnJob(x)'
  BY <1>0, <1>1, <1>2 DEF files, WorkerOnJob, Untouched, Exists
<1>6. \A y \in Workers : y # x /\ job[y] # NoJob =>
        requests'[y[1]][job[y]] = requests[y[1]][job[y]]
  <2> SUFFICES ASSUME NEW y \in Workers, y # x, job[y] # NoJob
               PROVE  requests'[y[1]][job[y]] = requests[y[1]][job[y]]
    OBVIOUS
  <2>1. job[y] # j /\ job[y] \in Jobs /\ y[1] \in Runs
    BY <1>0, WorkerIsPair DEF JobsApart, TypeOK
  <2> QED BY <1>2, <2>1
<1>7. Taken(r)' = Taken(r) /\ Bound(r)' = Bound(r)
  BY <1>1 DEF Taken, Bound
<1>8. AtWork(r)'
  <2>1. \A i \in pending[r] : requests'[r][i] = requests[r][i]
    BY <1>0, <1>2 DEF JobsApart, TypeOK
  <2>2. at'[<<r, 1>>] = "done" => at[<<r, 1>>] = "done"
    <3>1. <<r, 1>> \in Workers
      BY <1>0, CampaignAssumption DEF Workers, Slots
    <3> QED BY <1>1, <3>1
  <2>3. j \in Taken(r)
    BY <1>0 DEF Taken, WorkerOnJob
  <2>4. \A i \in Jobs : requests'[r][i] > 0 => i \in Taken(r)
    BY <1>0, <1>2, <2>3 DEF AtWork
  <2>5. \A i \in pending[r] : results'[r][i] = "none" /\ requests'[r][i] = 0 /\ Untouched(i)'
    BY <1>0, <1>1, <2>1 DEF AtWork, Untouched, Exists, files
  <2>6. \A i \in Jobs : results'[r][i] = "none" =>
          i \in pending'[r] \cup failures'[r] \/ \E s \in Slots : job'[<<r, s>>] = i
    BY <1>0, <1>1 DEF AtWork
  <2> QED BY <1>0, <1>1, <1>7, <2>2, <2>4, <2>5, <2>6 DEF AtWork
<1>9. \A i \in Jobs : ResultHolds(r, i)'
  BY <1>0, <1>1, ResultStays DEF IInv, RunInPhase, files, Ended
<1>10. SpendingIsBounded'
  <2> SUFFICES ASSUME NEW q \in Runs
               PROVE  LET paid == {i \in Jobs : requests'[q][i] > 0}
                      IN  /\ \A i \in paid : requests'[q][i] = 1
                          /\ Cardinality(paid) <= Bound(q)
    BY DEF SpendingIsBounded, Bound
  <2>1. CASE q # r
    BY <1>3, <2>1 DEF IInv, SpendingIsBounded, Bound
  <2>2. CASE q = r
    <3> DEFINE paid == {i \in Jobs : requests'[r][i] > 0}
    <3>1. paid \subseteq Taken(r)
      BY <1>7, <1>8 DEF AtWork
    <3>2. IsFiniteSet(Taken(r))
      BY CampaignAssumption, FS_Subset DEF Taken
    <3>3. /\ Cardinality(paid) \in Nat /\ Cardinality(Taken(r)) \in Nat
          /\ Cardinality(paid) <= Cardinality(Taken(r))
      BY <3>1, <3>2, FS_Subset, FS_CardinalityType
    <3>4. Cardinality(Taken(r)) <= Bound(r) /\ Bound(r) \in Nat
      BY <1>0, CampaignAssumption DEF AtWork, Bound
    <3>5. \A i \in paid : requests'[r][i] = 1
      <4>1. \A i \in {l \in Jobs : requests[r][l] > 0} : requests[r][i] = 1
        BY <1>0 DEF IInv, SpendingIsBounded
      <4> QED BY <1>0, <1>2, <4>1
    <3> HIDE DEF paid
    <3>6. Cardinality(paid) <= Bound(r)
      BY <3>3, <3>4
    <3> QED BY <2>2, <3>5, <3>6 DEF paid
  <2> QED BY <2>1, <2>2
<1>11. AttemptsAreRecorded'
  <2> SUFFICES ASSUME NEW q \in Runs, NEW i \in Jobs, requests'[q][i] # 0,
                      phase[q] # "dead", ~Kept(i, "usage", q)', ~Faulted(q, i)
               PROVE  \E s \in Slots : job[<<q, s>>] = i
    BY <1>1 DEF AttemptsAreRecorded, Faulted
  <2>1. CASE q = r /\ i = j
    BY <1>0, <2>1
  <2>2. CASE ~(q = r /\ i = j)
    <3>1. requests[q][i] # 0 /\ ~Kept(i, "usage", q)
      BY <1>1, <1>2, <2>2 DEF files, Kept, Exists
    <3> QED BY <3>1 DEF IInv, AttemptsAreRecorded, Faulted
  <2> QED BY <2>1, <2>2
<1> HIDE DEF r, j
<1> QED BY <1>0, <1>1, <1>3, <1>4, <1>5, <1>6, <1>8, <1>9, <1>10, <1>11, MemoryStep
    DEF files, retry, r

LEMMA SettleInv ==
    ASSUME IInv, NEW x \in Workers, Settle(x)
    PROVE  IInv'
<1> DEFINE r == x[1]
           j == job[x]
<1>0. /\ TInv /\ TInv' /\ TypeOK /\ TypeOK' /\ JobsApart /\ at[x] = "settle" /\ MayTake(x)
      /\ r \in Runs /\ x[2] \in Slots /\ x = <<r, x[2]>> /\ j \in Jobs /\ j # NoJob
      /\ phase[r] = "working" /\ AtWork(r) /\ WorkerOnJob(x)
      /\ \A i \in Jobs : ResultHolds(r, i)
  <2>1. at[x] = "settle" /\ MayTake(x)
    BY DEF Settle, MayTake
  <2>2. WorkerInPlace(x) /\ TInv /\ r \in Runs
    BY <2>1, OnJob
  <2>3. TInv'
    BY <2>2, SettleTyped
  <2> QED BY <2>1, <2>2, <2>3, OnJob, WorkerIsPair DEF IInv, RunInPhase, WorkerInPlace, TInv
<1>1. /\ at'[x] = "loop" /\ job'[x] = NoJob
      /\ \A y \in Workers : y # x => at'[y] = at[y] /\ job'[y] = job[y]
      /\ UNCHANGED <<files, response, retry, phase, manifest, pending, requests, faults>>
  BY <1>0 DEF TypeOK, Settle, Goto, bounds
<1>2. /\ results[r][j] = "none" /\ Recorded(r, j)
      /\ response[x] \in Verdicts => Paid(j, "output", r) /\ Paid(j, "state", r)
  BY <1>0 DEF WorkerOnJob
<1>3. \/ /\ response[x] \notin Verdicts /\ results' = results
         /\ failures' = [failures EXCEPT ![r] = @ \cup {j}]
         /\ stop' = stop \/ stop' = stop \cup {r}
      \/ /\ response[x] \in Verdicts /\ failures' = failures /\ stop' = stop
         /\ results' = [results EXCEPT ![r][j] = "generated"]
  BY DEF Settle, Failed
<1>4. \A q \in Runs, i \in Jobs :
        results'[q][i] = IF q = r /\ i = j /\ response[x] \in Verdicts THEN "generated"
                         ELSE results[q][i]
  <2>1. results \in [Runs -> [Jobs -> Results]] /\ "generated" \in Results
    BY <1>0 DEF TypeOK, Results
  <2> HIDE DEF r, j
  <2> QED BY <1>0, <1>3, <2>1, TableOther
<1>5. /\ \A q \in Runs : q # r => /\ results'[q] = results[q] /\ failures'[q] = failures[q]
                                  /\ q \in stop' <=> q \in stop
      /\ failures'[r] = IF response[x] \in Verdicts THEN failures[r] ELSE failures[r] \cup {j}
      /\ r \in stop' => r \in stop \/ response[x] \notin Verdicts
  BY <1>0, <1>3 DEF TypeOK
<1>6. \A y \in Workers : y # x /\ job[y] # NoJob => job[y] # j /\ job[y] \in Jobs
  BY <1>0 DEF JobsApart, TypeOK
<1>7. \A y \in Workers : y # x /\ job[y] # NoJob =>
        results'[y[1]][job[y]] = results[y[1]][job[y]]
  <2> SUFFICES ASSUME NEW y \in Workers, y # x, job[y] # NoJob
               PROVE  results'[y[1]][job[y]] = results[y[1]][job[y]]
    OBVIOUS
  <2>1. job[y] # j /\ job[y] \in Jobs /\ y[1] \in Runs
    BY <1>6, WorkerIsPair
  <2> QED BY <1>4, <2>1
<1>8. JobsApart'
  <2>1. ASSUME NEW y \in Workers PROVE job'[y] \notin pending'[y[1]]
    <3>1. CASE y = x
      BY <1>0, <1>1, <3>1, CampaignAssumption DEF TypeOK
    <3>2. CASE y # x
      BY <1>0, <1>1, <3>2 DEF JobsApart
    <3> QED BY <3>1, <3>2
  <2>2. ASSUME NEW y \in Workers, NEW z \in Workers, job'[y] = job'[z], job'[y] # NoJob
        PROVE  y = z
    BY <1>0, <1>1, <2>2 DEF JobsApart
  <2> QED BY <2>1, <2>2 DEF JobsApart
<1>9. Taken(r)' = Taken(r) /\ Bound(r)' = Bound(r)
  BY <1>0, <1>2, <1>4 DEF Taken, Bound
<1>10. AtWork(r)'
  <2>1. \A i \in pending[r] : results'[r][i] = "none" /\ requests'[r][i] = 0 /\ Untouched(i)'
    <3>1. \A i \in pending[r] : i # j /\ i \in Jobs
      BY <1>0 DEF JobsApart, TypeOK
    <3> QED BY <1>0, <1>1, <1>4, <3>1 DEF AtWork, Untouched, Exists, files
  <2>2. at'[<<r, 1>>] = "done" => at[<<r, 1>>] = "done"
    <3>1. <<r, 1>> \in Workers
      BY <1>0, CampaignAssumption DEF Workers, Slots
    <3> QED BY <1>1, <3>1
  <2>3. \A i \in Jobs : results'[r][i] = "none" =>
          i \in pending'[r] \cup failures'[r] \/ \E s \in Slots : job'[<<r, s>>] = i
    <3> SUFFICES ASSUME NEW i \in Jobs, results'[r][i] = "none",
                        i \notin pending'[r] \cup failures'[r]
                 PROVE  \E s \in Slots : job'[<<r, s>>] = i
      OBVIOUS
    <3>1. i # j /\ results[r][i] = "none" /\ i \notin pending[r] \cup failures[r]
      BY <1>0, <1>1, <1>4, <1>5
    <3>2. PICK s \in Slots : job[<<r, s>>] = i
      BY <1>0, <3>1 DEF AtWork
    <3>3. <<r, s>> \in Workers /\ <<r, s>> # x
      BY <1>0, <3>1, <3>2 DEF Workers
    <3>4. job'[<<r, s>>] = i
      BY <1>1, <3>2, <3>3
    <3> QED BY <3>4
  <2>4. r \in stop' => failures'[r] # {}
    BY <1>0, <1>5 DEF AtWork
  <2>5. pending[r] = {} \/ r \in stop => pending'[r] = {} \/ r \in stop'
    BY <1>1, <1>3
  <2> QED BY <1>0, <1>1, <1>9, <2>1, <2>2, <2>3, <2>4, <2>5 DEF AtWork
<1>11. \A i \in Jobs : ResultHolds(r, i)'
  <2> SUFFICES ASSUME NEW i \in Jobs PROVE ResultHolds(r, i)'
    OBVIOUS
  <2>1. CASE results'[r][i] = results[r][i]
    BY <1>0, <1>1, <2>1, ResultStays DEF files, Ended
  <2>2. CASE results'[r][i] # results[r][i]
    <3>1. i = j /\ results'[r][i] = "generated" /\ response[x] \in Verdicts
      BY <1>0, <1>4, <2>2
    <3>2. Kept(i, "output", r) /\ Kept(i, "state", r)
      BY <1>2, <3>1 DEF Kept, Paid
    <3>3. Kept(i, "output", r)' /\ Kept(i, "state", r)'
      BY <1>0, <1>1, <3>2, KeptStays DEF files, KindSet
    <3> QED BY <3>1, <3>3 DEF ResultHolds
  <2> QED BY <2>1, <2>2
<1>12. SpendingIsBounded'
  BY <1>1 DEF IInv, SpendingIsBounded
<1>13. AttemptsAreRecorded'
  <2> SUFFICES ASSUME NEW q \in Runs, NEW i \in Jobs, requests[q][i] # 0,
                      phase[q] # "dead", ~Kept(i, "usage", q)', ~Faulted(q, i)
               PROVE  \E s \in Slots : job'[<<q, s>>] = i
    BY <1>1 DEF AttemptsAreRecorded, Faulted
  <2>1. ~Kept(i, "usage", q)
    BY <1>1 DEF files, Kept, Exists
  <2>2. PICK s \in Slots : job[<<q, s>>] = i
    BY <2>1 DEF IInv, AttemptsAreRecorded, Faulted
  <2>3. <<q, s>> \in Workers
    BY DEF Workers
  <2>4. <<q, s>> # x
    BY <1>0, <1>2, <2>1, <2>2 DEF Recorded, Kept, Paid
  <2>5. job'[<<q, s>>] = i
    BY <1>1, <2>2, <2>3, <2>4
  <2> QED BY <2>5
<1> HIDE DEF r, j
<1> QED BY <1>0, <1>1, <1>5, <1>7, <1>8, <1>10, <1>11, <1>12, <1>13, MemoryStep
    DEF files, retry, r

(* The first n jobs of a set are at most n. *)
LEMMA SlicedBound ==
    ASSUME NEW S \in SUBSET Jobs, NEW n \in Nat \ {0}
    PROVE  IsFiniteSet(Sliced(S, n)) /\ Cardinality(Sliced(S, n)) <= n
<1> DEFINE T == Sliced(S, n)
           f == [j \in T |-> Cardinality(Earlier(j, S))]
<1>1. /\ T \subseteq S /\ \A j \in T : Cardinality(Earlier(j, S)) < n
      /\ IsFiniteSet(S) /\ n # Unlimited
  BY CampaignAssumption, FS_Subset DEF Sliced
<1> HIDE DEF T
<1>2. \A j \in S : /\ IsFiniteSet(Earlier(j, S)) /\ Cardinality(Earlier(j, S)) \in Nat
  <2> SUFFICES ASSUME NEW j \in S
               PROVE  IsFiniteSet(Earlier(j, S)) /\ Cardinality(Earlier(j, S)) \in Nat
    OBVIOUS
  <2>1. Earlier(j, S) \in SUBSET S
    BY DEF Earlier
  <2> QED BY <1>1, <2>1, FS_Subset, FS_CardinalityType
<1>3. f \in [T -> 0..(n - 1)]
  BY <1>1, <1>2
<1>4. ASSUME NEW i \in T, NEW j \in T, Place[i] < Place[j] PROVE f[i] # f[j]
  <2>1. Earlier(i, S) \in SUBSET Earlier(j, S) /\ i \in Earlier(j, S) /\ i \notin Earlier(i, S)
    BY <1>1, <1>4, CampaignAssumption DEF Earlier
  <2>2. Cardinality(Earlier(j, S)) # Cardinality(Earlier(i, S))
    BY <1>1, <1>2, <2>1, FS_Subset
  <2> QED BY <2>2
<1>5. \A i, j \in T : f[i] = f[j] => i = j
  <2> SUFFICES ASSUME NEW i \in T, NEW j \in T, i # j PROVE f[i] # f[j]
    OBVIOUS
  <2>1. Place[i] < Place[j] \/ Place[j] < Place[i]
    BY <1>1, CampaignAssumption
  <2> QED BY <1>4, <2>1
<1> HIDE DEF f
<1>6. f \in Injection(T, 0..(n - 1))
  BY <1>3, <1>5, Fun_IsInj
<1>7. IsFiniteSet(0..(n - 1)) /\ Cardinality(0..(n - 1)) = n
  BY FS_Interval
<1>8. IsFiniteSet(T) /\ Cardinality(T) <= n
  BY <1>6, <1>7, FS_Injection
<1> QED BY <1>8 DEF T

(* A run takes as many jobs as it may, and one that takes none has none. *)
LEMMA ToTakeBound ==
    ASSUME NEW r \in Runs,
           \A j \in Jobs : InspectResume(j, manifest[r][j]) = "none" => Missing(r, j),
           MissingAreClean(r)
    PROVE  /\ ToTake(r) \subseteq Jobs
           /\ \A j \in ToTake(r) : InspectResume(j, manifest[r][j]) = "none"
           /\ Cardinality(ToTake(r)) <= Bound(r)
           /\ ~(1 <= Cardinality(ToTake(r))) => ToTake(r) = {}
           /\ \A j \in Jobs : InspectResume(j, manifest[r][j]) = "none" /\ j \notin ToTake(r)
                 => Limit[r] # Unlimited
<1> DEFINE S == {j \in Jobs : InspectResume(j, manifest[r][j]) = "none"}
           M == {j \in Jobs : Missing(r, j)}
<1>1. /\ S \in SUBSET Jobs /\ M \in SUBSET Jobs /\ S \in SUBSET M
      /\ \A j \in S : InspectResume(j, manifest[r][j]) = "none"
      /\ \A j \in Jobs : InspectResume(j, manifest[r][j]) = "none" => j \in S
  OBVIOUS
<1>2. ToTake(r) = Sliced(S, Limit[r])
  BY DEF ToTake
<1>3. Limit[r] = Unlimited => Cardinality(M) <= 1
  BY DEF MissingAreClean
<1> HIDE DEF S, M
<1>4. IsFiniteSet(M) /\ IsFiniteSet(S) /\ Cardinality(M) \in Nat /\ Cardinality(S) \in Nat
      /\ Cardinality(S) <= Cardinality(M)
  BY <1>1, CampaignAssumption, FS_Subset, FS_CardinalityType
<1>5. ToTake(r) \subseteq S /\ (Limit[r] = Unlimited => ToTake(r) = S)
  BY <1>2 DEF Sliced
<1>6. IsFiniteSet(ToTake(r)) /\ Cardinality(ToTake(r)) <= Bound(r)
  <2>1. CASE Limit[r] = Unlimited
    BY <1>3, <1>4, <1>5, <2>1 DEF Bound
  <2>2. CASE Limit[r] # Unlimited
    <3>1. Limit[r] \in Nat \ {0}
      BY <2>2, CampaignAssumption
    <3> QED BY <1>1, <1>2, <2>2, <3>1, SlicedBound DEF Bound
  <2> QED BY <2>1, <2>2
<1>7. ~(1 <= Cardinality(ToTake(r))) => ToTake(r) = {}
  <2>1. Cardinality(ToTake(r)) \in Nat
    BY <1>6, FS_CardinalityType
  <2>2. Cardinality(ToTake(r)) = 0 => ToTake(r) = {}
    BY <1>6, FS_EmptySet
  <2> QED BY <2>1, <2>2
<1> QED BY <1>1, <1>5, <1>6, <1>7

(* The workers of a run that is not at work, and those of the others. *)
LEMMA NobodyWorks ==
    ASSUME TInv, Alone, NEW r \in Runs, phase[r] = "checked"
    PROVE  \A x \in Workers : job[x] = NoJob /\ at[x] = "done"
<1> SUFFICES ASSUME NEW x \in Workers PROVE job[x] = NoJob /\ at[x] = "done"
  OBVIOUS
<1>1. x[1] \in Runs /\ WorkerInPlace(x)
  BY WorkerIsPair, BusyWorker
<1>2. phase[x[1]] # "working"
  BY <1>1 DEF Alone, Active
<1> QED BY <1>1, <1>2 DEF WorkerInPlace

(* What a step of run r that touches no file leaves as it is. *)
LEMMA RunStep ==
    ASSUME IInv, TInv', NEW r \in Runs,
           UNCHANGED <<files, failures, stop, requests, response, faults>>,
           Ended(r) => Ended(r)', phase'[r] \in {"off", "checked"} => phase[r] \in {"off", "checked"},
           \A q \in Runs : q # r =>
              /\ phase'[q] = phase[q] /\ manifest'[q] = manifest[q]
              /\ pending'[q] = pending[q] /\ results'[q] = results[q],
           \A x \in Workers : at'[x] # "done" /\ x[1] # r => at'[x] = at[x],
           \A x \in Workers : job'[x] # NoJob => at'[x] = at[x] /\ job'[x] = job[x] /\ x[1] # r,
           \A q \in Runs : q # r => \A s \in Slots : job'[<<q, s>>] = job[<<q, s>>],
           \A q \in Runs : q # r => phase[q] \notin {"checked", "working"},
           snapshot' = snapshot,
           JobsApart', Alone', RunInPhase(r)',
           \A j \in Jobs :
              \/ requests[r][j] = 0 \/ phase'[r] = "dead"
              \/ Kept(j, "usage", r) \/ Faulted(r, j)
    PROVE  IInv'
<1>0. TInv /\ TypeOK
  BY DEF IInv, TInv
<1>1. ASSUME NEW x \in Workers, job'[x] # NoJob PROVE WorkerOnJob(x)'
  <2>1. x[1] \in Runs /\ job[x] # NoJob /\ x[1] # r /\ phase[x[1]] = "working"
    BY <1>0, <1>1, WorkerIsPair, BusyWorker DEF WorkerInPlace
  <2> QED BY <2>1
<1>2. ASSUME NEW q \in Runs PROVE RunInPhase(q)'
  <2>1. CASE q = r
    BY <2>1
  <2>2. CASE q # r
    <3>1. RunInPhase(q) /\ phase[q] \notin {"checked", "working"}
      BY <2>2 DEF IInv
    <3>2. \A j \in Jobs : ResultHolds(q, j) => ResultHolds(q, j)'
      BY <2>2, ResultStays DEF files, Ended
    <3> QED BY <2>2, <3>1, <3>2 DEF RunInPhase, NothingDone
  <2> QED BY <2>1, <2>2
<1>3. SpendingIsBounded'
  BY DEF IInv, SpendingIsBounded
<1>4. AttemptsAreRecorded'
  <2> SUFFICES ASSUME NEW q \in Runs, NEW j \in Jobs, requests[q][j] # 0,
                      phase'[q] # "dead", ~Kept(j, "usage", q)', ~Faulted(q, j)
               PROVE  \E s \in Slots : job'[<<q, s>>] = j
    BY DEF AttemptsAreRecorded, Faulted
  <2>1. ~Kept(j, "usage", q)
    BY KeptStays DEF files, KindSet
  <2>2. q # r
    <3> SUFFICES ASSUME q = r PROVE FALSE
      OBVIOUS
    <3>1. requests[r][j] = 0 \/ phase'[r] = "dead" \/ Kept(j, "usage", r) \/ Faulted(r, j)
      OBVIOUS
    <3> QED BY <2>1, <3>1
  <2>3. phase[q] # "dead" /\ \A s \in Slots : job'[<<q, s>>] = job[<<q, s>>]
    BY <2>2
  <2>4. AttemptsAreRecorded
    BY DEF IInv
  <2>5. \E s \in Slots : job[<<q, s>>] = j
    BY <2>1, <2>3, <2>4 DEF AttemptsAreRecorded, Faulted
  <2> QED BY <2>3, <2>5
<1>5. OwnersHaveStarted'
  BY <1>0 DEF IInv, OwnersHaveStarted, Exists, TypeOK, File, files
<1> QED BY <1>1, <1>2, <1>3, <1>4, <1>5 DEF IInv

LEMMA PreflightInv ==
    ASSUME ~Overlap, IInv, NEW r \in Runs, Preflight(r)
    PROVE  IInv'
<1>0. /\ TInv /\ TInv' /\ TypeOK /\ Alone /\ JobsApart /\ phase[r] = "off"
      /\ \A q \in Runs : ~Active(q)
      /\ retrying = {} /\ NothingDone(r)
      /\ UNCHANGED <<files, pending, results, failures, stop, requests, worker, retry, faults>>
  BY PreflightTyped DEF IInv, TInv, bounds, Preflight, MayStart, RunInPhase
<1>1. /\ \A q \in Runs : q # r => phase'[q] = phase[q] /\ manifest'[q] = manifest[q]
      /\ manifest'[r] = input /\ phase'[r] \in {"checked", "refused"}
      /\ phase'[r] = "checked" =>
            /\ \A j \in Jobs : ~Blocks(Classify(j, input[j]))
            /\ Limit[r] = Unlimited =>
                  Cardinality({j \in Jobs : Classify(j, input[j]) = "missing"}) <= 1
  BY <1>0 DEF TypeOK, Preflight
<1>2. Alone'
  BY <1>0, <1>1 DEF Alone, Active, retry
<1>3. JobsApart'
  BY <1>0 DEF JobsApart, worker
<1>4. NothingDone(r)'
  BY <1>0 DEF NothingDone
<1>5. ASSUME phase'[r] = "checked" PROVE MissingAreClean(r)'
  <2>1. \A j \in Jobs : Missing(r, j)' <=>
          ~Exists(j, "output") /\ ~Exists(j, "state") /\ ~Reusable(j, input[j])
    BY <1>0, <1>1 DEF Missing, Reusable, Exists, files
  <2>2. \A j \in Jobs : Missing(r, j)' =>
          Classify(j, input[j]) = "missing" /\ ~Exists(j, "usage")
    BY <1>1, <1>5, <2>1 DEF Blocks, Classify
  <2>3. \A j \in Jobs : Classify(j, input[j]) = "missing" => Missing(r, j)'
    BY <2>1 DEF Classify
  <2>4. {j \in Jobs : Missing(r, j)'} = {j \in Jobs : Classify(j, input[j]) = "missing"}
    BY <2>2, <2>3
  <2> QED BY <1>0, <1>1, <1>5, <2>2, <2>4 DEF MissingAreClean, Exists, files
<1>6. RunInPhase(r)'
  BY <1>1, <1>4, <1>5 DEF RunInPhase
<1>7. \A q \in Runs : phase[q] \notin {"checked", "working"}
  BY <1>0 DEF Active
<1>8. \A x \in Workers : job[x] = NoJob
  BY <1>0, <1>7, WorkerIsPair, BusyWorker DEF WorkerInPlace
<1> QED BY <1>0, <1>1, <1>2, <1>3, <1>4, <1>6, <1>7, <1>8, RunStep DEF Ended, worker, NothingDone

LEMMA NotLoggedInInv ==
    ASSUME IInv, NEW r \in Runs, NotLoggedIn(r)
    PROVE  IInv'
<1>0. /\ TInv /\ TInv' /\ TypeOK /\ Alone /\ JobsApart /\ phase[r] = "checked" /\ Active(r)
      /\ NothingDone(r)
      /\ UNCHANGED <<files, manifest, pending, results, failures, stop, requests, worker, retry, faults>>
  BY NotLoggedInTyped DEF IInv, TInv, bounds, NotLoggedIn, Active, RunInPhase
<1>1. phase'[r] = "refused" /\ \A q \in Runs : q # r => phase'[q] = phase[q]
  BY <1>0 DEF TypeOK, NotLoggedIn
<1>2. Alone' /\ JobsApart'
  BY <1>0, <1>1 DEF Alone, Active, JobsApart, worker, retry
<1>3. RunInPhase(r)'
  BY <1>1 DEF RunInPhase
<1>4. \A q \in Runs : q # r => phase[q] \notin {"checked", "working"}
  BY <1>0, OtherRuns
<1>5. \A x \in Workers : job[x] = NoJob
  BY <1>0, NobodyWorks
<1> QED BY <1>0, <1>1, <1>2, <1>3, <1>4, <1>5, RunStep DEF Ended, worker, NothingDone

LEMMA InspectInv ==
    ASSUME IInv, NEW r \in Runs, Inspect(r)
    PROVE  IInv'
<1>0. /\ TInv /\ TInv' /\ TypeOK /\ TypeOK' /\ Alone /\ JobsApart
      /\ phase[r] = "checked" /\ Active(r) /\ NothingDone(r) /\ MissingAreClean(r)
      /\ UNCHANGED <<files, manifest, failures, stop, requests, job, snapshot, response, retry,
                     faults>>
  BY InspectTyped DEF IInv, TInv, bounds, Inspect, Active, RunInPhase
<1>1. \A q \in Runs : q # r => phase[q] \notin {"checked", "working"}
  BY <1>0, OtherRuns
<1>2. \A x \in Workers : job[x] = NoJob /\ at[x] = "done"
  BY <1>0, NobodyWorks
<1>3. CASE /\ phase' = [phase EXCEPT ![r] = "refused"]
           /\ UNCHANGED <<pending, results, at>>
  <2>1. phase'[r] = "refused" /\ \A q \in Runs : q # r => phase'[q] = phase[q]
    BY <1>0, <1>3 DEF TypeOK
  <2>2. Alone' /\ JobsApart'
    BY <1>0, <1>3, <2>1 DEF Alone, Active, JobsApart, retry
  <2>3. RunInPhase(r)'
    BY <2>1 DEF RunInPhase
  <2> QED BY <1>0, <1>1, <1>2, <1>3, <2>1, <2>2, <2>3, RunStep DEF Ended, NothingDone
<1>4. CASE /\ phase' = [phase EXCEPT ![r] = "working"]
           /\ \A j \in Jobs : InspectResume(j, manifest[r][j]) # "refused"
           /\ pending' = [pending EXCEPT ![r] = ToTake(r)]
           /\ \A q \in Runs : q # r => results'[q] = results[q]
           /\ results' \in [Runs -> [Jobs -> Results]]
           /\ \A j \in Jobs : results'[r][j] =
                 IF InspectResume(j, manifest[r][j]) # "none"
                 THEN InspectResume(j, manifest[r][j])
                 ELSE IF j \in ToTake(r) THEN "none" ELSE "deferred"
           /\ at' = [x \in Workers |->
                 IF x[1] = r /\ x[2] <= Cardinality(ToTake(r)) THEN "loop" ELSE at[x]]
  <2>1. \A j \in Jobs : InspectResume(j, manifest[r][j]) = "none" => Missing(r, j)
    BY DEF InspectResume, Missing
  <2>2. /\ ToTake(r) \subseteq Jobs
        /\ \A j \in ToTake(r) : InspectResume(j, manifest[r][j]) = "none"
        /\ Cardinality(ToTake(r)) <= Bound(r)
        /\ ~(1 <= Cardinality(ToTake(r))) => ToTake(r) = {}
        /\ \A j \in Jobs : InspectResume(j, manifest[r][j]) = "none" /\ j \notin ToTake(r)
                 => Limit[r] # Unlimited
    BY <1>0, <2>1, ToTakeBound
  <2> HIDE DEF ToTake
  <2>3. /\ phase'[r] = "working" /\ pending'[r] = ToTake(r)
        /\ \A q \in Runs : q # r => phase'[q] = phase[q] /\ pending'[q] = pending[q]
    BY <1>0, <1>4 DEF TypeOK
  <2>4. \A x \in Workers : x[1] # r => at'[x] = at[x]
    BY <1>4
  <2>5. Alone'
    BY <1>0, <1>1, <2>3 DEF Alone, Active, retry
  <2>6. JobsApart'
    <3>1. \A q \in Runs : pending'[q] \subseteq Jobs
      BY <1>0 DEF TypeOK
    <3> QED BY <1>0, <1>2, <3>1, WorkerIsPair, CampaignAssumption DEF JobsApart
  <2>7. AtWork(r)'
    <3>1. \A j \in ToTake(r) : results'[r][j] = "none" /\ requests'[r][j] = 0 /\ Untouched(j)'
      <4> SUFFICES ASSUME NEW j \in ToTake(r)
                   PROVE  results'[r][j] = "none" /\ requests[r][j] = 0 /\ Untouched(j)
        BY <1>0 DEF Untouched, Exists, files
      <4>1. j \in Jobs /\ Missing(r, j) /\ InspectResume(j, manifest[r][j]) = "none"
        BY <2>1, <2>2
      <4>2. Untouched(j)
        BY <1>0, <4>1 DEF MissingAreClean, Missing, Untouched, KindSet
      <4> QED BY <1>0, <1>4, <4>1, <4>2 DEF NothingDone
    <3>2. \A j \in Jobs : results'[r][j] \in {"none", "generated"} <=> j \in ToTake(r)
      BY <1>4, <2>2 DEF InspectResume
    <3>3. Taken(r)' = ToTake(r)
      BY <2>2, <3>2 DEF Taken
    <3>4. at'[<<r, 1>>] = "done" => ToTake(r) = {}
      <4>1. <<r, 1>> \in Workers
        BY CampaignAssumption DEF Workers, Slots
      <4> QED BY <1>4, <2>2, <4>1
    <3>5. Bound(r)' = Bound(r)
      BY DEF Bound
    <3>6. r \notin stop' /\ \A j \in Jobs : requests'[r][j] = 0
      BY <1>0 DEF NothingDone
    <3> QED BY <1>0, <2>2, <2>3, <3>1, <3>2, <3>3, <3>4, <3>5, <3>6 DEF AtWork
  <2>8. ASSUME NEW j \in Jobs PROVE ResultHolds(r, j)'
    <3>1. results'[r][j] = "deferred" => Limit[r] # Unlimited
      BY <1>4, <2>2 DEF InspectResume
    <3>2. results'[r][j] # "generated"
      BY <1>4 DEF InspectResume
    <3>3. results'[r][j] = "reused_canonical" => Canonical[j] = manifest[r][j]
      BY <1>4 DEF InspectResume, Reusable
    <3>4. ASSUME results'[r][j] = "resumed"
          PROVE  \E q \in Runs : Ended(q)' /\ Kept(j, "output", q)' /\ Kept(j, "state", q)'
      <4>1. Resumable(j, manifest[r][j])
        BY <1>4, <3>4 DEF InspectResume
      <4>2. /\ file[j]["output"].by \in Runs
            /\ Kept(j, "output", file[j]["output"].by) /\ Kept(j, "state", file[j]["output"].by)
        BY <1>0, <4>1 DEF Resumable, Kept, Exists, TypeOK, KindSet, File
      <4>3. /\ Kept(j, "output", file[j]["output"].by)'
            /\ Kept(j, "state", file[j]["output"].by)'
        BY <1>0, <4>2, KeptStays DEF files, KindSet
      <4>4. Ended(file[j]["output"].by)
        <5>1. phase[file[j]["output"].by] \notin {"off", "checked"}
          BY <4>1 DEF IInv, OwnersHaveStarted, Resumable, KindSet
        <5>2. phase[file[j]["output"].by] # "working"
          BY <1>0, <1>1, <4>2
        <5>3. phase[file[j]["output"].by] \in Phases
          BY <1>0, <4>2 DEF TypeOK
        <5> QED BY <5>1, <5>2, <5>3 DEF Phases, Ended
      <4>5. Ended(file[j]["output"].by)'
        BY <1>0, <2>3, <4>2, <4>4 DEF files, Ended
      <4> QED BY <1>0, <4>2, <4>3, <4>5 DEF files
    <3> QED BY <1>0, <3>1, <3>2, <3>3, <3>4 DEF ResultHolds
  <2>9. RunInPhase(r)'
    BY <2>3, <2>7, <2>8 DEF RunInPhase
  <2> QED BY <1>0, <1>1, <1>2, <1>4, <2>3, <2>4, <2>5, <2>6, <2>9, RunStep DEF Ended, NothingDone
<1> QED BY <1>3, <1>4, InspectEnds, <1>0

LEMMA FinishInv ==
    ASSUME IInv, NEW r \in Runs, Finish(r)
    PROVE  IInv'
<1>0. /\ TInv /\ TInv' /\ TypeOK /\ Alone /\ JobsApart /\ phase[r] = "working" /\ Active(r)
      /\ AtWork(r) /\ \A j \in Jobs : ResultHolds(r, j)
      /\ UNCHANGED <<files, manifest, pending, results, failures, stop, requests, worker, retry,
                     faults>>
  BY FinishTyped DEF IInv, TInv, bounds, Finish, Active, RunInPhase
<1>1. /\ phase'[r] = IF failures[r] = {} THEN "reported" ELSE "refused"
      /\ \A q \in Runs : q # r => phase'[q] = phase[q]
  BY <1>0 DEF TypeOK, Finish
<1>2. Alone' /\ JobsApart'
  BY <1>0, <1>1 DEF Alone, Active, JobsApart, worker, retry
<1>3. \A s \in Slots : at[<<r, s>>] = "done" /\ job[<<r, s>>] = NoJob
  <2> SUFFICES ASSUME NEW s \in Slots PROVE at[<<r, s>>] = "done" /\ job[<<r, s>>] = NoJob
    OBVIOUS
  <2>1. <<r, s>> \in Workers
    BY DEF Workers
  <2>2. WorkerInPlace(<<r, s>>)
    BY <1>0, <2>1, BusyWorker
  <2> QED BY <2>2 DEF Finish, Joined, WorkerInPlace
<1>4. 1 \in Slots
  BY CampaignAssumption DEF Slots
<1>5. failures[r] = {} => \A j \in Jobs : results[r][j] # "none"
  <2> SUFFICES ASSUME failures[r] = {}, NEW j \in Jobs, results[r][j] = "none" PROVE FALSE
    OBVIOUS
  <2>1. pending[r] = {}
    BY <1>0, <1>3, <1>4 DEF AtWork
  <2>2. PICK s \in Slots : job[<<r, s>>] = j
    BY <1>0, <2>1 DEF AtWork
  <2> QED BY <1>3, <2>2, CampaignAssumption
<1>6. \A j \in Jobs : ResultHolds(r, j)'
  <2>1. \A q \in Runs : Ended(q) => Ended(q)'
    BY <1>0, <1>1 DEF Ended
  <2> QED BY <1>0, <2>1, ResultStays DEF files
<1>7. RunInPhase(r)'
  BY <1>0, <1>1, <1>5, <1>6 DEF RunInPhase
<1>8. \A q \in Runs : q # r => phase[q] \notin {"checked", "working"}
  BY <1>0, OtherRuns
<1>9. \A x \in Workers : job[x] = NoJob
  <2> SUFFICES ASSUME NEW x \in Workers, job[x] # NoJob PROVE FALSE
    OBVIOUS
  <2>1. x[1] \in Runs /\ x[2] \in Slots /\ x = <<x[1], x[2]>> /\ phase[x[1]] = "working"
    BY <1>0, WorkerIsPair, BusyWorker DEF WorkerInPlace
  <2>2. x[1] = r
    BY <1>8, <2>1
  <2> QED BY <1>3, <2>1, <2>2
<1>10. \A j \in Jobs : requests[r][j] = 0 \/ Kept(j, "usage", r) \/ Faulted(r, j)
  <2> SUFFICES ASSUME NEW j \in Jobs, requests[r][j] # 0
               PROVE  Kept(j, "usage", r) \/ Faulted(r, j)
    OBVIOUS
  <2> QED BY <1>0, <1>3, CampaignAssumption DEF IInv, AttemptsAreRecorded, Faulted
<1> QED BY <1>0, <1>1, <1>2, <1>7, <1>8, <1>9, <1>10, RunStep DEF Ended, worker

LEMMA CrashInv ==
    ASSUME IInv, NEW r \in Runs, Crash(r)
    PROVE  IInv'
<1>0. /\ TInv /\ TInv' /\ TypeOK /\ TypeOK' /\ Alone /\ JobsApart /\ Active(r)
      /\ UNCHANGED <<files, manifest, pending, results, failures, stop, requests, snapshot,
                     response, retry, faults>>
      /\ \A x \in Workers : /\ at'[x] = IF x[1] = r THEN "done" ELSE at[x]
                            /\ job'[x] = IF x[1] = r THEN NoJob ELSE job[x]
  BY CrashTyped DEF IInv, TInv, bounds, Crash
<1>1. phase'[r] = "dead" /\ \A q \in Runs : q # r => phase'[q] = phase[q]
  BY <1>0 DEF TypeOK, Crash
<1>2. Alone'
  BY <1>0, <1>1 DEF Alone, Active, retry
<1>3. JobsApart'
  <2>1. \A q \in Runs : NoJob \notin pending[q]
    BY <1>0, CampaignAssumption DEF TypeOK
  <2> QED BY <1>0, <2>1, WorkerIsPair DEF JobsApart
<1>4. RunInPhase(r)'
  BY <1>1 DEF RunInPhase
<1>5. \A q \in Runs : q # r => phase[q] \notin {"checked", "working"}
  BY <1>0, OtherRuns
<1>6. \A q \in Runs : q # r => \A s \in Slots : job'[<<q, s>>] = job[<<q, s>>]
  BY <1>0 DEF Workers
<1> QED BY <1>0, <1>1, <1>2, <1>3, <1>4, <1>5, <1>6, RunStep DEF Ended

(* While nobody runs, what the retry command does to the files is seen by   *)
(* no worker, and the history keeps what it takes away.                     *)
LEMMA RetryStep ==
    ASSUME IInv, TInv', \A r \in Runs : ~Active(r),
           UNCHANGED <<run, worker, faults>>, history \subseteq history',
           \A j \in Jobs, k \in KindSet :
              file'[j][k] # file[j][k] =>
                 file'[j][k] = NoFile /\ (Exists(j, k) => <<j, k, file[j][k]>> \in history'),
           retrying' = {} => moving' = {}
    PROVE  IInv'
<1>0. TInv /\ Alone /\ JobsApart /\ \A r \in Runs : phase[r] \notin {"checked", "working"}
  BY DEF IInv, Active
<1>1. Alone' /\ JobsApart'
  BY <1>0 DEF Alone, JobsApart, Active, run, worker
<1>2. \A x \in Workers : job[x] = NoJob
  BY <1>0, WorkerIsPair, BusyWorker DEF WorkerInPlace
<1>3. ASSUME NEW r \in Runs PROVE RunInPhase(r)'
  <2>1. \A j \in Jobs : ResultHolds(r, j) => ResultHolds(r, j)'
    BY ResultStays DEF run, Ended
  <2> QED BY <1>0, <2>1 DEF IInv, RunInPhase, NothingDone, run
<1>4. SpendingIsBounded'
  BY DEF IInv, SpendingIsBounded, run
<1>5. AttemptsAreRecorded'
  <2> SUFFICES ASSUME NEW q \in Runs, NEW j \in Jobs, requests[q][j] # 0,
                      phase[q] # "dead", ~Kept(j, "usage", q)', ~Faulted(q, j)
               PROVE  \E s \in Slots : job[<<q, s>>] = j
    BY DEF AttemptsAreRecorded, Faulted, run, worker
  <2>1. ~Kept(j, "usage", q)
    BY KeptStays DEF KindSet
  <2> QED BY <2>1 DEF IInv, AttemptsAreRecorded, Faulted
<1>6. OwnersHaveStarted'
  <2> SUFFICES ASSUME NEW j \in Jobs, NEW k \in KindSet, Exists(j, k)'
               PROVE  phase'[file'[j][k].by] \notin {"off", "checked"}
    BY DEF OwnersHaveStarted
  <2>1. file'[j][k] = file[j][k] /\ Exists(j, k)
    BY DEF Exists
  <2> QED BY <2>1 DEF IInv, OwnersHaveStarted, run
<1> QED BY <1>1, <1>2, <1>3, <1>4, <1>5, <1>6 DEF IInv, worker

(* The retry command moves a file that is there into the history. *)
LEMMA RetryMoveKeeps ==
    ASSUME TypeOK, RetryMove
    PROVE  /\ history \subseteq history'
           /\ \A j \in Jobs, k \in KindSet :
                 file'[j][k] # file[j][k] =>
                    file'[j][k] = NoFile /\ (Exists(j, k) => <<j, k, file[j][k]>> \in history')
           /\ retrying # {}
           /\ retrying' = {} => moving' = {}
<1>1. PICK i \in retrying, l \in moving :
        IF Exists(i, l)
        THEN /\ history' = history \cup {<<i, l, file[i][l]>>}
             /\ file' = [file EXCEPT ![i][l] = NoFile]
             /\ moving' = moving \ {l}
             /\ retrying' = IF moving' = {} THEN retrying \ {i} ELSE retrying
        ELSE moving' = {} /\ retrying' = {} /\ UNCHANGED <<file, history>>
  BY DEF RetryMove
<1>2. CASE Exists(i, l)
  <2>1. i \in Jobs /\ l \in KindSet /\ NoFile \in File \cup {NoFile}
        /\ file \in [Jobs -> [KindSet -> File \cup {NoFile}]]
    BY DEF TypeOK
  <2>2. ASSUME NEW j \in Jobs, NEW k \in KindSet
        PROVE  file'[j][k] = IF j = i /\ k = l THEN NoFile ELSE file[j][k]
    BY <1>1, <1>2, <2>1, TableOther
  <2> QED BY <1>1, <1>2, <2>2
<1>3. CASE ~Exists(i, l)
  BY <1>1, <1>3
<1> QED BY <1>2, <1>3

LEMMA RetryInv ==
    ASSUME ~Overlap, IInv,
           \/ \E jobs \in SUBSET Jobs : RetryBegin(jobs)
           \/ RetryLook \/ RetryMove \/ RetryCrash
    PROVE  IInv'
<1>0. TInv' /\ TypeOK /\ Alone
  BY RetryTyped DEF IInv, TInv
<1>1. ASSUME NEW jobs \in SUBSET Jobs, RetryBegin(jobs) PROVE IInv'
  BY <1>0, <1>1, RetryStep DEF RetryBegin, MayStart, files, bounds
<1>2. CASE RetryLook
  BY <1>0, <1>2, RetryStep DEF RetryLook, files, bounds, Alone
<1>3. CASE RetryMove
  BY <1>0, <1>3, RetryStep, RetryMoveKeeps DEF RetryMove, bounds, Alone
<1>4. CASE RetryCrash
  BY <1>0, <1>4, RetryStep DEF RetryCrash, files, Alone
<1> QED BY <1>1, <1>2, <1>3, <1>4

(* The inputs are in none of this. *)
LEMMA UnseenStep ==
    ASSUME IInv, TInv', UNCHANGED <<files, run, worker, retry, faults>>
    PROVE  IInv'
<1>1. Alone' /\ JobsApart' /\ SpendingIsBounded'
  BY DEF IInv, Alone, Active, JobsApart, SpendingIsBounded, run, worker, retry
<1>2. AttemptsAreRecorded'
  BY DEF IInv, AttemptsAreRecorded, Kept, Exists, files, run, worker
<1>3. ASSUME NEW x \in Workers, job'[x] # NoJob PROVE WorkerOnJob(x)'
  <2>1. WorkerOnJob(x)
    BY <1>3 DEF IInv, worker
  <2> QED BY <2>1
       DEF WorkerOnJob, PairMatches, Paid, Untouched, Recorded, Faulted, Exists, files, run, worker
<1>4. ASSUME NEW r \in Runs PROVE RunInPhase(r)'
  <2>1. RunInPhase(r)
    BY DEF IInv
  <2>2. \A j \in Jobs : ResultHolds(r, j) => ResultHolds(r, j)'
    BY ResultStays DEF files, run, Ended
  <2>3. NothingDone(r) => NothingDone(r)'
    BY DEF NothingDone, run
  <2>4. MissingAreClean(r) => MissingAreClean(r)'
    BY DEF MissingAreClean, Missing, Reusable, Exists, files, run
  <2>5. AtWork(r) => AtWork(r)'
    BY DEF AtWork, Taken, Bound, Untouched, Exists, files, run, worker
  <2> QED BY <2>1, <2>2, <2>3, <2>4, <2>5 DEF RunInPhase, run
<1>5. OwnersHaveStarted'
  BY DEF IInv, OwnersHaveStarted, Exists, files, run
<1> QED BY <1>1, <1>2, <1>3, <1>4, <1>5 DEF IInv

LEMMA InitInv == Init => IInv
<1> SUFFICES ASSUME Init PROVE IInv
  OBVIOUS
<1>1. Alone /\ JobsApart
  BY CampaignAssumption, WorkerIsPair DEF Init, Alone, Active, JobsApart
<1>2. \A r \in Runs : RunInPhase(r)
  BY DEF Init, RunInPhase, NothingDone
<1>3. SpendingIsBounded
  <2> SUFFICES ASSUME NEW r \in Runs
               PROVE  LET paid == {j \in Jobs : requests[r][j] > 0}
                      IN  /\ \A j \in paid : requests[r][j] = 1
                          /\ Cardinality(paid) <= Bound(r)
    BY DEF SpendingIsBounded, Bound
  <2>1. {j \in Jobs : requests[r][j] > 0} = {}
    BY DEF Init
  <2>2. Cardinality({}) = 0 /\ Bound(r) \in Nat
    BY FS_EmptySet, CampaignAssumption DEF Bound
  <2> QED BY <2>1, <2>2
<1>4. AttemptsAreRecorded
  BY DEF Init, AttemptsAreRecorded
<1>5. OwnersHaveStarted
  BY DEF Init, OwnersHaveStarted, Exists
<1> QED BY <1>1, <1>2, <1>3, <1>4, <1>5, InitTyped DEF Init, IInv

LEMMA NextInv ==
    ASSUME ~Overlap, IInv, [Next]_vars
    PROVE  IInv'
<1>0. TInv'
  BY NextTyped DEF IInv
<1>1. ASSUME NEW r \in Runs,
             Preflight(r) \/ NotLoggedIn(r) \/ Inspect(r) \/ Finish(r) \/ Crash(r)
      PROVE  IInv'
  BY <1>1, PreflightInv, NotLoggedInInv, InspectInv, FinishInv, CrashInv
<1>2. ASSUME NEW x \in Workers, Generate(x) PROVE IInv'
  BY <1>2, TakeInv, LeaveInv, WriteSchemaInv, AskInv, WriteBlockInv, WriteOutputInv, WriteStateInv,
     CheckUsageInv, WriteUsageInv, UndoOutputInv, UndoStateInv, CompareBlockInv, ClearBlockInv,
     CleanUpInv, SettleInv DEF Generate
<1>3. ASSUME NEW x \in Workers, Fault(x) \/ \E answer \in Responses : Respond(x, answer)
      PROVE  IInv'
  BY <1>3, FaultInv, RespondInv
<1>4. CASE \/ \E jobs \in SUBSET Jobs : RetryBegin(jobs)
           \/ RetryLook \/ RetryMove \/ RetryCrash
  BY <1>4, RetryInv
<1>5. ASSUME NEW j \in Jobs, NEW v \in Versions, Edit(j, v) PROVE IInv'
  BY <1>0, <1>5, UnseenStep DEF Edit
<1>6. CASE UNCHANGED vars
  BY <1>0, <1>6, UnseenStep DEF vars, bounds
<1> QED BY <1>1, <1>2, <1>3, <1>4, <1>5, <1>6 DEF Next

LEMMA Invariant ==
    ASSUME ~Overlap
    PROVE  Spec => []IInv
<1>1. IInv /\ [Next]_vars => IInv'
  BY NextInv
<1> QED BY <1>1, InitInv, PTL DEF Spec

------------------------------------------------------------------------------
(* What the invariant gives *)

(* However the workers of a run interleave, with crashes, edits and retries *)
(* between runs: a run pays for a job at most once, for at most as many jobs *)
(* as its limit says, and without a limit for one.                          *)
THEOREM SpendingBounded ==
    ASSUME ~Overlap
    PROVE  Spec => []SpendingIsBounded
<1>1. IInv => SpendingIsBounded
  BY DEF IInv
<1> QED BY <1>1, Invariant, PTL

(* Every attempt of a run that lives is on record once no worker is at it,  *)
(* unless a write of the attempt has failed, the record's own or one before *)
(* it: no interleaving, stop or crash of another run loses a record.        *)
THEOREM AttemptsRecorded ==
    ASSUME ~Overlap
    PROVE  Spec => []AttemptsAreRecorded
<1>1. IInv => AttemptsAreRecorded
  BY DEF IInv
<1> QED BY <1>1, Invariant, PTL

(* What a run returns is complete and true: every job it took was generated *)
(* and its files are kept, every other one has a valid pair, an accepted    *)
(* audit of the same input, or was left to a later run by the limit.        *)
THEOREM ReportsTrue ==
    ASSUME ~Overlap
    PROVE  Spec => []ReportsAreTrue
<1>1. IInv => ReportsAreTrue
  <2> SUFFICES ASSUME IInv, NEW r \in Runs, NEW j \in Jobs, phase[r] = "reported"
               PROVE  CASE results[r][j] = "none" -> FALSE
                        [] results[r][j] = "deferred" -> Limit[r] # Unlimited
                        [] results[r][j] = "generated" ->
                              Kept(j, "output", r) /\ Kept(j, "state", r)
                        [] results[r][j] = "reused_canonical" ->
                              Canonical[j] = manifest[r][j]
                        [] results[r][j] = "resumed" ->
                              \E q \in Runs : Kept(j, "output", q) /\ Kept(j, "state", q)
    BY DEF ReportsAreTrue
  <2>1. results[r][j] \in Results \ {"none"} /\ ResultHolds(r, j)
    BY DEF IInv, RunInPhase, TInv, TypeOK
  <2> QED BY <2>1 DEF ResultHolds, Results
<1> QED BY <1>1, Invariant, PTL

(* A worker that waits for the provider has its schema file, although other *)
(* workers of the run clean up after their own jobs.                        *)
THEOREM SchemasStay ==
    ASSUME ~Overlap
    PROVE  Spec => []RequestsHaveTheirSchema
<1>1. IInv => RequestsHaveTheirSchema
  <2> SUFFICES ASSUME IInv, NEW x \in Workers, at[x] = "wait" PROVE job[x] \in schema
    BY DEF RequestsHaveTheirSchema
  <2> QED BY OnJob DEF WorkerOnJob
<1> QED BY <1>1, Invariant, PTL

(* No run replaces or removes a file that was paid for: a worker writes only *)
(* where it has found nothing, nobody else writes there meanwhile, and what *)
(* it takes back is its own, of an attempt whose record could not be        *)
(* written.                                                                 *)
THEOREM EvidenceKept ==
    ASSUME ~Overlap
    PROVE  Spec => EvidenceIsKept
<1>1. IInv /\ [Next]_vars =>
        [\A j \in Jobs, k \in KindSet : Exists(j, k) /\ file'[j][k] # file[j][k] =>
            \/ <<j, k, file[j][k]>> \in history'
            \/ /\ k # "usage" /\ file'[j][k] = NoFile
               /\ <<file[j][k].by, j, "usage">> \in faults]_vars
  <2> SUFFICES ASSUME IInv, Next, NEW j \in Jobs, NEW k \in KindSet,
                      Exists(j, k), file'[j][k] # file[j][k]
               PROVE  \/ <<j, k, file[j][k]>> \in history'
                      \/ /\ k # "usage" /\ file'[j][k] = NoFile
                         /\ <<file[j][k].by, j, "usage">> \in faults
    OBVIOUS
  <2>1. TypeOK /\ TypeOK'
    BY NextTyped DEF IInv, TInv
  <2>2. CASE RetryMove
    BY <2>1, <2>2, RetryMoveKeeps
  <2>3. ASSUME NEW x \in Workers, WriteOutput(x) \/ WriteState(x) \/ WriteUsage(x) PROVE FALSE
    <3>1. at[x] \in {"output", "state", "usage"} /\ job[x] \in Jobs /\ WorkerOnJob(x)
      BY <2>3, OnJob DEF WriteOutput, WriteState, WriteUsage
    <3>2. ~Exists(job[x], at[x]) /\ at[x] \in KindSet
      BY <3>1 DEF WorkerOnJob, Untouched, KindSet
    <3>3. file'[j][k] # file[j][k] => j = job[x] /\ k = at[x]
      BY <2>1, <2>3, <3>1 DEF TypeOK, WriteOutput, WriteState, WriteUsage
    <3> QED BY <3>2, <3>3
  <2>4. ASSUME NEW x \in Workers, UndoOutput(x) \/ UndoState(x)
        PROVE  /\ k # "usage" /\ file'[j][k] = NoFile
               /\ <<file[j][k].by, j, "usage">> \in faults
    <3>1. /\ at[x] \in {"undo_output", "undo_state"} /\ job[x] \in Jobs
          /\ <<x[1], job[x], "usage">> \in faults
          /\ at[x] = "undo_output" => Paid(job[x], "output", x[1])
          /\ at[x] = "undo_state" => Paid(job[x], "state", x[1])
      BY <2>4, OnJob DEF UndoOutput, UndoState, WorkerOnJob
    <3>2. file'[j][k] # file[j][k] =>
            /\ j = job[x] /\ file'[j][k] = NoFile
            /\ k = IF at[x] = "undo_output" THEN "output" ELSE "state"
      BY <2>1, <2>4, <3>1 DEF TypeOK, UndoOutput, UndoState
    <3> QED BY <3>1, <3>2 DEF Paid
  <2>5. file' = file \/ RetryMove
        \/ (\E x \in Workers : WriteOutput(x) \/ WriteState(x) \/ WriteUsage(x))
        \/ (\E x \in Workers : UndoOutput(x) \/ UndoState(x))
    BY DEF Next, Generate, Fault, Preflight, NotLoggedIn, Inspect, Finish, Crash, Take, Leave,
           WriteSchema, Ask, WriteBlock, CheckUsage, CompareBlock, ClearBlock, CleanUp, Settle,
           Respond, RetryBegin, RetryLook, RetryCrash, Edit, files
  <2> QED BY <2>2, <2>3, <2>4, <2>5
<1> QED BY <1>1, Invariant, PTL DEF Spec, EvidenceIsKept

(* Only the success of a request that was sent while a provider block stood *)
(* takes that block away: between the comparison and the removal no other   *)
(* worker has written a newer one.                                          *)
THEOREM BlockOutlives ==
    ASSUME ~Overlap
    PROVE  Spec => BlockOutlivesOlderRequests
<1>1. IInv /\ [Next]_vars =>
        [block # NoFile /\ block' = NoFile =>
            \E x \in Workers : at[x] = "clear" /\ snapshot[x] = block]_vars
  <2> SUFFICES ASSUME IInv, Next, block # NoFile, block' = NoFile
               PROVE  \E x \in Workers : at[x] = "clear" /\ snapshot[x] = block
    OBVIOUS
  <2>1. ASSUME NEW x \in Workers, WriteBlock(x) PROVE FALSE
    <3>1. <<x[1], job[x]>> \in Runs \X Jobs
      BY <2>1, OnJob DEF WriteBlock
    <3> QED BY <2>1, <3>1, CampaignAssumption DEF WriteBlock
  <2>2. ASSUME NEW x \in Workers, ClearBlock(x) PROVE at[x] = "clear" /\ snapshot[x] = block
    BY <2>2, OnJob DEF ClearBlock, WorkerOnJob
  <2>3. block' = block \/ \E x \in Workers : WriteBlock(x) \/ ClearBlock(x)
    BY DEF Next, Generate, Fault, Preflight, NotLoggedIn, Inspect, Finish, Crash, Take, Leave,
           WriteSchema, Ask, WriteOutput, WriteState, CheckUsage, WriteUsage, UndoOutput, UndoState,
           CompareBlock, CleanUp, Settle, Respond,
           RetryBegin, RetryLook, RetryMove, RetryCrash, Edit, files
  <2> QED BY <2>1, <2>2, <2>3
<1> QED BY <1>1, Invariant, PTL DEF Spec, BlockOutlivesOlderRequests

(* What makes preflight refuse a job, the retry command accepts: the two    *)
(* tests agree on every combination of files, so no invariant is needed.    *)
THEOREM RefusedCanBeRetried == Spec => []NeverStuck
<1>1. NeverStuck
  BY DEF NeverStuck, Blocks, Classify, Retryable, Resumable, KindSet
<1> QED BY <1>1, PTL

==============================================================================
