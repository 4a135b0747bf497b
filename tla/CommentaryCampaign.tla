-------------------------- MODULE CommentaryCampaign --------------------------
(***************************************************************************)
(* The paid commentary campaign (packages/harness/src/commentary-campaign  *)
(* .ts): runs of executeCommentaryCampaign, each a process with a pool of  *)
(* workers that ask the provider for one job at a time, and the retry      *)
(* command that archives a job's files so that it can be asked for again.  *)
(*                                                                         *)
(* A job has three files: its output, the state that binds the output to   *)
(* the job's input, and the usage record of the attempt.  A run is a       *)
(* JavaScript process: its workers give up the thread only where they      *)
(* await, but each file it touches is a step that a crash, an edit of an   *)
(* input or another process can come before.                               *)
(***************************************************************************)
EXTENDS Naturals, FiniteSets

CONSTANTS
    Runs,           \* runs with --execute that operators start
    Jobs,           \* the jobs of the manifest
    Place,          \* Place[j]: where the manifest lists job j
    Stage,          \* "audit", or "draft" for any other stage
    Concurrency,    \* --concurrency
    Limit,          \* Limit[r]: --max-new-jobs of run r, or Unlimited
    Versions,       \* contents that the inputs of a job may have
    Canonical,      \* Canonical[j]: the input of its accepted audit, or NoFile
    Overlap,        \* whether operators start a run or retry during another
    MaxEdits,       \* bound: edits of inputs
    MaxAccidents,   \* bound: processes that die and writes that fail
    Unlimited, NoFile, NoJob, Nobody

Slots == 1..Concurrency
Workers == Runs \X Slots

Verdicts == {"pass", "fail"}
Responses == Verdicts \cup {"invalid_output", "provider_quota", "failed"}

(* by: the run that paid for it; input: what it was made from or bound to *)
File == [by : Runs, input : Versions, says : Responses]
KindSet == {"output", "state", "usage"}
Kinds == [output |-> 1, state |-> 2, usage |-> 3]

(* The first of a set of jobs in the manifest, and of a job's kinds of file. *)
IsNextJob(j, jobs) == j \in jobs /\ \A i \in jobs : Place[j] <= Place[i]
IsNextKind(k, kinds) == k \in kinds /\ \A i \in kinds : Kinds[k] <= Kinds[i]

Phases == {"off", "checked", "working", "reported", "refused", "dead"}
Steps == {"loop", "schema", "ask", "wait", "block", "output", "state", "check",
          "usage", "undo_output", "undo_state", "compare", "clear", "cleanup",
          "settle", "done"}
Results == {"none", "resumed", "reused_canonical", "deferred", "generated"}

ASSUME CampaignAssumption ==
    /\ IsFiniteSet(Jobs)
    /\ Place \in [Jobs -> Nat]
    /\ \A i, j \in Jobs : Place[i] = Place[j] => i = j
    /\ Stage \in {"draft", "audit"}
    /\ Concurrency \in 1..40
    /\ Limit \in [Runs -> (Nat \ {0}) \cup {Unlimited}]
    /\ Unlimited \notin Nat
    /\ Canonical \in [Jobs -> Versions \cup {NoFile}]
    /\ Stage = "draft" => Canonical = [j \in Jobs |-> NoFile]
    /\ Overlap \in BOOLEAN
    /\ MaxEdits \in Nat
    /\ MaxAccidents \in Nat
    /\ NoFile \notin File \cup Versions \cup (Runs \X Jobs)
    /\ NoJob \notin Jobs
    /\ Nobody \notin Slots

VARIABLES
    input,      \* input[j]: the content of the job's input files
    file,       \* file[j][k]: the job's file of kind k
    schema,     \* the jobs whose output schema file exists
    block,      \* the provider block: the attempt that met the limit
    history,    \* the archived files
    phase,      \* phase[r]
    manifest,   \* manifest[r][j]: the input that the run's manifest binds
    pending,    \* pending[r]: the jobs that no worker has taken yet
    results,    \* results[r][j]
    failures,   \* failures[r]: the jobs that failed
    stop,       \* the runs with stopScheduling
    requests,   \* requests[r][j]: how many requests r has paid for
    turn,       \* turn[r]: the worker that has the thread of r
    at,         \* at[x]: what worker x does next
    job,        \* job[x]: its job
    snapshot,   \* snapshot[x]: the provider block before its request
    response,   \* response[x]: what became of its request
    from,       \* from[x]: the input that the provider has read
    retrying,   \* the jobs that the retry command has left
    moving,     \* the kinds of the first of them that it has left
    accidents, edits,
    faults      \* the runs, jobs and steps at which a write has failed (history)

files == <<file, schema, block, history>>
run == <<phase, manifest, pending, results, failures, stop, requests>>
worker == <<turn, at, job, snapshot, response, from>>
retry == <<retrying, moving>>
bounds == <<accidents, edits, faults>>
vars == <<input, files, run, worker, retry, bounds>>

Exists(j, k) == file[j][k] # NoFile

Active(r) == phase[r] \in {"checked", "working"}

(* Operators start a run or a retry while no other is going, or any time. *)
MayStart == Overlap \/ (retrying = {} /\ \A r \in Runs : ~Active(r))

------------------------------------------------------------------------------
(* inspectResume, preflight and the retry command's own test of a job *)

(* The pair of output and state is valid for input v. *)
Resumable(j, v) ==
    /\ Exists(j, "output") /\ Exists(j, "state")
    /\ file[j]["state"].by = file[j]["output"].by
    /\ file[j]["state"].input = v

Reusable(j, v) == Canonical[j] = v

InspectResume(j, v) ==
    IF Resumable(j, v) THEN "resumed"
    ELSE IF Reusable(j, v) THEN "reused_canonical"
    ELSE IF ~Exists(j, "output") /\ ~Exists(j, "state") THEN "none"
    ELSE "refused"

(* Mutant: preflight does not look at the usage record. *)
ClassifyPair(j, v) ==
    IF input[j] # v THEN "stale"
    ELSE IF ~Exists(j, "output") /\ ~Exists(j, "state")
         THEN IF Reusable(j, v) THEN "current" ELSE "missing"
    ELSE IF Exists(j, "output") # Exists(j, "state") THEN "malformed"
    ELSE IF ~Resumable(j, v) THEN "stale"
    ELSE IF file[j]["output"].says = "fail" THEN "semantic_fail"
    ELSE "current"

Classify(j, v) ==
    IF input[j] # v THEN "stale"
    ELSE IF ~Exists(j, "output") /\ ~Exists(j, "state")
         THEN IF Exists(j, "usage") THEN "malformed"
              ELSE IF Reusable(j, v) THEN "current" ELSE "missing"
    ELSE IF Exists(j, "output") # Exists(j, "state") THEN "malformed"
    ELSE IF ~Resumable(j, v) THEN "stale"
    ELSE IF file[j]["output"].says = "fail" THEN "semantic_fail"
    ELSE "current"

Blocks(classification) == classification \in {"stale", "malformed"}

(* Mutant: the retry command accepts the canonical audit as the outcome. *)
RetryableUnlessReusable(j) ==
    /\ \E k \in KindSet : Exists(j, k)
    /\ Stage = "audit" => InspectResume(j, input[j]) \in {"none", "refused"}

Retryable(j) ==
    /\ \E k \in KindSet : Exists(j, k)
    /\ Stage = "audit" => ~Resumable(j, input[j])

------------------------------------------------------------------------------
(* executeCommentaryCampaign before its workers *)

Init ==
    /\ input \in [Jobs -> Versions]
    /\ file = [j \in Jobs |-> [k \in KindSet |-> NoFile]]
    /\ schema = {}
    /\ block = NoFile
    /\ history = {}
    /\ phase = [r \in Runs |-> "off"]
    /\ manifest = [r \in Runs |-> input]
    /\ pending = [r \in Runs |-> {}]
    /\ results = [r \in Runs |-> [j \in Jobs |-> "none"]]
    /\ failures = [r \in Runs |-> {}]
    /\ stop = {}
    /\ requests = [r \in Runs |-> [j \in Jobs |-> 0]]
    /\ turn = [r \in Runs |-> Nobody]
    /\ at = [x \in Workers |-> "done"]
    /\ job = [x \in Workers |-> NoJob]
    /\ snapshot = [x \in Workers |-> NoFile]
    /\ response = [x \in Workers |-> "failed"]
    /\ from = [x \in Workers |-> NoFile]
    /\ retrying = {}
    /\ moving = {}
    /\ accidents = 0
    /\ edits = 0
    /\ faults = {}

(* The manifest is built and preflight classifies every job. *)
Preflight(r) ==
    /\ phase[r] = "off"
    /\ MayStart
    /\ manifest' = [manifest EXCEPT ![r] = input]
    /\ LET missing == {j \in Jobs : Classify(j, input[j]) = "missing"}
           ok == /\ \A j \in Jobs : ~Blocks(Classify(j, input[j]))
                 /\ Limit[r] = Unlimited => Cardinality(missing) <= 1
       IN  phase' = [phase EXCEPT ![r] = IF ok THEN "checked" ELSE "refused"]
    /\ UNCHANGED <<input, files, pending, results, failures, stop, requests,
                   worker, retry, bounds>>

(* The version or the login of the provider's CLI is not accepted, or an    *)
(* audit's packet cannot be written.                                       *)
NotLoggedIn(r) ==
    /\ phase[r] = "checked"
    /\ phase' = [phase EXCEPT ![r] = "refused"]
    /\ UNCHANGED <<input, files, manifest, pending, results, failures, stop,
                   requests, worker, retry, bounds>>

Earlier(j, jobs) == {i \in jobs : Place[i] < Place[j]}

(* Mutant: one job more than the limit is taken. *)
SlicedOneMore(jobs, limit) ==
    IF limit = Unlimited THEN jobs
    ELSE {j \in jobs : Cardinality(Earlier(j, jobs)) <= limit}

(* The first jobs in the manifest's order, as many as the limit allows. *)
Sliced(jobs, limit) ==
    IF limit = Unlimited THEN jobs
    ELSE {j \in jobs : Cardinality(Earlier(j, jobs)) < limit}

(* The inputs are validated again and every job is inspected. *)
Inspect(r) ==
    /\ phase[r] = "checked"
    /\ LET decision == [j \in Jobs |-> InspectResume(j, manifest[r][j])]
           taken == Sliced({j \in Jobs : decision[j] = "none"}, Limit[r])
           ok == /\ input = manifest[r]
                 /\ \A j \in Jobs : decision[j] # "refused"
       IN  IF ok
           THEN /\ phase' = [phase EXCEPT ![r] = "working"]
                /\ pending' = [pending EXCEPT ![r] = taken]
                /\ results' = [results EXCEPT ![r] = [j \in Jobs |->
                     IF decision[j] # "none" THEN decision[j]
                     ELSE IF j \in taken THEN "none" ELSE "deferred"]]
                /\ at' = [x \in Workers |->
                     IF x[1] = r /\ x[2] <= Cardinality(taken) THEN "loop" ELSE at[x]]
           ELSE /\ phase' = [phase EXCEPT ![r] = "refused"]
                /\ UNCHANGED <<pending, results, at>>
    /\ UNCHANGED <<input, files, manifest, failures, stop, requests, turn, job,
                   snapshot, response, from, retry, bounds>>

------------------------------------------------------------------------------
(* generateJob: the steps of a worker x = <<r, slot>> that has the thread *)

Holds(x) == turn[x[1]] = x[2]
MayTake(x) == turn[x[1]] \in {Nobody, x[2]}
Goto(x, to) == at' = [at EXCEPT ![x] = to]
KeepThread(x) == turn' = [turn EXCEPT ![x[1]] = x[2]]
GiveUpThread(x) == turn' = [turn EXCEPT ![x[1]] = Nobody]

(* What worker x writes: its response, bound to input v. *)
Written(x, v) == [by |-> x[1], input |-> v, says |-> response[x]]

(* Mutant: the loop does not look at stopScheduling. *)
SchedulesRegardless(r) == pending[r] # {}

Schedules(r) == r \notin stop /\ pending[r] # {}

(* The worker takes the next job. *)
Take(x) ==
    LET r == x[1] IN
    /\ at[x] = "loop" /\ MayTake(x)
    /\ Schedules(r)
    /\ \E j \in Jobs :
        /\ IsNextJob(j, pending[r])
        /\ pending' = [pending EXCEPT ![r] = @ \ {j}]
        /\ job' = [job EXCEPT ![x] = j]
    /\ Goto(x, "schema") /\ KeepThread(x)
    /\ UNCHANGED <<input, files, phase, manifest, results, failures, stop,
                   requests, snapshot, response, from, retry, bounds>>

WriteSchema(x) ==
    /\ at[x] = "schema" /\ Holds(x)
    /\ schema' = schema \cup {job[x]}
    /\ Goto(x, "ask")
    /\ UNCHANGED <<input, file, block, history, run, turn, job, snapshot,
                   response, from, retry, bounds>>

Leave(x) ==
    /\ at[x] = "loop" /\ MayTake(x)
    /\ ~Schedules(x[1])
    /\ Goto(x, "done") /\ GiveUpThread(x)
    /\ UNCHANGED <<input, files, run, job, snapshot, response, from, retry, bounds>>

(* The provider block is read and the request sent. *)
Ask(x) ==
    /\ at[x] = "ask" /\ Holds(x)
    /\ snapshot' = [snapshot EXCEPT ![x] = block]
    /\ requests' = [requests EXCEPT ![x[1]][job[x]] = @ + 1]
    /\ Goto(x, "wait") /\ GiveUpThread(x)
    /\ UNCHANGED <<input, files, phase, manifest, pending, results, failures,
                   stop, job, response, from, retry, bounds>>

(* Mutant: an audit too is made from what the input is by then. *)
PacketReadLate(x) == input[job[x]]

(* Mutant: an audit is sent without its packet. *)
PacketMissing(x) == IF Stage = "audit" THEN NoFile ELSE input[job[x]]

(* An audit's packet was prepared for the manifest; other stages have the *)
(* provider read the input files.                                         *)
ProviderReads(x) ==
    IF Stage = "audit" THEN manifest[x[1]][job[x]] ELSE input[job[x]]

(* Mutant: an invalid output is not recorded. *)
AfterResponseUnlessInvalid(answer) ==
    CASE answer \in Verdicts -> "output"
      [] answer = "provider_quota" -> "block"
      [] answer = "invalid_output" -> "cleanup"
      [] OTHER -> "check"

AfterResponse(answer) ==
    CASE answer \in Verdicts -> "output"
      [] answer = "provider_quota" -> "block"
      [] OTHER -> "check"

(* The await returns; without its schema file the command fails. *)
Respond(x, answer) ==
    /\ at[x] = "wait" /\ turn[x[1]] = Nobody
    /\ Stage = "draft" => answer # "fail"
    /\ job[x] \notin schema => answer = "failed"
    /\ response' = [response EXCEPT ![x] = answer]
    /\ from' = [from EXCEPT ![x] = ProviderReads(x)]
    /\ Goto(x, AfterResponse(answer)) /\ KeepThread(x)
    /\ UNCHANGED <<input, files, run, job, snapshot, retry, bounds>>

WriteBlock(x) ==
    /\ at[x] = "block" /\ Holds(x)
    /\ block' = <<x[1], job[x]>>
    /\ Goto(x, "check")
    /\ UNCHANGED <<input, file, schema, history, run, turn, job, snapshot,
                   response, from, retry, bounds>>

WriteOutput(x) ==
    /\ at[x] = "output" /\ Holds(x)
    /\ file' = [file EXCEPT ![job[x]]["output"] = Written(x, from[x])]
    /\ Goto(x, "state")
    /\ UNCHANGED <<input, schema, block, history, run, turn, job, snapshot,
                   response, from, retry, bounds>>

WriteState(x) ==
    /\ at[x] = "state" /\ Holds(x)
    /\ file' = [file EXCEPT ![job[x]]["state"] = Written(x, manifest[x[1]][job[x]])]
    /\ Goto(x, "check")
    /\ UNCHANGED <<input, schema, block, history, run, turn, job, snapshot,
                   response, from, retry, bounds>>

(* recordCommentaryCampaignAttempt refuses to overwrite a usage record, and *)
(* its error replaces whatever the attempt ended with.                      *)
CheckUsage(x) ==
    /\ at[x] = "check" /\ Holds(x)
    /\ IF ~Exists(job[x], "usage")
       THEN Goto(x, "usage") /\ UNCHANGED response
       ELSE /\ Goto(x, IF response[x] \in Verdicts THEN "undo_output" ELSE "cleanup")
            /\ response' = [response EXCEPT ![x] = "failed"]
    /\ UNCHANGED <<input, files, run, turn, job, snapshot, from, retry, bounds>>

WriteUsage(x) ==
    /\ at[x] = "usage" /\ Holds(x)
    /\ file' = [file EXCEPT ![job[x]]["usage"] = Written(x, manifest[x[1]][job[x]])]
    /\ Goto(x, IF response[x] \in Verdicts THEN "compare" ELSE "cleanup")
    /\ UNCHANGED <<input, schema, block, history, run, turn, job, snapshot,
                   response, from, retry, bounds>>

UndoOutput(x) ==
    /\ at[x] = "undo_output" /\ Holds(x)
    /\ file' = [file EXCEPT ![job[x]]["output"] = NoFile]
    /\ Goto(x, "undo_state")
    /\ UNCHANGED <<input, schema, block, history, run, turn, job, snapshot,
                   response, from, retry, bounds>>

UndoState(x) ==
    /\ at[x] = "undo_state" /\ Holds(x)
    /\ file' = [file EXCEPT ![job[x]]["state"] = NoFile]
    /\ Goto(x, "cleanup")
    /\ UNCHANGED <<input, schema, block, history, run, turn, job, snapshot,
                   response, from, retry, bounds>>

(* Mutant: a success clears whatever block there is. *)
ClearsAnyBlock(x) == block # NoFile

(* clearLunaProviderBlock: only the block that was there before the request. *)
ClearsBlock(x) == block # NoFile /\ block = snapshot[x]

CompareBlock(x) ==
    /\ at[x] = "compare" /\ Holds(x)
    /\ Goto(x, IF ClearsBlock(x) THEN "clear" ELSE "cleanup")
    /\ UNCHANGED <<input, files, run, turn, job, snapshot, response, from, retry, bounds>>

ClearBlock(x) ==
    /\ at[x] = "clear" /\ Holds(x)
    /\ block' = NoFile
    /\ Goto(x, "cleanup")
    /\ UNCHANGED <<input, file, schema, history, run, turn, job, snapshot,
                   response, from, retry, bounds>>

(* Mutant: the finally clause removes the directory of schemas. *)
SchemasLeftNone(x) == {}

SchemasLeft(x) == schema \ {job[x]}

(* The finally clause; the rejection or the result is awaited by the pool. *)
CleanUp(x) ==
    /\ at[x] = "cleanup" /\ Holds(x)
    /\ schema' = SchemasLeft(x)
    /\ Goto(x, "settle") /\ GiveUpThread(x)
    /\ UNCHANGED <<input, file, block, history, run, job, snapshot, response,
                   from, retry, bounds>>

(* Mutant: an invalid output is not counted as a failure. *)
FailedUnlessInvalid(answer) == answer \notin Verdicts \cup {"invalid_output"}

Failed(answer) == answer \notin Verdicts

(* Only an invalid output lets the other workers go on. *)
Settle(x) ==
    LET r == x[1] IN
    /\ at[x] = "settle" /\ turn[r] = Nobody
    /\ IF Failed(response[x])
       THEN /\ failures' = [failures EXCEPT ![r] = @ \cup {job[x]}]
            /\ stop' = IF response[x] = "invalid_output" THEN stop ELSE stop \cup {r}
            /\ UNCHANGED results
       ELSE /\ results' = [results EXCEPT ![r][job[x]] = "generated"]
            /\ UNCHANGED <<failures, stop>>
    /\ job' = [job EXCEPT ![x] = NoJob]
    /\ Goto(x, "loop") /\ KeepThread(x)
    /\ UNCHANGED <<input, files, phase, manifest, pending, requests, snapshot,
                   response, from, retry, bounds>>

(* What generateJob does next when the write of a step throws.  Before the  *)
(* request, it has not entered its try block; the record of a generated job *)
(* takes the output and the state back.                                     *)
AfterFault(x) ==
    CASE at[x] \in {"schema", "cleanup"} -> "settle"
      [] at[x] = "usage" /\ response[x] \in Verdicts -> "undo_output"
      [] OTHER -> "cleanup"

(* An atomicWrite or an rmSync of generateJob throws: its file stays as it  *)
(* was, and the error replaces whatever the attempt ended with.             *)
Fault(x) ==
    /\ at[x] \in {"schema", "block", "output", "state", "usage", "undo_output",
                  "undo_state", "clear", "cleanup"}
    /\ Holds(x)
    /\ accidents < MaxAccidents
    /\ accidents' = accidents + 1
    /\ faults' = faults \cup {<<x[1], job[x], at[x]>>}
    /\ response' = [response EXCEPT ![x] = "failed"]
    /\ Goto(x, AfterFault(x))
    /\ IF AfterFault(x) = "settle" THEN GiveUpThread(x) ELSE UNCHANGED turn
    /\ UNCHANGED <<input, files, run, job, snapshot, from, retry, edits>>

Generate(x) ==
    \/ Take(x) \/ Leave(x) \/ WriteSchema(x) \/ Ask(x)
    \/ WriteBlock(x) \/ WriteOutput(x) \/ WriteState(x)
    \/ CheckUsage(x) \/ WriteUsage(x) \/ UndoOutput(x) \/ UndoState(x)
    \/ CompareBlock(x) \/ ClearBlock(x) \/ CleanUp(x) \/ Settle(x)

(* Mutant: the run waits for every job to be taken. *)
JoinedAndEmpty(r) == pending[r] = {} /\ \A s \in Slots : at[<<r, s>>] = "done"

Joined(r) == \A s \in Slots : at[<<r, s>>] = "done"

(* All workers have left: failures are thrown, or the results returned. *)
Finish(r) ==
    /\ phase[r] = "working"
    /\ Joined(r)
    /\ phase' = [phase EXCEPT ![r] = IF failures[r] = {} THEN "reported" ELSE "refused"]
    /\ UNCHANGED <<input, files, manifest, pending, results, failures, stop,
                   requests, worker, retry, bounds>>

------------------------------------------------------------------------------
(* The retry command, in the write lock of the dialogue's campaign state *)

RetryBegin(jobs) ==
    /\ retrying = {}
    /\ MayStart
    /\ jobs # {} /\ \A j \in jobs : Retryable(j)
    /\ retrying' = jobs
    /\ UNCHANGED <<input, files, run, worker, moving, bounds>>

(* The next job: which of its files exist. *)
RetryLook ==
    /\ moving = {}
    /\ \E j \in retrying :
        /\ IsNextJob(j, retrying)
        /\ moving' = {k \in KindSet : Exists(j, k)}
        /\ retrying' = IF moving' = {} THEN retrying \ {j} ELSE retrying
    /\ UNCHANGED <<input, files, run, worker, bounds>>

(* renameSync throws if the file has gone by now. *)
RetryMove ==
    /\ \E j \in retrying, k \in moving :
        /\ IsNextJob(j, retrying) /\ IsNextKind(k, moving)
        /\ IF Exists(j, k)
           THEN /\ history' = history \cup {<<j, k, file[j][k]>>}
                /\ file' = [file EXCEPT ![j][k] = NoFile]
                /\ moving' = moving \ {k}
                /\ retrying' = IF moving' = {} THEN retrying \ {j} ELSE retrying
           ELSE /\ moving' = {}
                /\ retrying' = {}
                /\ UNCHANGED <<file, history>>
    /\ UNCHANGED <<input, schema, block, run, worker, bounds>>

------------------------------------------------------------------------------
(* Crashes and edits; a rename that fails ends the retry as its death does *)

Crash(r) ==
    /\ Active(r)
    /\ accidents < MaxAccidents
    /\ accidents' = accidents + 1
    /\ phase' = [phase EXCEPT ![r] = "dead"]
    /\ at' = [x \in Workers |-> IF x[1] = r THEN "done" ELSE at[x]]
    /\ turn' = [turn EXCEPT ![r] = Nobody]
    /\ job' = [x \in Workers |-> IF x[1] = r THEN NoJob ELSE job[x]]
    /\ UNCHANGED <<input, files, manifest, pending, results, failures, stop,
                   requests, snapshot, response, from, retry, edits, faults>>

RetryCrash ==
    /\ retrying # {}
    /\ accidents < MaxAccidents
    /\ accidents' = accidents + 1
    /\ retrying' = {}
    /\ moving' = {}
    /\ UNCHANGED <<input, files, run, worker, edits, faults>>

Edit(j, v) ==
    /\ edits < MaxEdits
    /\ v # input[j]
    /\ input' = [input EXCEPT ![j] = v]
    /\ edits' = edits + 1
    /\ UNCHANGED <<files, run, worker, retry, accidents, faults>>

Next ==
    \/ \E r \in Runs : Preflight(r) \/ NotLoggedIn(r) \/ Inspect(r) \/ Finish(r) \/ Crash(r)
    \/ \E x \in Workers : Generate(x) \/ Fault(x)
    \/ \E x \in Workers, answer \in Responses : Respond(x, answer)
    \/ \E jobs \in SUBSET Jobs : RetryBegin(jobs)
    \/ RetryLook \/ RetryMove \/ RetryCrash
    \/ \E j \in Jobs, v \in Versions : Edit(j, v)

Spec == Init /\ [][Next]_vars

(* A process that has something to run runs, and the provider answers. *)
Fairness ==
    /\ \A r \in Runs : WF_vars(NotLoggedIn(r) \/ Inspect(r)) /\ WF_vars(Finish(r))
    /\ \A x \in Workers : WF_vars(Generate(x) \/ \E answer \in Responses : Respond(x, answer))

FairSpec == Spec /\ Fairness

------------------------------------------------------------------------------
(* Properties *)

(* Every variable has its type. *)
TypeOK ==
    /\ input \in [Jobs -> Versions]
    /\ file \in [Jobs -> [KindSet -> File \cup {NoFile}]]
    /\ schema \subseteq Jobs
    /\ block \in (Runs \X Jobs) \cup {NoFile}
    /\ history \subseteq (Jobs \X KindSet \X File)
    /\ phase \in [Runs -> Phases]
    /\ manifest \in [Runs -> [Jobs -> Versions]]
    /\ pending \in [Runs -> SUBSET Jobs]
    /\ results \in [Runs -> [Jobs -> Results]]
    /\ failures \in [Runs -> SUBSET Jobs]
    /\ stop \subseteq Runs
    /\ requests \in [Runs -> [Jobs -> Nat]]
    /\ turn \in [Runs -> Slots \cup {Nobody}]
    /\ at \in [Workers -> Steps]
    /\ job \in [Workers -> Jobs \cup {NoJob}]
    /\ snapshot \in [Workers -> (Runs \X Jobs) \cup {NoFile}]
    /\ response \in [Workers -> Responses]
    /\ from \in [Workers -> Versions \cup {NoFile}]
    /\ retrying \subseteq Jobs
    /\ moving \subseteq KindSet
    /\ accidents \in 0..MaxAccidents
    /\ faults \subseteq (Runs \X Jobs \X Steps)
    /\ edits \in 0..MaxEdits

(* A file of kind k that r paid for is in place or in the history. *)
Kept(j, k, r) ==
    \/ Exists(j, k) /\ file[j][k].by = r
    \/ \E h \in history : h[1] = j /\ h[2] = k /\ h[3].by = r

(* However its workers interleave, a run pays for a job at most once, for at *)
(* most Limit jobs, and without a limit for one: the two inspections, on     *)
(* each side of the awaits, agree on what is missing.                        *)
SpendingIsBounded ==
    \A r \in Runs :
        LET paid == {j \in Jobs : requests[r][j] > 0} IN
        /\ \A j \in paid : requests[r][j] = 1
        /\ Cardinality(paid) <= (IF Limit[r] = Unlimited THEN 1 ELSE Limit[r])

(* Once the attempt of a run that lives is over, its usage is on record,     *)
(* whatever the attempt ended with, unless a write failed that comes no      *)
(* later than the record.  The writes of the output, the state and the block *)
(* are outside the try block of the record, so that with one of them the     *)
(* record is lost although it could be written (README, Findings).           *)
AttemptsAreRecorded ==
    \A r \in Runs, j \in Jobs :
        \/ requests[r][j] = 0
        \/ phase[r] = "dead"
        \/ \E s \in Slots : job[<<r, s>>] = j
        \/ Kept(j, "usage", r)
        \/ \E step \in {"block", "output", "state", "usage"} : <<r, j, step>> \in faults

(* What a run returns is complete and true: no worker left a job behind, a   *)
(* generated job's output and state are those it paid for, and a job that is *)
(* not generated has a valid pair or an accepted audit for the same input.   *)
ReportsAreTrue ==
    \A r \in Runs, j \in Jobs : phase[r] = "reported" =>
        CASE results[r][j] = "none" -> FALSE
          [] results[r][j] = "deferred" -> Limit[r] # Unlimited
          [] results[r][j] = "generated" -> Kept(j, "output", r) /\ Kept(j, "state", r)
          [] results[r][j] = "reused_canonical" -> Canonical[j] = manifest[r][j]
          [] results[r][j] = "resumed" ->
                \E q \in Runs : Kept(j, "output", q) /\ Kept(j, "state", q)

(* An audit that is bound to an input was made from that input, although     *)
(* the input may be edited while the provider works.                         *)
AuditsMatchTheirInput ==
    \A j \in Jobs : Resumable(j, file[j]["state"].input) =>
        file[j]["output"].input = file[j]["state"].input

(* What makes preflight refuse a job, the retry command can archive, also    *)
(* when an accepted audit could be reused instead.                           *)
NeverStuck ==
    \A j \in Jobs : Blocks(Classify(j, input[j])) => Retryable(j)

(* A request has its output schema file until it is answered. *)
RequestsHaveTheirSchema ==
    \A x \in Workers : at[x] = "wait" => job[x] \in schema

(* A run never replaces or removes what was paid for (docs: normal runs      *)
(* refuse partial or stale state rather than overwriting evidence): only the *)
(* retry command takes a file away, into the history, and an attempt whose   *)
(* record could not be written takes back its own output and state.          *)
EvidenceIsKept ==
    [][\A j \in Jobs, k \in KindSet :
          Exists(j, k) /\ file'[j][k] # file[j][k] =>
              \/ <<j, k, file[j][k]>> \in history'
              \/ /\ k # "usage" /\ file'[j][k] = NoFile
                 /\ <<file[j][k].by, j, "usage">> \in faults]_vars

(* After a failure other than an invalid output a run sends no new request,  *)
(* although workers are in the middle of their jobs.                         *)
StopIsObeyed ==
    [][\A r \in Runs : r \in stop => requests'[r] = requests[r]]_vars

(* A provider block goes away only because a request that was sent while it  *)
(* stood has succeeded, not one that was already under way.                  *)
BlockOutlivesOlderRequests ==
    [][block # NoFile /\ block' = NoFile =>
          \E x \in Workers : at[x] = "clear" /\ snapshot[x] = block]_vars

(* Every run comes to an end: no worker waits for another. *)
EveryRunEnds ==
    \A r \in Runs : []<>~Active(r)

==============================================================================
