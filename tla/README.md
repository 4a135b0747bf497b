# Verification of the Plato observation wiki

TLA+ models of the concurrent and failure-prone parts of this repository, TLC
runs over small instances, and TLAPS proofs. Paths without a prefix are below
`packages/harness/src/`. PROJECT.json lists the runs, the mutants that show each
property can fail, the source lines behind each definition, the findings, the
hazards and the theorems.

## Inventory of the system

The repository builds a wiki about Plato's dialogues. Agents (several at once,
often paid) write observations, claims, relations and commentary into Markdown
ledgers in the working tree; gates and reviewers change them; derived data, a
site and an audio edition are made from them. There is no database and no
server: the shared state is files, the actors are operating system processes,
and the only synchronisation is a directory-based lock.

| Component | State | Operations | What makes it correct |
|---|---|---|---|
| Repository write lock (`file-lock.ts`) | one directory per locked path under `scratch/wiki-write-locks` | `withRepoWriteLock`: acquire in sorted order, body, release; removal of old directories | exclusion, no leaked lock, no deadlock, every caller gets through |
| Wiki ledger tools (`wiki/tools.ts`) | a ledger file per dialogue; staged drafts in memory | append, stage, commit, write, update of statuses | atomic effect, unique and stable ids, nothing reviewed is lost, writes fit the source |
| Commentary campaign (`commentary-campaign.ts`, telemetry) | output, state and usage file per job; a provider block; run-local pool | preflight, execute with N workers, retry (archive) | bounded spending, no overwritten evidence, truthful reports, termination |
| Commentary gates (drafts, rewrites, repairs, reviews, acceptances, remediation) | commentary ledger, `wiki/submissions`, receipts in `wiki/review` | nine apply gates, each with a preview inside the lock | receipts for decisions, superseded text kept, rollback on failure, acceptances bound to what was submitted |
| Quality audit chain (`wiki/commentary-quality-audit*.ts`, `wiki/commentary-sample-failure-rejection.ts`, `commentary-audit-sample-campaign.ts`) | a preview in scratch; the artifacts of its sample; the accepted manifest with evidence, note and the copies of its predecessors | preview, sample (ask a provider), accept, supersede, reject the failed blocks, refresh | every accepted audit has a passing sample of its very bytes, the chain of predecessors can be replayed for ever, one preview has one verdict, a failed command leaves nothing |
| Ontology audit and finalization (`wiki/ontology-audit*.ts`, `wiki/ontology-vnext-closure.ts`, `wiki/ontology-closure-evidence.ts`) | a package: partitions of source reviews, findings, units and adjudications, a manifest with their hashes, an acceptance with the hash of the manifest; closure evidence, receipt; optional final adjustments | import a reading, reconcile two readings, bind to the corpus, regenerate, close | "accepted" is written last and only for a package that is reviewed, decided, bound to the corpus and regenerated; an interrupted command can be repeated |
| Source and claim segments | none (pure) | plan contiguous slices of a dialogue | cover everything once, within the size bound |
| Job manifest, completeness | a cached report | build reports | report equals the files |
| Validators, derived data, site, audio, CLI, releases | none or regenerated whole | pure or manual pipelines | see PROJECT.json |

How they interact: every ledger tool and gate calls the write lock with the
paths it writes; the campaign asks the provider for drafts, audits and rewrites
and leaves them under `scratch/`; the gates read those artifacts and merge them
into the ledgers; the retry command of the campaign archives job files under the
lock, while a campaign run itself takes no lock.

What is hard here: a lock protocol made of several file-system calls; reads
before and writes after an `await` or outside the lock; several files that are
written one after the other with a fault or a crash in between; workers of one
pool that stop because of each other; commands that are prepared over a file and
applied after somebody else has changed it.

## Modules

| Module | Models | Composes |
|---|---|---|
| `ExclusiveSections` | what the lock promises (abstract) | |
| `RepoWriteLock` | the lock, one step per file-system call | refines `ExclusiveSections` |
| `RepoWriteLockProofs` | theorems about the lock | extends `RepoWriteLock` |
| `AtomicLedger` | what the locked ledger tools promise (abstract) | |
| `LedgerTools` | sessions of `executeWikiToolCalls` over one ledger | refines `AtomicLedger` |
| `LedgerToolsProofs` | theorems about the ledger tools | extends `LedgerTools` |
| `CommentaryCampaign` | runs, workers, provider, retry command | |
| `CommentaryCampaignProofs` | theorems about the campaign | extends `CommentaryCampaign` |
| `CommentaryGates` | the gates over one dialogue | uses `ExclusiveSections` as its lock |
| `CommentaryGatesProofs` | theorems about the gates | extends `CommentaryGates` |
| `GateChainProofs` | the theorem that the chains of receipts are found | extends `CommentaryGatesProofs` |
| `AuditChain` | what the acceptance of quality audits promises (abstract) | |
| `QualityAudit` | previews, samples, acceptances, supersedes, rejections of one dialogue | refines `AuditChain`, uses `ExclusiveSections` as its lock |
| `QualityAuditProofs` | theorems about the quality audit | extends `QualityAudit` |
| `OntologyAudit` | the audit package from its reviews to its acceptance | |
| `OntologyAuditProofs` | theorems about the ontology audit | extends `OntologyAudit` |
| `OntologyClosureProofs` | the theorem that a package can be closed | extends `OntologyAuditProofs` |
| `MC*` | instances for TLC | |

### RepoWriteLock

`pc[p]` is the next file-system call of process `p` inside `withRepoWriteLock`;
`want`, `held` are the local `targets` and `held` of the code; `lock[t]` says
whether the lock directory of `t` exists and who made it (a history: the code
cannot read it); `stale` is the set of paths whose directory has an mtime older
than the limit. Actions follow the code call by call: `Mkdir`/`MkdirExists`,
`WriteOwner`/`OwnerGone`/`OwnerFault`, `StaleExists`, `StaleStat`,
`StaleRemove`, `AcquireFault` (any other call of the acquiring part throws),
`Retry`/`TimeOut`, `EndBody` and the release loop `ReleaseExists`,
`ReleaseStat`, `ReleaseRemove`/`ReleaseThrows`. A directory that a failing call
leaves keeps its creator until that call is over (`Over`, in `Return` and
`Crash`), and only then counts as nobody's; `failed` is the history of the calls
that threw: at which path the owner file was not written, at which the release
stopped. `Crash` leaves directories behind, `Age` makes an orphaned one old. A
directory has aged or has not; that a *living* holder's directory ages as well (a body longer than 30
minutes) is left out, because the weaker environment already breaks exclusion.

### LedgerTools and AtomicLedger

A ledger is a set of records (id, anchor, status), `NoFile` before the first
write. `writeFileSync` is two steps (`Open` truncates, `Fill` writes), so that
unlocked readers can see an empty page. `Read*` are the reading, validating and
computing parts of the tools; the lock is a variable with `Acquire` and
`Release`, the atomic lock that `RepoWriteLock` is shown to implement. The modes
decide the tools and which of them lock: the review tools of *observations* do
not. `EditSource` is the correction of a Greek source by somebody else. The
refinement says that all calls of locking tools take effect at once on the
ledger as it is at that moment.

### CommentaryCampaign

A run is one `executeCommentaryCampaign --execute`. `turn[r]` is the JavaScript
thread: a worker gives it up only at an `await` (the request) and when its loop
ends, yet every file write is a step of its own, because other processes and
crashes do not respect the thread. `Preflight` and `Inspect` are the two
inspections on each side of the awaits; `Take` to `Settle` are `generateJob`;
`RetryBegin`, `RetryLook`, `RetryMove` the retry command. `Fault` is a write or
a removal of `generateJob` that throws, `AfterFault` where its control goes from
there: before the request out of the function, from the block, the output or the
state to the finally clause past the usage record, from the record to the undo of
output and state, which may fail as well. `faults` is the history of those steps. The
writes of a run before its workers start end it (`NotLoggedIn`), and a rename
that fails ends the retry command as its death does (`RetryCrash`). `Respond` is the
provider (external): a good answer, an invalid one, its limit, or any other
failure. `Overlap` says whether operators start a run or a retry while another
one is going; nothing in the code prevents it.
Left out: reads that fail, the screen for listener prose (a second way to fail a job), the
generation of inputs from other stages, access-status files, prompts.

### CommentaryGates

The ledger of one dialogue is a sequence of blocks (unit, wording, anchor,
status); a block's id is its position, its wording the number of the command
that wrote it. `op[p]` is the command that process `p` runs: what it was
prepared from (`seen`), and the file steps it has left (`todo`). `Plan` gives the
order of the writes of each gate, `Undo` what a failure takes back, `Accepts`
the preview that is built inside the lock: a rewrite is bound to the audited
units whatever their statuses, reviews, acceptances, repairs and remediations to
the exact ledger. `mend` is the rewrite repair: another wording for what a review
of a rewriting did not accept.

The ledger goes on while a rewriting waits for its review, and files name
ledgers by their hash, so a gate has to find the way from one ledger to another:
`Leads` follows links one by one, each the only one that fits, and fails
otherwise. An acceptance follows block reviews back to what was submitted
(`Chained`). A repair after a rejection follows later submissions from the
rewriting to the rejection (`Succeeded`) and acceptances from the present ledger
back to it (`AcceptedSince`); a repair after a partial acceptance follows
rejections (`RejectedSince`) and block reviews (`LeftOut`).

`replaced`, `trail` and the `at` of submissions and receipts are histories used
by properties only. All commands are of one day, so that names of receipts
collide as often as they can. Left out: contents of audits and evidence
manifests, the rule that authors and reviewers differ, a draft of a unit that was
imported with another content (refused by its marker), mixed operations in one
remediation, the outline import (it needs draft artifacts that nothing else of
the module has) and the batch of drafts (one write of the ledger, then the
records that the imports of its drafts write).

### QualityAudit and AuditChain

`ledger` is the wording and status of each block, `audits` the audits of the
units in scratch, `disk` every other file by its path. A file that the code names
by a hash is named by the hashed value, so one path never has two contents.
A chain of audits is a sequence of entries (manifest, day, evidence); a note
stands for the copies of the manifests before its own. `Preview` is
`buildCommentaryQualityAuditManifestPreview`: outputs come from current audits,
or are lent by the accepted manifest while its provenance can be replayed; an
audit in scratch that did not pass stands in the way of both, also once it is
stale.
`op[p]` is the command of process `p`: its kind, its day, the `plan` of its steps
with the next one (`at`), the files it has `made`, the ledger it has `opened`, and
whether it has `failed`. `AcceptSteps`, `SupersedeSteps`, `RejectSteps`,
`SampleSteps` give the order of the writes of each, and each step (`Look`,
`LookAgain`, `Put`, `WriteNew`, `Validate`, `Replace`, `ReplaceLedger`) is one
call. A command that fails takes back what it made in the order that `UndoOrder`
gives, one file a step (`TakeBack`, `Left`). The
provider answers with any set of failed blocks, no two times the same (external),
and takes no lock; `Fail` and `Die` come between any two steps. Edits of the
ledger by other gates happen when its lock is free; audits, previews and the
protocol change at any time. `AuditChain` is the promise: a chain of audits of
different ledgers, each passed, that only grows; its `chain` is read off the
files by replaying the accepted manifest's provenance.
Left out: dialogues with more blocks than the sample takes, contents of notes
and reviewers, previews that are edited by hand.

### OntologyAudit

`live` is the corpus, `protocol` the version of the audit's own code,
`artifact` the final adjustments if there are any, `disk` the files of the
package with the closure receipt, `proc` the command that runs: the code takes no
lock, and the documentation has the commands run one after the other. A hash is
the value that it hashes. `StartImport`, `StartReconcile`, `StartBind`,
`StartRegenerate` and `StartClose` are the commands; `ImportSources` to
`RebindAcceptance` the writes of the first two; `Begin` the demotion of an
accepted package; `StageBind`/`PublishBind`/`BindVerify` and
`StageAccept`/`PublishAccept` the staged renames in their order (`BindOrder`,
`AcceptOrder`: the acceptance is last); `Regenerate`/`ProveRun` the two workers
whose digests must agree. `Sound`, `PassesReviewed`, `FindingsCited`,
`Covered` are the verification. `Fail` is a refusal or a fault: inside a
transition it leaves a pending acceptance; `Die` leaves what is there. The corpus,
the protocol and the adjustments change between any two steps. `hasty` is a
history: whether adjustments were written while a command was at work.
One source unit, one record unit and one graph unit stand for the thousands. Left
out: the concept partition (treated like the records), and with it and further
records the fallback of a disagreement to the overlapping records of its source
(`wiki/ontology-audit-reconciliation.ts:177`). The code falls back where nothing
that was found has an adjudication; with one record unit that unit is what was
found, so there is no other to fall back on and the command is refused, as in the
code; the contents of readings beyond their target and action, the writing of worklists, and partial writes of
one file (import and reconcile write in place).

## Runs

| Run | Instance | Shows |
|---|---|---|
| `lock_safety` | 3 processes, 2 paths, 2 calls each; timeouts, faults, crashes; no ageing | exclusion, only failed calls leak and only their own directories, waits ascend, refinement of `ExclusiveSections` |
| `lock_progress` | 2 processes, 2 paths, 2 calls; crashes, faults, ageing; no timeouts | every call returns |
| `lock_stale_steal` | 2 processes, 1 path, ageing | **violated**: two waiters remove the same stale directory, the slower one removes the fresh lock of the faster |
| `ledger_sessions` | 3 sessions, 2 calls each, 3 anchors, ids up to 3; extractors, relation judges, ingests or reviewers | atomicity (refinement), unique ids, records survive, sourced writes, one relation per pair |
| `ledger_unlocked_review` | an extractor and two reviewers of observations | **violated**: a review removes a record appended meanwhile |
| `campaign_reruns` | 2 runs of 2 workers, 2 jobs, retries, no overlap; any two crashes or failed writes and removals | schemas, spending, stop, provider block, records of attempts, truthful reports, evidence kept, every run ends |
| `campaign_edits` | 2 overlapping runs and retries, 1 audit, 2 edits, an accepted audit, a crash or a failed write | audits match their input; what preflight refuses can be archived |
| `campaign_overlap` | 2 overlapping runs over 1 job | **violated**: the later run replaces and removes the output that the earlier one paid for |
| `gates_commands` | 2 processes; 4 commands over 1 block, 3 over 3 blocks, or 3 over 2 rewritten blocks; faults in all gates but the rewrite import; a crash in a decision | the eight properties of the gates |
| `gates_import_fault` | 2 commands, the rewrite import may fail | **violated**: the replaced wording is in no file |
| `quality_chain` | 2 processes, 1 block in 2 wordings, 2 dates, 3 commands, 1 edit or crash; any call may fail | refinement of `AuditChain`, one verdict, evidence for every rejection, rollback |
| `ontology_closures` | 3 reviewers, 4 corpora, 2 readings; 5 commands, 2 edits, 1 failure or death | an accepted package has earned it; a complete and reconciled package that a failure or a death interrupted can be closed by the same commands, agreed omissions and half-applied adjustments apart |

Why the bounds are enough. Lock: a steal needs three parties (a dead one and two
waiters), a wait cycle two callers and two paths; a second call per process
reuses what the first left behind. Ledger: a lost update needs two writers, a
third one tells a reviewer from an extractor; two calls make a draft stale
before its commit. Campaign: two workers are the smallest pool in which one
stops another, two jobs with limits 1 and 2 reach deferred, sliced and
left-over jobs, two runs find each other's files; two accidents are a failed record with a
failed undo, or a failure in each of two runs. Gates: the longest protocol
(import, rewrite, review of another block, acceptance) takes four commands; a
chain of two receipts needs three blocks; a repair after the rejection of one
rewriting and the acceptance of another needs three commands after both. Quality audit: a race needs two
commands and a third one to use what they left; two dates are enough for a chain
of two, since the name of a note is its date; an edit makes a manifest stale.
Ontology: a package is accepted after five commands (import, import, reconcile,
close) with one to spare for a second closure, and reaches adjustments with one
edit of the corpus and one decision. Repairing a failure takes more
commands than that, so `CanBeClosed` does not run them: it evaluates, in every
idle state, what the commands would write and check. The passing runs
explore between 10^4 and 3*10^6 distinct states each; the others stop at their
counterexample. Bounds are named constants (`MaxCalls`, `MaxId`,
`calls`, `MaxEdits`, `MaxCrashes`, `MaxAccidents`, `MaxCommands`) and appear only in guards of
actions that start something new.

Deadlock is checked for the lock and the ledger tools, where a state in which
somebody waits for ever would be one; the campaign, the gates and the audits stop when
operators have used up their commands.

### Fairness

Lock: processes are scheduled, bodies end, callers call, and an orphaned
directory does get old; weak fairness suffices for the acquiring steps, since
a bounded number of calls competes for a path. No fairness is assumed for
crashes, faults and timeouts. Campaign: a process that can run runs, and the
provider answers. The last one is an assumption about the world: `runCommand`
(`commentary-campaign.ts:2285`) waits for its child without a time limit.
Ledger tools, gates and audits have no liveness properties of their own; their
only wait is for the lock.

## Proofs

`RepoWriteLockProofs` holds for every set of processes, every set of paths
(natural numbers, standing for their sort order) and every number of calls, with
crashes, faults and timeouts:

- `TypeCorrect`: `TypeOK`, with no further assumption.
- `Invariance`: the inductive invariant `IInv`, and from it `Exclusion`
  (`MutualExclusion`) and `NoWaitCycle` (`WaitsAscend`); `NoLeak`
  (`OnlyFaultsLeak`), from a smaller invariant; `LockImplementsSections` is the refinement of
  `ExclusiveSections`: the first state maps to its first state, `WriteOwner` of
  the last path maps to `Enter`, the end of a body or a crash in it to `Leave`,
  and every other step to a stutter.

All but `TypeCorrect` and `NoLeak` assume `~OrphansAge`: no directory reaches the
stale age. The assumption is needed: `lock_stale_steal` is the counterexample without it.

`MutualExclusion` is not inductive. A body is safe because every directory in
its scope is its own, and that must be known from the `mkdir` on: this is
`PossessedIsOwn`. A release cannot tell whose directory it removes, so it must be
known that a process only holds what is its own, that it holds nothing when it is
idle and the whole scope in its body (`HeldMatchesStep`), and that nobody reaches
the `rmSync` of an old directory (`NothingStale`). That held paths are a prefix
of the sorted scope (`HeldIsPrefix`) is what makes waits ascend.
`OnlyFaultsLeak` is the other direction, from a directory to its creator: one
that a process has made is in a scope that the process is still to release, or
its call failed there. The code does leak (see Findings), so the property says
which directories and no more: the one whose `owner.json` was not written, and
those from the path on whose release threw.

`LedgerToolsProofs` holds for every set of sessions, anchors and identifiers,
every mode of a session and every number of calls:

- `TypeCorrect` and `Invariance` (the inductive invariant), `Sourced`
  (`WritesAreSourced`) and `Survival` (`RecordsSurvive`), with no assumption but
  those on the constants.
- `Uniqueness` (`UniqueIds`) assumes that every session locks (`SessionsLock`)
  and that the first page has distinct numbers; `Judgement`
  (`CandidatesJudgedOnce`) that every session locks and the first page judges
  no pair twice.
- `ReviewsStable` (`ReviewsKeepIds`) is about the sessions that do *not* lock. It
  assumes that where all of them review observations there is a page to review
  (`ReviewsHavePage`). A reviewer may read a page that another one has just
  truncated, and then finds no id to review, or one record too few; the invariant
  `Paged` says that whatever goes on to write has read the whole page and keeps
  its numbers.
- `SessionsImplementLedger`: under `SessionsLock`, `Spec` implements
  `AtomicLedger`. A call takes effect on the atomic ledger in its `Fill`; the
  truncation before it, and every step of staging, validating and locking, is a
  stutter.

`SessionsLock` is needed: `ledger_unlocked_review` is the counterexample.

The inductive invariant has five parts. `CallShape` says which calls a step of
the tools can be in and what they have read by then; `LockIsHeld` that a locking
session between acquiring and releasing is the only one there; `WriteIsFresh`,
the heart of it, that what such a session is about to write was computed from the
page as it is now; `EffectIsKnown` what it is, as a relation between the page
that was read, the arguments and the page to be written. All but the types and
shapes are conditional on `AllLock`.

`CommentaryGatesProofs` holds for every set of processes, drafts and starting
repositories (`StartAssumption`: nothing reviewed yet, superseded wordings kept),
every size of a draft and every number of commands and crashes:

- `TypeCorrect`, `Invariance` (the inductive invariant), `Numbers`
  (`UniqueOrdinals`) and `NoTrace` (`FailuresLeaveNoTrace`), for all gates that
  may fail and all that may die.
- `Decisions` (`DecisionsHaveReceipts`) assumes `DecisionsDie`: processes die in
  reviews, reconsiderations and acceptances only. A remediation writes its
  receipt last, so one that dies leaves a decided block without a receipt.
- `WordingsKept` (`SupersededIsKept`) assumes `RewritingsEnd`: moreover the rewrite
  import does not fail. `gates_import_fault` is the counterexample without it.

None of the properties is inductive, because the files are inconsistent between
two writes. The heart of the invariant is `WorkIsPlanned`: the files are exactly
what the steps that a gate has left (`todo`) say, in terms of the files it has
opened and its preview (`Progress`, one case per step), and the preview changes
bodies and statuses as its gate may (`Planned`). `AllSupported` and `AllKept` are
the two properties, said of the files when no gate is at work and of the files
that a gate has *opened* when one is; every gate that ends, or dies in a decision,
hands them back (`EndIsSupported`, `EndKeeps`). `Sections` says that nobody else
writes meanwhile; it rests on every scope containing the ledger. The proof of a
step has two parts: what the step does to `Progress`, a fact about one operation,
and `WorkStep`, that a step which keeps to `Progress` keeps the rest.

Two properties are about links between receipts. `DraftsOnce`
(`DraftsImportedOnce`) adds to the invariant that what a gate has opened and what
it has previewed have each draft's blocks once or not at all, so that whatever
a failure puts back, or a retry finds, is counted already. `DecisionsMatch`
(`DecisionsMatchSubmission`) needs that wordings are the same at both ends of a
chain of receipts, which looks like an induction over its length. It is not one,
because `Leads` speaks of a *path*: each step of it keeps the wordings
(`Traced`), and a body that differed at the ends would have to differ across one
step. `StartAssumption` says of the submissions that are there at the start what
this adds for the later ones: a submission rewords its own blocks only.

`GateChainProofs` goes on from there, for every set of processes and drafts and any
number of commands:

- `Unblocked` (`NextStepIsNotBlocked`).

A chain is found only if *exactly one* unused link fits at each ledger on the way,
so that every new receipt could break the chains that were there. What has to be
shown is a fact about growing chains, one step at a time, and needs no induction
over their length: a link whose ledger no other link leads from can be put before
a chain (`LeadsFirst`: reviews and acceptances, which are followed backwards),
after it (`LeadsLast`: rewritings, followed forwards), or left aside (`LeadsStill`).
That no other link leads from it is the core of the invariant: no ledger comes back.
A block that a receipt has decided is not undecided in the same words
(`DecidedStays`), and a wording that a rewriting replaced is not written again
(`ReplacedStays`), because each command brings words of its own, which are nowhere
in the files before (`Fresh`, `Coming`). `Followable` says this, together with the
three kinds of chains and the history that they are measured against (`Dated`), of
the files between commands; `Continues` says it of the files that a gate has opened,
with the history as it was then, and `EndIsFollowable` hands it back when the gate
ends, with all of its work or none. The theorem has two hypotheses. The rewrite
import does not fail: it would leave a ledger that no record leads to, as in
`gates_import_fault`. And what commands before the start have left is followable and
worded by them (`StartsAreFollowable`); `OutlinesFollow` shows it of a dialogue
that nobody has worked on. A process that died may leave a receipt whose ledger was
never written, and the property does not speak of what comes after.

`CommentaryCampaignProofs` holds for every set of runs, workers and jobs, every
limit, and any number of edits, crashes and failed writes:

- `TypeCorrect`, `StopObeyed` (`StopIsObeyed`) and `RefusedCanBeRetried`
  (`NeverStuck`), however runs and retries overlap. `Threads` is what the first two
  need: a worker between two awaits is the one that has the thread of its run.
- `AuditsMatch` (`AuditsMatchTheirInput`), however runs overlap, where the jobs
  are audits (`Stage = "audit"`): whoever owns a file bound it to his manifest
  (`BoundToManifest`).
- `SpendingBounded` (`SpendingIsBounded`), `AttemptsRecorded`, `ReportsTrue`,
  `SchemasStay` (`RequestsHaveTheirSchema`), `EvidenceKept` and `BlockOutlives`
  (`BlockOutlivesOlderRequests`) assume `~Overlap`: operators start nothing while a
  run or a retry is going. `campaign_overlap` is the counterexample without it.

`AttemptsAreRecorded` names the writes whose failure the code does not survive
with a record: those of the block, the output and the state, which come before
it (see Findings), and its own. No other failure, crash of another run
or interleaving loses one. `EvidenceIsKept` allows what the code does on purpose:
an attempt whose record was not written takes back its own output and state.

The bound on spending is not inductive: a run spends on a job in `Ask`, and why
that happens once is spread over `Preflight`, `Inspect`, `Take` and every write
up to `Settle`. `WorkerOnJob` says, for each step of `generateJob`, which of the
job's three files exist, whose they are and how many requests were made, also when
an earlier write has failed or the undo is half done;
`JobsApart` that no two workers have one job; `AtWork` that a job taken from the
manifest is pending, with a worker, failed or generated, and that no more were
taken than the limit; `MissingAreClean` that what preflight let through has no
usage record. `ResultHolds` is what makes a report true after its run has ended. A pair
that a run resumes was written by a run that has ended (`Ended`,
`OwnersHaveStarted`), so no undo takes it away any more.
The proof of a step that touches one job is `OnJob`; one that only moves memory is
`MemoryStep`.

`QualityAuditProofs` holds for every set of processes, blocks, wordings and days and
any number of commands and edits; faults and deaths may come between any two
steps. Nothing is assumed but `AuditAssumption` (bounds are natural numbers,
blocks and days are finite):

- `Invariant`: the inductive invariant; `TypeCorrect`.
- `VerdictsAgree` (`OneVerdict`), `RejectionsShown` (`RejectedHaveEvidence`).
- `FailuresUndone` (`FailuresLeaveNoTrace`): the action property.
- `ChainImplemented` (`ImplementsAuditChain`): `Spec` implements `AuditChain`. The
  chain grows when `WriteNew` writes the first manifest and when `Replace` replaces
  one; every other step, the writes of copies, notes and evidence before them
  included, is a stutter.

A command does its work from a plan made when it began, and other commands go on
in between, so the invariant relates files to the plans of commands.
`Shape` says what a plan can be for each kind of command and what it may have made;
`Undone` that what a failed command has made is still on its list; `Rejecting`
that the evidence is there before the ledger says "rejected", and that others'
rejections do not rest on it, since a failure takes it back; `Accepting` that a
command owns nothing the accepted manifest needs until it is done, and that
between `Validate` and the manifest the provenance can be replayed; `Chained` that
it can be replayed always. The subtle part is `Verdicts`: evidence names an
answer, and the artifacts of that answer have to stay what they were although
samples take no lock. A sample that is still writing writes the same file names.
It cannot turn a complete set into another complete one, because no two answers
are the same (`Days1`: samples of different commands have different numbers) and
the three artifacts are compared with one another: `Settled` says that, at each of
its three writes, one of the *other* two artifacts disagrees with what it writes.

`OntologyAuditProofs` holds for every corpus, every set of readings and reviewers,
and any number of commands, edits, failures and deaths:

- `TypeCorrect` and `Earning` (`AuthorityIsEarned`).

"Accepted" stands for a series of checks made at different times, on files that
were written in between. The invariant (`Inv`) says, for each place where a
command can be, what it has established that still holds there (`Importing`,
`Reconciling`, `Publishing`, `Binding`, `Proving`), of the files and of what is
staged; `Publishing` that a package is pending from its demotion to the rename of
its acceptance; `Proving` that at that rename the package *with* the staged
acceptance has earned it. `AcceptedIsEarned` is kept by an import into an accepted
package because an import that changes anything is refused, or is the one that was
there. That every change under adjustments was decided on (`Authorised`) needs
`Untouched` besides: what the adjustments do not decide on is what was
accepted before, in the files and in what is staged. It is proved, and claimed,
only while adjustments are written between commands (`~hasty`). Adjustments that
are rewritten while a binding is staged, which then dies half way, may find in
the files the very state that they call "applied already". The code compares the
rationale and the path of the receipt of an adjustment as well
(`wiki/ontology-audit-finalization.ts:921`), which the model abstracts, so this is
a limit of the model and not a finding.

`OntologyClosureProofs` holds for every corpus, every set of reviewers and any
number of commands, edits, failures and deaths:

- `Closing` (`CanBeClosed`).

`CanBeClosed` evaluates what reconcile, bind, regenerate and close would write one
after the other onto what is there. What commands must not lose for that
(`Closable`) is little: the reconciliation is of the two readings that are there,
by a third person, and routes what they disagree on (`Reconciled`); a unit of the
baseline always has an adjudication, and that of a source cites the readings only
(`Decidable`), in the files and in what is staged; adjustments supersede
adjudications that cite all that was read (`Preserved`). Nothing is said of rows,
manifest and acceptance: whatever a command has left there, bind writes anew.
Reconciling again gives a package that is `Redoable`, and then `BindsAgain`,
`ReconcilesAgain` and `ClosesAgain` follow one command each. The theorem has two
hypotheses. `NoneIsNothing` says that null is none of the records of the files.
`ReadingsAreOfBaseline` says that readers report on records of the package they were
given: the import does not look a record up (`wiki/ontology-audit-review.ts:120`),
and a finding on one that was never there gets no adjudication and keeps the
package from being bound. TLC checks `CanBeClosed` on an instance for which both
hold.

Only model-checked: the liveness properties `EveryCallReturns` and `EveryRunEnds`;
every other property of a passing run is stated by a theorem. Out of the prover's
reach: liveness under fairness, ENABLED, and induction over data. No module uses
RECURSIVE operators: a chain of receipts is a path that exists, not a walk.

## Findings

Each has a violation run and a quotation in PROJECT.json.

1. `file-lock.ts:67`: stale removal can remove a fresh lock.
2. `wiki/tools.ts:932`: the status review of observations is not locked and
   loses concurrent appends.
3. `commentary-campaign.ts:3844`: overlapping runs overwrite paid evidence.
4. `commentary-campaign.ts:4772`: the rewrite import does not roll back when its
   record fails.

Further facts met while modelling, not made into runs: a run that dies between
the state and the usage record leaves a pair that is resumed later with no usage
(`commentary-campaign.ts:3845`), and so does a run that can neither write the
record nor take the pair back (`:3850`); a remediation that dies before its receipt
leaves a rejected block without one; a block review that dies between receipt
and ledger leaves a receipt that refuses the same review for the rest of the
day, and a second one with the same hashes makes the chain of a later acceptance
ambiguous.

Lock:
- `acquire` makes the directory and then writes `owner.json` (`file-lock.ts:78-79`),
  and the path is held only when `acquire` has returned (`:114`). When that write
  fails the call throws with its directory in place, its process lives on, and
  every other writer of the path times out until the stale age has passed. A throw
  in the release loop (`:120`) leaves that path and the ones before it locked, too.
  The test `file-lock.test.ts:115` says that a scope is released as a whole.
  `OnlyFaultsLeak` claims everything but these two.

Campaign:
- The writes of the output (`commentary-campaign.ts:3844`), the state (`:3845`) and
  the provider block (`:3794`) are outside the try block of the usage record. When one
  of them throws, `recordAttempt` is never called, although its own file could be
  written: the request was paid for, the run lives on, and no record of the attempt
  exists. After a failed write of the block not even another file keeps the next run
  from asking again. `docs/commentary-compute-benchmark-2026-08-22.md:17` says that
  telemetry is stored for every attempt. `AttemptsAreRecorded` names these writes.
- A usage record that cannot be written takes the paid output and state with it
  (`:3849-3852`), in a run that nothing overlaps.

Gates:
- A repair after a rejection follows submissions and acceptances only. A block
  review of any other block between a rewriting and its rejection, or after the
  rejection, makes that repair impossible (`wiki/commentary-rewrite-repair.ts:445`,
  `:352`), whatever block it is of; `NextStepIsNotBlocked` claims only that the
  links which are followed do not stand in the way: block reviews of other blocks
  not in that of an acceptance, rewritings before a rejection and acceptances after
  it not in that of a repair.
- A submission can be accepted in one part only: the acceptance of the rest finds
  the first acceptance in its way, which is not a block review.
- A draft that is imported while the outline is replaced comes in under the new
  outline, because the import checks its section and anchors only
  (`commentary-drafts.ts:430`).

Quality audit:
- A refresh is refused as soon as any text of the manifest was regenerated: the
  provenance it validates replays the old text
  (`wiki/commentary-quality-audit-provenance.ts:165`), although the comment at
  `wiki/commentary-quality-audit.ts:935` says that regenerated audit rationales
  do not require a fresh review.
- While every active block is sampled, an edit of one block ends the reuse of the
  accepted outputs of all of them, because the provenance rebuilds the packet
  from the current units; the comment at `commentary-campaign.ts:3041` says
  otherwise.
- An acceptance that dies between its note and its manifest leaves files that
  refuse every retry with the same answer and date; a rejection that dies before
  the ledger, too; a sample that dies between its artifacts leaves a malformed
  set that no command repairs.
- `OneVerdict` holds as long as the artifacts in scratch are kept: an operator
  who removes them can ask again.
- A ledger that returns to earlier bytes makes a supersede collide with the copy
  that was kept of them. An acceptance does not lock the ledger it is taken of;
  the validation just before the manifest is what makes that safe.

Ontology audit:
- Two reviewers who report the same omission of the source agree, and then no
  source adjudication is made (`wiki/ontology-audit-reconciliation.ts:148`), yet
  every finding has to be cited by one (`wiki/ontology-audit.ts:3317`): such a
  package can never be bound. `CanBeClosed` excludes it by name.
- A unit that the corpus has gained since the baseline and has lost again at the
  next binding leaves no row in the union (`wiki/ontology-audit-finalization.ts:680`),
  so final adjustments that decide on it are refused as of an unknown target
  (`wiki/ontology-audit-finalization.ts:1145`). `BindAllowed` has this guard; the
  proof of `Closing` does not go through without it.
- A binding with final adjustments that stops between the record rows and the
  adjudications is refused by every later binding, although the comment at
  `wiki/ontology-audit-finalization.ts:304` calls the renames safe to interrupt.
- A change of the corpus after an acceptance, without adjustments, is bound with a
  generic rationale (`wiki/ontology-audit-finalization.ts:1236`), although
  `docs/ontology-audit-protocol.md` requires the package of final adjustments.
- One reviewer may import both passes; such a package is never reconciled.
- An import into an accepted package keeps it accepted and rebinds manifest and
  acceptance in place; a death between the two is repaired by the same import.

## Plan

Done: the lock, the ledger tools, the campaign, the gates, the quality audit and
the ontology audit, each with its proofs. The order of what is left follows the
weight of what can go wrong.

1. `CommentaryGates`: outline import, batch of drafts.
2. `SegmentPlan` (`segments.ts`, `claims-segments.ts`): the planner as an operator,
   checked against a reference definition (a partition within the bound) over all
   small dialogues; lemmas about its step where they need no induction.
3. `JobManifest`: a cached report that may be stale.
4. `AudioPromotion`: the promotion of rendered takes.

### Not modelled

Validators, derived data, the site, the audio schemas and the command line are
pure functions or rendering, tested by comparison, and have no state between two
steps for a model to explore. They are the larger part of the repository's lines.
Audio rendering and quality control is a Python pipeline that one operator drives
by hand. The planner of segments and the job manifest are in the plan.
