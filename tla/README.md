# A TLA+ verification of the Glasslab research orchestrator

Glasslab runs autonomous research on a small cluster. Its core is the
**research orchestrator** (`src/services/research-orchestrator/app`): a Python
service that drives two agents, Honeydew (principal investigator and reviewer)
and Beaker (engineer), through a fixed workflow with four human gates, submits
the approved experiments to the cluster through **workflow-api**, and survives
restarts by reading everything back from its store. This project models that
core, the run submission of workflow-api below it, and the repository's one
piece of concurrent browser code, the PDF highlight viewer. Paths below without a directory are in the orchestrator's `app/`.

## 1. Inventory

### Components, their state and their operations

| component | state it keeps | operations | module |
|---|---|---|---|
| run state graph (`state_machine.py`, `schemas.py`) | none | `validate_transition` | `RunStates` |
| run store (`storage.py`, `postgres_store.py`) | run rows with an optimistic version, terminal-retry slots, the event log | `create_run`, `replace_run`, `transition_run`, `reset_methodology_revision_budget`, `create_terminal_retry`; `pause_run` and `resume_run` of the engine use them from a copy | `RunStore`, `RunStoreProofs` |
| job execution (`engine.py`, `cluster.py`, `watcher.py`) | job rows, wave deferrals (in memory), the run's state | `_submit_matrix`, `_fill_job_capacity`, `reconcile_run`, `cancel_run`, `sweep_cancelled_run_jobs`, `recover` | `JobExecution`, `JobExecutionProofs` |
| run lifecycle (`engine.py`, `policy.py`) | run state, action records, protocol and report versions, turn, revision and redraft counts | the phase functions, `approve_action`, `reject_action`, `pause_run`, `resume_run`, `cancel_run`, `recover`, `_recover_run` | `RunLifecycle`, `RunLifecycleProofs` |
| agent turn (`_run_agent_turn`, `recover`) | `turn_number`, turn rows, session ids, rotation count and mark | budget check, size rotation, charge, model call, completion, failure, dependency repair, retry, automatic resume, the recovery sweep | `AgentTurn`, `AgentTurnProofs`, `TurnLedger`, `TurnLedgerProofs` |
| evaluation contracts (`contracts.py`, `contract_candidates.py`) | candidate artifacts, catalog | draft, seal, review, promote | outcomes in `RunLifecycle`; versions planned |
| workflow-api run submission (`workflow-api/app/execution_routes.py`, `persistence.py`) | run records in memory and on disk, Kubernetes Jobs | POST under an idempotency key, cancel, ingest of the terminal bundle, results posted by hand, the store's flush | `Submission`, `SubmissionProofs`; the orchestrator's side of it in `JobExecution` |
| PDF highlight viewer (`static/pdfjs/web/highlight.mjs`) | page view, render task, debounce timer, overlay, status line | `start`, `renderPage`, `drawHighlights`, `observeResize` | `PdfHighlight`, `PdfHighlightProofs` |
| runtimes, workspaces, Discord, knowledge, retention, UI, autoresearch, task fabric, vendored PDF.js, schedule worker, job programs, host scripts | | | not modelled, see section 7 |

`PROJECT.json` lists all 24 components with the reason for each one left out.

### How they interact

HTTP handlers and Discord controls call the engine from a thread each; the job
watcher and, at boot, recovery call it from threads of their own. The engine
serialises them with one *advancement lock per run*. Everything that drives a
run holds it; `pause_run` does **not** (it must be able to interrupt a turn).
Each store method is one write transaction; an engine operation is a sequence of
transactions, agent turns and cluster calls, so a pause, the cluster or a crash
may fall between any two. Nothing but `_wave_deferrals` and the lock is lost in
a crash: recovery dispatches on the stored state and the action records. At boot
recovery also ends interrupted turns; that sweep takes no lock (main.py:959).

workflow-api answers each request in a thread of its own. A handler reads and
saves records under the store's lock, one call at a time; between its calls other
handlers, Kubernetes and the runner go on, and each save ends with a flush of
the whole store that is *copied* under the lock and *written* after it.

The viewer runs on the browser's event loop: promises, a resize observer and a
timer interleave between its awaits.

### What is hard, and what correctness means

* *A copy read with `get_run` is stale when written back.* The version check of
  `replace_run` must refuse it; `pause_run` retries nothing and writes a
  `resume_state` from its own read. → `NoLostUpdate`, `LogTellsState`,
  `TerminalForever`, `PausedIsResumable`, `ClockStoppedWhileWaiting`.
* *What agents ask for.* A turn may request any number of actions of any type;
  the policy denies some, and they are recorded all the same, so the newest
  action of a type need not be the one a gate waits for. → `GatesAreDecidable`,
  `JobsNeedBothApprovals`, `CompleteIsEarned`.
* *Check-then-insert*: one active run per investigation, across creation, retry
  and the cancellation of runs paused for too long. → `OneActiveRun`,
  `SupersededChildIsOver`.
* *Lost answers and failing calls at the cluster.* A submission may have been
  accepted although it raised. → `CapacityRespected`, `NeverFalselyFinished`,
  `SavedRunsAreWatched`, `FinishedNeverRunsAgain`.
* *A crash, a pause or a cancel between two writes.* → `AnalysisSeesWholeWave`,
  `JobsNeedBothApprovals`, `ProtocolGateHolds`, `CompleteIsEarned`,
  `GatesAreDecidable`.
* *One logical turn, many attempts.* A retry, an automatic resume or a repair
  takes the charge of the failed attempt back and enters the turn again; a pause,
  a crash or the recovery sweep may fall between any two writes. →
  `BudgetIsALedger`, `CallSpendsOneTurn`, `RunningTurnsAreOwned`,
  `CompletedTurnsAreKept`, `NoPoisonedSession`, `RotationsAreSpaced`.
* *Repeated and racing requests* under one key, with a Job created between two
  saves, and flushes written out of order. → `JobHasRecord`, `OneJobPerKey`,
  `AnswersAgree`, `CancelledIsOff`, `WorkingJobHasReceipt`.
* *Callbacks that overtake each other*: a resize during a render, a cancelled
  render's clean-up after its successor started. → `OneRenderOnCanvas`,
  `SettledViewIsCurrent`, `ViewSettles`.
* *Something must eventually happen*: waves end, cancelled runs are swept,
  committed approvals act, and the mutually recursive phases stop. →
  `WavesEnd`, `CancelledIsSwept`, `Settles`,
  `CommittedApprovalActs`.

`PROJECT.json` lists each hazard at its line with the properties that cover it.

## 2. The modules and the code

**`RunStates`** is the transition table, edge by edge. `PAUSED` may move to any
state but itself, `COMPLETE`, `FAILED` and `TIMED_OUT`; this breadth is what
several findings rest on.

**`RunStore`** (extends `RunStates`). `runs` is the table; a row keeps state,
version, turn number, `resume_state`, whether the runtime clock is open, the
investigation it belongs to and its retry parent. `snap` holds the copy each
thread has read and not yet written back: `get_run` takes one, `replace_run`,
`pause_run` and `resume_run` use it. Each store method is one action
because each is one transaction (`BEGIN IMMEDIATE`, or an advisory lock in
PostgreSQL). `logged` is the state told by a run's newest state-bearing event,
`old` the runs that have passed the stale-paused cutoff, and `commits` a history
variable that counts the turn increments that committed. Columns that no
property tells apart are dropped.

**`JobExecution`** (extends `RunStates`) is one wave of one run. `pc` is where
the holder of the run lock stands, `todo` what its loop has still to visit and
`reply` the last submission's answer; each store write and each cluster call is
a step. `cluster[j]` is what workflow-api keeps under the job's idempotency key,
which is why a second submission of the same job finds the first.
`Submit`, `ReconcileInspect` and `CancelJob` may fail at any call, `Submit` also after
the cluster accepted. `AbandonedCancel` is the store's stale-paused
cancellation, which cancels a run without touching its jobs and leaves them to
the watcher's sweep. Artifact synchronisation is reduced to what it does to control: it may
defer the end of the wave, at most `_WAVE_ARTIFACT_DEFERRAL_CAP` times.

**`RunLifecycle`** (extends `RunStates`) is one run from `create_run` to its
end. `w` is the lock holder: the phase function it is in, the step it is at
(`begin`, `turn`, `after`, `seal`, `move`, ...), the action it works on and who
drives it. The driver matters because the code handles a failure differently
under an approval or a resume (the run is paused) than under creation, a rejection, a
repeated approval, the repair of a matrix or the watcher (it is left where it is;
the history variable `left` records that). A phase's writes are
one step and its transition another, so a pause or a crash may come between.
`actions` are the action records in creation order, with status, Honeydew's
approval, whether the candidate is sealed, and the protocol or report version
they were created for. `RecordAction` stores what a turn of Beaker requests, one
record at a time and as often as its turn asks: the candidate or matrix it was
asked for, and, each counted as a fault, further requests of a type in `Pending`
or `Denied`, the constants that say what the policy lets wait for a decision or
denies. `other` stands for the types no gate waits for, such as
`push_git_branch`: approving one does nothing, rejecting one fails the run
(engine.py:3706). A request of a matrix or a candidate within the same turn is
how a later phase meets two, or a denied one after a valid one. `RepairTurn` is
the extra turn for a missing file or field. Agents' documents become the choice among the outcomes
the code tells apart. `Decide`/`ResumeDecided` are `approve_action` /
`reject_action` and what they start; `RecoverRun`/`Reenter` are `_recover_run`,
entered by resume and by recovery. Jobs are reduced to "the wave is over".

`JobExecution` and `RunLifecycle` overlap in the execution gate and the job
phase on purpose: the first has the jobs in detail for one wave, the second has
the phases around them for any number of waves and takes `WavesEnd` of the first
as the fairness of its `JobsOver`.

**`AgentTurn`** is one run seen from inside its turns. `w` is the holder of the
run lock at a step of `_run_agent_turn`: `begin` (budget), `history`, `rotate`,
`count`, `escalate` (rotation by size, its floor and churn limit), `session`,
`charge`, `row`, `guard`, `model`, `save`, `finish`, and on a failure `fail`,
`repair`, `rollback`, `decide`, `retry`. Entering the function again is a return
to `begin` with the retry arguments kept in `w`. `rows` is the turns table, `session` the
session of each agent, `marked` is `last_rotation_turn`. A write that expects a
version fails if another write came after the writer's read: `w.raced` and
`r.raced` record that one came since the thread's last step, and the writer may have
read before or after it. `r` is the recovery thread; it may die of another run's
failure before it comes to this one (`RecoverDies`), and `r.left` then keeps the
rows nobody ends, while `r.overtaken` says that a call began before the sweep
was done. A failure is one of the four
kinds the code treats differently. A phase is reduced to whose turn it is and
whether it waits for a human; that is what a stale `resume_state` can get wrong.

**`TurnLedger`** is the abstract specification of the turn budget: a turn is
spent while nothing is in progress and the budget allows, and then completed,
refunded or lost. `AgentTurn` implements it (`BudgetIsALedger`) under `Budget <-
MaxTurns`, `spent <- turn_number`, `completed <-` the count of completed turns
saved, and `open <- Open`, which holds from the charge to the save, the refund or
the end of the call. The map hides all rows, sessions, rotations, pauses and
the sweep; what it shows is that none of them charges twice, refunds a
completed turn, or refunds a turn that another call paid for.

**`Submission`** has several handlers of workflow-api. A POST looks the key up
(`PostLookup`), saves an `accepted` record (`PostSave`, which finds a record saved
meanwhile under the same key), flushes, creates the Job (`PostSubmit`), saves the
receipt (`PostRecord`), flushes and answers. A cancel reads the record, looks at
the live Job, deletes it and marks the record; the deletion has propagation
Foreground, so the Job is `deleting` until its pod has ended and may still write
its bundle. An ingest copies the terminal status of `status.json`; results
posted by hand are saved over the record as it was read, with no look at the
Job. `mem` is the store in memory and `disk` what the last
finished flush wrote; `FlushCopy` and `FlushWrite` are the two halves of
`_flush`. `OtherSave` is any save of another route, whose flush carries
a copy of all runs. `Crash` restarts from the disk. `erased` (the record was
removed from disk by an older copy), `detached` (the receipt was lost) and
`lost` (a restart did not find the record) are history variables, one for each
window a property excepts.

**`PdfHighlight`** is the viewer page. An action is one task of the event loop: the
settling of a promise and the code up to the next await. `live` are the renders
PDF.js paints, `cancelled` a cancelled render whose `finally` block has yet to
run (before any other task: it is a microtask), `viewport`, `canvas` and
`overlay` the widths page, bitmap and rectangles are for. `FitViewport`,
`NormalizeBoxes` and `DrawHighlights` compute the scale limits and the two half-unit thresholds.

Operators whose comment begins with *Mutant* are deliberate bugs: the definition
that follows them, changed as a slip in the code would change it. No
specification uses them. Each property is violated when its mutant is put in
place, which shows that it can see such a slip.

## 3. The runs

State counts are distinct states; each run takes at most three and a half
minutes with two workers.

| run | instance | checks | states |
|---|---|---|---|
| `store` | 2 runs, 2 threads, 1 investigation, 1 key, versions up to 4 | `TypeOK`, `OneActiveRun`, `LogTellsState`, `NoLostUpdate`, `PausedIsResumable`, `ClockStoppedWhileWaiting`, `TerminalForever` | 996 k |
| `store_retry` | 3 runs, 1 thread, 2 keys, versions up to 3 | `SupersededChildIsOver` | 304 k |
| `jobs` | 2 jobs, parallelism 1, 1 fault, 1 crash | `TypeOK`, `CapacityRespected`, `NeverFalselyFinished`, `SavedRunsAreWatched`, `AnalysisSeesWholeWave`, `FinishedNeverRunsAgain`, `WavesEnd`, `CancelledIsSwept` | 455 k |
| `lifecycle` | 6 turns, 1 fault, 1 crash; unasked contracts, matrices and others, denied ones too | `TypeOK`, `JobsNeedBothApprovals` | 7.1 M |
| `lifecycle_pause` | 7 turns, 1 fault, 1 pause or cancel; denied matrices | `GatesAreDecidable`, `ProtocolGateHolds`, `CompleteIsEarned` | 15.6 M |
| `lifecycle_live` | 6 turns, redraft cap 2, 1 fault, 1 crash | `Settles`, `CommittedApprovalActs` | 532 k |
| `turns` | 2 agents, 2 turns, 1 retry, 1 automatic resume, 2 rotations, 2 faults, 1 crash, 1 pause or cancel | `TypeOK`, `CallSpendsOneTurn`, `NoPoisonedSession`, `RotationsAreSpaced`, `RunningTurnsAreOwned`, `CompletedTurnsAreKept`, `BudgetIsALedger` | 6.3 M |
| `submission` | 2 handlers, 1 key, 2 runs, 2 faults, 1 crash | `TypeOK`, `JobHasRecord`, `OneJobPerKey`, `CancelledIsOff`, `WorkingJobHasReceipt`, `AnswersAgree` | SUBM |
| `pdf_view` | stage widths 200, 230, 500, 900; a 600-wide page; three box sizes; 4 resizes | `TypeOK`, `OneRenderOnCanvas`, `SettledViewIsCurrent`, `ViewSettles` | 34 k |
| `lifecycle_stale_approval`, `submission_stale_flush`, `store_review_time` | see section 6 | one property each, violated | |

Why the bounds are enough to meet the interesting cases:

* `store`: two threads and two runs are what a stale copy, a double creation and
  a retry need; four versions let a row be created, read, written by another and
  then written from the old copy. Run and thread ids are interchangeable
  (symmetry); no liveness is checked there. Three runs are a
  parent and two children.
* `jobs`: with a parallelism of one, two jobs already compete for capacity. The
  one fault is a lost answer, a failing inspection or a failing cancellation, and
  it may fall before or after the crash; the safety properties are proved for any
  number of faults, crashes and jobs.
* `lifecycle`: six turns take a run through protocol, plan, implementation,
  review, a wave of jobs, analysis and verification, or through a contract, or
  a second matrix, so the budget also runs out at every earlier point. Revision
  and redraft caps are 0 or 1 so that they are reached. A single fault is a
  failure, a repair turn or an unasked request; requests of a protocol or a report are
  not in the instance, since no check of it tells them from `other`. Seven turns,
  the fewest to `COMPLETE`, are in `lifecycle_pause`, where a denied matrix is the
  request that makes a gate undecidable. The theorems hold for all request types
  and all bounds together.
* `lifecycle_live`: six turns reach every loop but the accepted report, and a
  redraft cap of two is reached after one redraft. Exceeding it *raises*
  (engine.py:4105), and an exception under `reject_action`, recovery's death
  or the watcher leaves the run undriven (section 6): the properties except just
  that (`left`), until someone takes the run up again.
* `turns`: a failed attempt and its failing retry are two faults; a second turn is
  needed to charge after a refund, to use a session again and to
  space two rotations; one crash reaches every step of the sweep. Agents are
  interchangeable (symmetry).
* `submission`: two requests race under one key, or one cancels, ingests, posts
  results or holds a stale flush while the other creates the Job; a second run id
  lets a repeated POST go wrong; two faults lose an answer and a flush.
  Handlers are interchangeable (symmetry). Records of different keys meet only in
  the flush, which `OtherSave` has. Three handlers, as in `submission_stale_flush`,
  are what the theorems cover.
* `pdf_view`: 200 and 230 both fit to the minimum width (a resize without a new
  viewport), 500 is within the limits of the scale and 900 gives a scale
  above one; the three boxes are below, at and above the two thresholds. Four resizes
  change the width before the load ends, during a render, during the timer, and back.

`CHECK_DEADLOCK FALSE` is set because runs end: a terminal run with finished
jobs has nothing left to do, and the counters of pauses, faults and crashes are
bounded.

## 4. Fairness

`JobExecution.FairSpec`: weak fairness of the lock holder's next step, of the
watcher's poll and its sweep (a loop that runs as long as the service), and of
the end of a job on the cluster (workflow-api bounds each by a wall-clock
limit); strong fairness of recovery and of a waiting cancel, which compete for
the lock with a watcher that releases it between polls. Humans, failing calls
and crashes are not fair. With endless faults no wave would end, so their number
is bounded: a call that failed is tried again by the next poll, which is what
`WavesEnd` and `CancelledIsSwept` rest on.

`RunLifecycle.FairSpec`: weak fairness of the lock holder (a turn ends, the
runtime has a timeout); strong fairness of recovery and of the watcher's
reconciliation, which compete for the lock with humans who may repeat a decision
for ever, and of `JobsOver`, which stands for `WavesEnd`. Humans, pauses,
failures and crashes are not fair.

`PdfHighlight.Spec`: weak fairness of each task that is ready (the event loop), and
of the settling of a request or a render, which the browser and PDF.js resolve
or refuse. The stage need not change its width. The stage is displayed: its
width is positive.

`AgentTurn` and `Submission` are checked for safety only and state no fairness.

## 5. The proofs

TLAPS proves every safety property the passing runs check, the six type
invariants, 24 other invariants, four action properties and one refinement, for *every* value of the constants:
the runs above show them on a small instance, the theorems on all. Each
component has a proof module that extends it; `NumberSets` holds the facts about
`Min` and `Max` of finite sets of numbers that they share. No proof assumes more
than the `ASSUME`s of the modules: bounds are natural numbers, and 0 is among
them wherever the code's settings allow it (0 disables the churn limit and the
floor between rotations, config.py:460-470; only the number of turns, jobs,
parallel jobs and run ids is positive), `None` is no id and no record, the page has a width.
Each invariant was checked by TLC as an invariant of the component's run before it was
proved.

A property is seldom inductive as it stands; below, what `IInv` adds to it
carries the argument.

### Run store: `RunStoreProofs`

| theorem | states |
|---|---|
| `TypeCorrect` | `Spec => []TypeOK` |
| `AtMostOneActiveRun` | `Spec => []OneActiveRun` |
| `CopiesNeverOverwrite` | `Spec => []NoLostUpdate` |
| `LogIsTrue` | `Spec => []LogTellsState` |
| `PausedRunsResume` | `Spec => []PausedIsResumable` |
| `WaitingIsFree` | `Spec => []ClockStoppedWhileWaiting` |
| `OneLiveRetry` | `Spec => []SupersededChildIsOver` |
| `TerminalStays` | `Spec => TerminalForever` |

What a write does depends on the copy a thread holds, so `IInv` adds three parts about copies:
`VersionedWhenPresent` (a stored row has a positive version), `FreshOrStale` (a
copy is of an older version than the row, or *is* the row) and `CopiesResumable`
(a copy of a paused run names a phase). `FreshOrStale` carries the argument:
every write increments the version, so after another's write a copy is strictly
older and `replace_run` refuses it; a copy that is accepted was the row, so
writing it back with one field changed keeps whatever held of the row.
`WriteRowPreserves` shows that writing any row that *continues*
the stored one keeps `IInv`; transitions and replacements reduce to it.
`InsertPreserves` does the same for creations, where one active run follows from
the emptiness check in the same transaction.

### Job execution: `JobExecutionProofs`

| theorem | states |
|---|---|
| `TypeCorrect` | `Spec => []TypeOK` |
| `CapacityHolds` | `Spec => []CapacityRespected` |
| `FinishedIsTrue` | `Spec => []NeverFalselyFinished` |
| `SavedRunsStayListed` | `Spec => []SavedRunsAreWatched` |
| `AnalysisWaitsForTheWave` | `Spec => []AnalysisSeesWholeWave` |
| `FinishedStaysFinished` | `Spec => FinishedNeverRunsAgain` |

`IInv` adds `Rows` (what a row says of the cluster: a queued row without an
external id is unknown there, a finished one ended that way), `Loops` (the jobs a
loop has read and not visited are as it read them, since nobody else writes rows
under the run lock), `Answers` (an answer about to be saved is still true, because
a finished job stays finished on the cluster), `Wave` (all rows exist before the
run is, was paused, or is being paused in the job phase; all are terminal before
the same of the analysis) and `Capacity`. The last counts the jobs *claimed*: the
active rows together with those the submission loop has picked and not reached. A
submission repeated after a lost answer is for a row that is already counted.

### Run lifecycle: `RunLifecycleProofs`

| theorem | states |
|---|---|
| `TypeCorrect` | `Spec => []TypeOK` |
| `JobsAreApproved` | `Spec => []JobsNeedBothApprovals` |
| `NothingPassesTheProtocolGate` | `Spec => []ProtocolGateHolds` |
| `CompletionIsEarned` | `Spec => []CompleteIsEarned` |
| `GatesStayDecidable` | `Spec => []GatesAreDecidable` |

A gate is not guarded in one place: a run gets behind it by a decision, by
recovery, or by the resume of a pause that had read an earlier state. `Passed`
therefore speaks of every way a run can be *on its way* to a state (`Reach`: it is
there, was paused there, is being paused there, or its worker asks for that
transition) and to a phase (`Doing`), and says that the decisions are on record.
`Decisions` and the lemma `HistoryKept` say that no step takes back a decision a
gate rests on: only matrices are ever moved out of `APPROVED`, and none with jobs;
a denied action is never approved, and a denied protocol comes after an approved one, because
only Beaker's turns, behind the protocol gate, record requests. `Asked` says that the
gate a run is at was reached with an action that was not denied and, for a contract or a
matrix, that Honeydew approved: so the action that decides the gate is still there, or was rejected or
failed, which are the two exceptions of `GatesAreDecidable`. `Acting`
says what the worker may assume of the action it holds at each step (it was
decided, is still pending, has the type its phase is for), and `Budget` that
each version of the protocol and of the report took a turn, which keeps versions within their type. The proof treats the row,
the turns, the actions and the worker separately (`RecordMoves`, `TurnsMove`,
`HistoryKept`); for the worker, seven lemmas (`MovesOn`, `Begins`, `BeginsOn`,
`Halts`, `Turns`, `Enters`, `Waits`) cover all it can do next, and `LedShared` to
`LedOutside` have one step per action that picks among them.

### Agent turn: `AgentTurnProofs`, `TurnLedgerProofs`

| theorem | states |
|---|---|
| `TypeCorrect` | `Spec => []TypeOK` |
| `OneTurnPerCall` | `Spec => []CallSpendsOneTurn` |
| `RotationsKeepTheirDistance` | `Spec => RotationsAreSpaced` |
| `TurnsAreALedger` | `Spec => BudgetIsALedger` |
| `NoTurnIsOrphaned` | `Spec => []RunningTurnsAreOwned` |
| `CompletedStaysCompleted` | `Spec => CompletedTurnsAreKept` |
| `ModelSessionIsFresh` | `Spec => []NoPoisonedSession` |
| `LedgerIsSound` | `LedgerSpec => [](LedgerTypeOK /\ Covered)` |

Three layers, each proved on top of the last. `Core` ties the turn count to the
step of the call (`TurnCount`: nothing charged, one turn charged, or an exception from
either side) and says that completed turns are paid for; from it follow the
types, the spacing (a rotation is only counted by a call that found the floor
kept, and nothing takes a turn number back before it is counted) and the refinement: `Init` maps to `LedgerInit`, and
`WorkerBooks` and `OthersBook` show every step to be a step of the ledger or a
stutter. `LedgerIsSound` is about the abstract ledger; together they say that
`_run_agent_turn` never exceeds its budget and is never charged twice. `Tables`
names the owner of every running row (`Owned`: the worker, or the sweep that has
listed it or has still to list, or nobody, for rows a dead recovery thread left)
and says that a sweep no call has overtaken finds the newest row at most.
`Fresh` says where a session with a failed turn may still be attached, and who
is bound to clear it first: the failing call's rotation, the rotation of
`resume_run`, or the sweep's. The windows the properties except (`exposed`) are
those of section 6.

### Submission: `SubmissionProofs`

| theorem | states |
|---|---|
| `TypeCorrect` | `Spec => []TypeOK` |
| `JobsAreRecordedFirst` | `Spec => []JobHasRecord` |
| `IdempotentSubmission` | `Spec => []OneJobPerKey` |
| `CancelIsEffective` | `Spec => []CancelledIsOff` |
| `WorkingJobsAreFound` | `Spec => []WorkingJobHasReceipt` |
| `OneAnswerPerKey` | `Spec => []AnswersAgree` |

For any number of handlers, keys and runs. `OneRunPerKey` holds of memory because
`save_run` looks the key up under the lock; `Within` says that whatever is on
disk, or in a copy on its way there, binds the same keys as memory, which is what makes a
restart from an old flush harmless to the binding; `OneCreator` says that only the
handler whose save made the record creates its Job, after its own flush. `PostOK`, `WriteOK` and `CancelOK`
say what a handler may assume between two calls of the store.

### Viewer: `PdfHighlightProofs`

| theorem | states |
|---|---|
| `TypeCorrect` | `Spec => []TypeOK` |
| `CanvasHasOnePainter` | `Spec => []OneRenderOnCanvas` |
| `RestingViewIsCurrent` | `Spec => []SettledViewIsCurrent` |

For every page width, set of stage widths, boxes and number of resizes. `Painting` says that an
unfinished render is the newest and the one that can be cancelled, and that a
cancelled one has a successor; `Noted` which of the three widths (of the stage, noted
by the observer, of the viewport) may differ while the timer is off;
`RendersCounted` pays each render but the first with a change of the width.

### Only model-checked

All liveness: `WavesEnd`, `CancelledIsSwept`, `Settles`, `CommittedApprovalActs` and
`ViewSettles`. Liveness under fairness and `ENABLED` are out of the reach of the
prover used here, as is induction over recursively defined data (the project
has no recursive operator). The three properties of section 6 that the code
violates are refuted by TLC and have no theorem.

## 6. Where the code and its own documents disagree

Three runs state what a comment or a document says and TLC finds a behaviour of
the code against it. The sentences are quoted in `PROJECT.json`.

1. `lifecycle_stale_approval`: approving the first wave's matrix *again* while a
   second wave waits at the execution gate passes that gate (engine.py:3597),
   because the resumption compares the state and not the action.
2. `submission_stale_flush`: a flush of workflow-api that copied the store before a run was
   saved, and is written after the run's own flush, removes the record from disk
   while its Job works (persistence.py:1317, and line 1003 in the JSON store). After a restart the
   Job has no record, and a repeated POST creates a second one. `JobHasRecord`
   and `OneJobPerKey` show that this is the only way.
3. `store_review_time`: docs/research-orchestrator.md:734 counts a human's review
   time as active runtime unless the run is paused; the store closes the
   interval on entering a gate (storage.py:869), and a test expects it to
   (tests/test_workflow.py:76). `ClockStoppedWhileWaiting` states what the code does.

Seen while modelling, and not kept as runs. In the lifecycle:

* *Cancel leak.* `cancel_run` (engine.py:7420) marks a row without
  `external_run_id` CANCELLED without calling the cluster, also when the answer
  to its submission was lost; the accepted run goes on and no sweep visits the
  row. docs/research-orchestrator.md:687 says cancellation is requested for every
  nonterminal job.
* *Execution gate.* A pause or crash after a matrix is marked `EXECUTION_FAILED`
  (engine.py:3503) leaves, once resumed, an execution gate whose only action
  neither approval nor rejection accepts: one exception in `GatesAreDecidable`.
* *Denied actions.* A request the policy denies is recorded like the others. If it
  is newer than a rejected action of its type, and the process died or a pause
  landed before the rejection acted, repeating the rejection is taken for
  "already consumed" (comment at engine.py:3630) and the gate is stuck: the other exception.
  For the same reason recovery does not resume an approved matrix that has a newer denied one.
* *Early acceptance.* An `accept_final_report` that Beaker requests is offered to
  a human like any other; once approved, recovery at the report gate completes
  the run with the report undecided (engine.py:7810). `CompleteIsEarned` asks for an
  accepted report, not for which one.
* *Redraft cap.* The comment at engine.py:4099 says the cap fails the run; the
  exception it raises (4105) pauses the run or leaves it undriven, as the driver has it.
* *Contract review.* A crash between Honeydew's stored rejection of a contract and
  the transition re-enters the review of the rejected action (engine.py:7715),
  which raises and pauses again at each resume.
* *Un-pause.* A pause after a turn's last check is undone by the phase's own
  transition, since the table lets `PAUSED` move to any phase (engine.py:2410, 3400).
* *Undriven runs.* A turn that fails under creation, a rejection, a repeated
  approval, the repair of a matrix (engine.py:3562, in an exception handler) or
  the watcher leaves the run in its phase with nobody driving it;
  the comment at engine.py:644 calls it resumable, but `resume_run` accepts paused
  runs only. The operator has to pause it first. A crash in `CREATED` has no
  branch in `_recover_run` either; such a run can only be cancelled.
* `resume_state` may be a phase the run had already left when the pause was
  written, while docs/research-orchestrator.md:690 says a pause records the exact state.
  `ProtocolGateHolds` and `CompleteIsEarned` show that this rewinds a run but
  never lets it skip a decision.
* A pause between the loop's check and the cluster call submits one job for a
  paused run, against the comment at engine.py:6283.
* A crash or stale pause between creating `approve_protocol` and moving to its
  gate leaves two pending protocol actions; approving the older starts the newer protocol
  (engine.py:2489, 3400, 3580).
* `_beaker_finalize`'s fallback asks for `BEAKER_FINALIZING ->
  BEAKER_IMPLEMENTING` (engine.py:4923), which the table does not have, so it always raises.
* Recovery at the contract gate promotes the newest *approved* candidate
  (engine.py:7728), which may be older than the pending one.

In the agent turn:

* The docstring of `_recover_runtime_dependency_failure` (engine.py:1945)
  says one repair, one retry and no loop; a retry or an automatic resume after it starts with a fresh
  flag, so a call may repair again (with three failures in `AgentTurn`).
* The recovery sweep is unlocked. A call that overtakes it can have its live turn
  failed, or its completed turn overwritten from the copy the sweep read
  (storage.py:970); `CompletedTurnsAreKept` and `NoPoisonedSession` except it.
* The rotation in `recover` (engine.py:7553) and what comes before the loop
  (7513-7523) are outside its try: a version conflict ends the recovery of all
  remaining runs, whose interrupted turns stay "running" until the next restart
  (main.py:959 does not start it again; `RecoverDies`). A run that was cancelled or timed out keeps its
  "running" row.
* A failed turn's session is used again after a crash between saving the failed
  turn and rotating, or through a stale `resume_state`.
* A pause between the turn's entry and its charge costs a turn. A dependency
  failure on a run that was paused meanwhile is not refunded, though the docstring says it is in every path.
* `_should_retry_turn` (engine.py:1827) counts failures over the whole run, so a
  later turn may get no retry; docs/glasslab-v2/runbooks/drive-a-real-run.md:219 describes it per turn.

* The comment at config.py:461 measures the floor between rotations in completed
  turns; the code measures it in turn numbers, which failed turns raise too.

In workflow-api:

* A run saved `accepted` whose Job creation failed is never submitted: a repeated
  POST finds it, its state is reported as queued, and cancel is refused.
* `PostRecord`, ingest and the results route save over whatever another handler
  saved since they read. The results route (execution_routes.py:539-578) does so
  while the Job may be at work, which loses a receipt stored meanwhile: one of
  the exceptions in `WorkingJobHasReceipt`.
* A Job may still finish between cancel's look at it and its delete, and its run
  is then marked cancelled, which the comment at execution_routes.py:733 sets out
  to exclude; a deleted Job's pod may go on to write its bundle.
* A Job that failed without `status.json` and has expired leaves its run reading
  `accepted`. The orchestrator has no entry for the live status `queued`.

In the viewer:

* After a failed re-render the old rectangles stay over a blank canvas, and an
  error status is not cleared by a later success.
* A render that read a width which goes back before the observer is called is
  not repeated (the exception `bounced`, set only when the page was fitted to the other width).
* The status counts boxes that are too small to be drawn.

## 7. What is not modelled, and why

* *The start of a terminal retry child*, which holds its parent's lock only
  (engine.py:2742); the store's part of it is in `RunStore`.
* *Requests that move nothing*: actions the policy approves by itself, and denied
  ones of a type no gate waits for. All others are in `RecordAction`.
* *Contract versions and the catalog's files*: sealing and promotion are steps
  with their outcomes.
* *Artifact synchronisation*, *matrix expansion*, *preflight*, *knowledge and
  evidence*: large documents and files of which only the outcomes reach control.
* *Runtimes, workspaces, the job programs*: processes, HTTP, git.
* *Discord and UI*: projections of the event log, and callers of the modelled
  operations.
* *workflow-api's manifest validation, comparison, schedules*: they change no run
  record that a Job depends on; their saves are `OtherSave`.
* *Task fabric*: `claims.py` and its neighbours define immutable leases and envelopes
  with their validation; no service in the repository holds, renews or expires
  them, so there is no protocol to model.
* *Vendored PDF.js* (`static/pdfjs`, all but `highlight.mjs`): Mozilla's distribution,
  copied unchanged; only its promises, as `highlight.mjs` uses them. By lines it
  is nearly all of the repository's JavaScript, and none of its own logic.
* *autoresearch, schedule worker, host scripts*: separate programs.

## 8. Plan

In order of what they would say about the system:

1. **An abstract gate specification** (a run may do what a human decided, and
   nothing else) that `RunLifecycle` refines under a mapping of its states, with
   the refinement proved from `Passed`.
2. **An abstract idempotent submission** (a key is bound once, its Job created
   at most once) that `Submission` refines while no record is erased, and that `JobExecution`
   may rely on for its `cluster`.
3. **Contract versions** with recovery at the contract gate, **storage retention**
   and the **Discord circuit breaker**, one small module each.
