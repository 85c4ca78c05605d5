---------------------------- MODULE JobExecution ----------------------------
(***************************************************************************)
(* Execution of one approved experiment matrix on the cluster: the jobs of *)
(* one submission wave of one run.  _submit_matrix, reconcile_run,         *)
(* cancel_run and sweep_cancelled_run_jobs run under the run's advancement *)
(* lock, so at most one of them is under way; its progress is `pc`.  Their *)
(* store writes and cluster calls are separate steps, between which        *)
(* pause_run (which takes no lock), the cluster and a crash may act.       *)
(***************************************************************************)
EXTENDS Integers, FiniteSetsExt, RunStates

CONSTANTS
    NumJobs,       \* jobs the matrix expands to, numbered in list_jobs order
    MaxParallel,   \* run.maximum_parallel_jobs
    DeferralCap,   \* _WAVE_ARTIFACT_DEFERRAL_CAP
    MaxFaults,     \* bound on failed cluster calls and failed recoveries
    MaxCrashes     \* bound on orchestrator restarts

ASSUME JobAssumption ==
    /\ NumJobs \in Nat \ {0}
    /\ MaxParallel \in Nat \ {0}
    /\ DeferralCap \in Nat
    /\ MaxFaults \in Nat
    /\ MaxCrashes \in Nat

VARIABLES
    state,        \* the run's state
    resume_state, \* what resume_run returns it to, or "NONE"
    approved,     \* the latest matrix action is APPROVED
    job,          \* the jobs table: job -> [status, ext]
    cluster,      \* the run workflow-api keeps under the job's idempotency key
    pc,           \* where the holder of the run lock is, or "idle"
    todo,         \* the jobs its current loop has still to visit
    reply,        \* the answer to its last cluster.submit
    errors,       \* cancel_run's cancellation_errors is not empty
    pausing,      \* the state a pause_run in flight has read, or "NONE"
    cancelling,   \* a cancel_run is waiting for the lock
    recovering,   \* recover() has still to visit the run
    deferrals,    \* _wave_deferrals of the run (in memory)
    faults,       \* cluster calls and recoveries that failed so far
    crashes       \* restarts so far

run == <<state, resume_state, approved>>
worker == <<pc, todo, reply, errors, deferrals>>
callers == <<pausing, cancelling, recovering>>
bounds == <<faults, crashes>>
vars == <<run, job, cluster, worker, callers, bounds>>

Jobs == 1..NumJobs

JobStates ==
    {"AWAITING_EXECUTION_APPROVAL", "JOB_QUEUED", "JOB_RUNNING",
     "BEAKER_ANALYZING", "PAUSED", "CANCELLED", "FAILED"}

JobStatus ==
    {"QUEUED", "SUBMITTING", "RUNNING", "SUCCEEDED", "FAILED", "CANCELLED",
     "UNKNOWN"}

JOB_TERMINAL_STATUSES == {"SUCCEEDED", "FAILED", "CANCELLED"}

\* What workflow-api knows of a key; "NONE" until it accepts a submission.
ClusterStatus == {"NONE", "QUEUED", "RUNNING", "SUCCEEDED", "FAILED", "CANCELLED"}

OnCluster(j) == cluster[j] \in {"QUEUED", "RUNNING"}

TypeOK ==
    /\ state \in JobStates
    /\ resume_state \in (JobStates \ (TERMINAL_STATES \cup {"PAUSED"})) \cup {"NONE"}
    /\ approved \in BOOLEAN
    /\ job \in [Jobs -> [status : JobStatus \cup {"ABSENT"}, ext : BOOLEAN]]
    /\ cluster \in [Jobs -> ClusterStatus]
    /\ pc \in {"idle", "recover", "create", "advance", "fill",
               "fill_loop", "fill_submit", "fill_save", "fill_end",
               "to_running", "to_analyzing", "reconcile", "rec_loop",
               "rec_submit", "rec_save", "rec_inspect", "cancel", "cancel_end",
               "sweep"}
    /\ todo \in SUBSET Jobs
    /\ reply \in ClusterStatus \cup {"ERROR"}
    /\ errors \in BOOLEAN
    /\ pausing \in JobStates \cup {"NONE"}
    /\ cancelling \in BOOLEAN
    /\ recovering \in BOOLEAN
    /\ deferrals \in 0..DeferralCap
    /\ faults \in 0..MaxFaults
    /\ crashes \in 0..MaxCrashes

Init ==
    /\ state = "AWAITING_EXECUTION_APPROVAL"
    /\ resume_state = "NONE"
    /\ approved = FALSE
    /\ job = [j \in Jobs |-> [status |-> "ABSENT", ext |-> FALSE]]
    /\ cluster = [j \in Jobs |-> "NONE"]
    /\ pc = "idle"
    /\ todo = {}
    /\ reply = "NONE"
    /\ errors = FALSE
    /\ pausing = "NONE"
    /\ cancelling = FALSE
    /\ recovering = FALSE
    /\ deferrals = 0
    /\ faults = 0
    /\ crashes = 0

----------------------------------------------------------------------------
(* Helpers.                                                                *)

\* Mutant: UNKNOWN rows are not listed.
UnfinishedButUnknown ==
    {j \in Jobs : job[j].status \in {"QUEUED", "SUBMITTING", "RUNNING"}}

\* list_jobs with the four statuses the engine treats as unfinished.
Unfinished ==
    {j \in Jobs : job[j].status \notin JOB_TERMINAL_STATUSES \cup {"ABSENT"}}

\* Unfinished, and never handed to the cluster.
Waiting == {j \in Unfinished : job[j].status = "QUEUED" /\ ~job[j].ext}

\* Mutant: only jobs with a known external id use capacity.
ActiveKnown == {j \in Unfinished : job[j].ext}

Active == Unfinished \ Waiting

\* The first n jobs of a set, in list_jobs order.
First(n, S) == {j \in S : Cardinality({i \in S : i <= j}) <= n}

Fault == faults < MaxFaults /\ faults' = faults + 1

\* The run moves to target if the state graph allows it, and the operation
\* goes on at next; otherwise transition_run raises and the operation ends.
Advance(target, next) ==
    /\ IF ValidTransition(state, target)
       THEN state' = target /\ pc' = next
       ELSE state' = state /\ pc' = "idle"
    /\ UNCHANGED <<resume_state, approved>>

Goto(next) == pc' = next /\ UNCHANGED <<todo, reply, errors, deferrals>>

\* update_job: a CANCELLED row is never written over with another status.
update_job(j, status, ext) ==
    /\ job[j].status = "CANCELLED" => status = "CANCELLED"
    /\ job' = [job EXCEPT ![j] = [status |-> status, ext |-> ext]]

----------------------------------------------------------------------------
(* approve_action and _submit_matrix.                                      *)

\* First approval, or the re-click that retries an interrupted one.
approve_action ==
    /\ pc = "idle"
    /\ state = "AWAITING_EXECUTION_APPROVAL"
    /\ approved' = TRUE
    /\ pc' = "create"
    /\ todo' = Jobs
    /\ UNCHANGED <<state, resume_state, job, cluster, reply, errors, deferrals,
                   callers, bounds>>

\* Mutant: an existing row is replaced.
create_job_replacing ==
    /\ pc = "create"
    /\ todo # {}
    /\ job' = [job EXCEPT ![Min(todo)] = [status |-> "QUEUED", ext |-> FALSE]]
    /\ todo' = todo \ {Min(todo)}
    /\ UNCHANGED <<run, cluster, pc, reply, errors, deferrals, callers, bounds>>

\* create_job_if_absent for the next job of the expansion.
create_job_if_absent ==
    /\ pc = "create"
    /\ todo # {}
    /\ LET j == Min(todo) IN
       /\ job' = IF job[j].status = "ABSENT"
                 THEN [job EXCEPT ![j].status = "QUEUED"]
                 ELSE job
       /\ todo' = todo \ {j}
    /\ UNCHANGED <<run, cluster, pc, reply, errors, deferrals, callers, bounds>>

\* A pause may have landed during the loop: look again before advancing.
SubmitRecheck ==
    /\ pc = "create" /\ todo = {}
    /\ Goto(IF state = "AWAITING_EXECUTION_APPROVAL" THEN "advance" ELSE "idle")
    /\ UNCHANGED <<run, job, cluster, callers, bounds>>

SubmitAdvance ==
    /\ pc = "advance"
    /\ Advance("JOB_QUEUED", "fill")
    /\ UNCHANGED <<job, cluster, todo, reply, errors, deferrals, callers, bounds>>

----------------------------------------------------------------------------
(* _fill_job_capacity.                                                     *)

FillRead ==
    /\ pc = "fill"
    /\ todo' = First(MaxParallel - Cardinality(Active), Waiting)
    /\ pc' = "fill_loop"
    /\ UNCHANGED <<run, job, cluster, reply, errors, deferrals, callers, bounds>>

\* The pause check and the SUBMITTING write; a pause between the two has the
\* effect of one just after both.
FillNext ==
    /\ pc = "fill_loop"
    /\ IF todo = {} \/ state = "PAUSED"
       THEN pc' = "fill_end" /\ todo' = {} /\ job' = job
       ELSE /\ update_job(Min(todo), "SUBMITTING", FALSE)
            /\ pc' = "fill_submit"
            /\ todo' = todo
    /\ UNCHANGED <<run, cluster, reply, errors, deferrals, callers, bounds>>

\* cluster.submit under the job's idempotency key.  The call is accepted
\* (again, if the key is known) and answered, accepted with the answer lost,
\* or refused.
Submit(j) ==
    \/ /\ cluster' = [cluster EXCEPT ![j] = IF @ = "NONE" THEN "QUEUED" ELSE @]
       /\ \/ reply' \in {cluster'[j], "QUEUED"} /\ UNCHANGED faults
          \/ reply' = "ERROR" /\ Fault
    \/ UNCHANGED cluster /\ reply' = "ERROR" /\ Fault

FillSubmit ==
    /\ pc = "fill_submit"
    /\ Submit(Min(todo))
    /\ pc' = "fill_save"
    /\ UNCHANGED <<run, job, todo, errors, deferrals, callers, crashes>>

\* Mutant: a submission error is recorded as FAILED.
FillSaveFailed ==
    /\ pc = "fill_save"
    /\ IF reply = "ERROR"
       THEN update_job(Min(todo), "FAILED", FALSE)
       ELSE update_job(Min(todo), "RUNNING", TRUE)
    /\ todo' = todo \ {Min(todo)}
    /\ pc' = "fill_loop"
    /\ reply' = "NONE"
    /\ UNCHANGED <<run, cluster, errors, deferrals, callers, bounds>>

\* The write that persists the external id, or UNKNOWN after an error.
FillSave ==
    /\ pc = "fill_save"
    /\ IF reply = "ERROR"
       THEN update_job(Min(todo), "UNKNOWN", FALSE)
       ELSE update_job(Min(todo),
                       IF reply \in {"QUEUED", "RUNNING"} THEN reply ELSE "RUNNING",
                       TRUE)
    /\ todo' = todo \ {Min(todo)}
    /\ pc' = "fill_loop"
    /\ reply' = "NONE"
    /\ UNCHANGED <<run, cluster, errors, deferrals, callers, bounds>>

\* FillEnd with the deferral test and the counting of deferrals given.
FillEndWith(defers, counted) ==
    /\ pc = "fill_end"
    /\ IF Unfinished # {}
       THEN /\ pc' = IF state = "JOB_QUEUED" THEN "to_running" ELSE "idle"
            /\ deferrals' = deferrals
       ELSE IF state \notin {"JOB_QUEUED", "JOB_RUNNING"}
       THEN pc' = "idle" /\ deferrals' = deferrals
       ELSE \E newly_recorded \in BOOLEAN :
              /\ newly_recorded => \E j \in Jobs : job[j].ext
              /\ IF newly_recorded /\ defers
                 THEN pc' = "idle" /\ deferrals' = counted
                 ELSE pc' = "to_analyzing" /\ deferrals' = 0
    /\ UNCHANGED <<run, job, cluster, todo, reply, errors, callers, bounds>>

\* Mutant: one deferral more than the cap allows.
FillEndOneMore == FillEndWith(deferrals <= DeferralCap, deferrals + 1)

\* Mutant: deferrals are not counted.
FillEndUncounted == FillEndWith(TRUE, deferrals)

\* Decide whether the run moves on.  When the wave is over, a newly found
\* artifact defers analysis to the next poll, DeferralCap times at most.
FillEnd == FillEndWith(deferrals < DeferralCap, deferrals + 1)

FillToRunning ==
    /\ pc = "to_running"
    /\ Advance("JOB_RUNNING", "idle")
    /\ UNCHANGED <<job, cluster, todo, reply, errors, deferrals, callers, bounds>>

FillToAnalyzing ==
    /\ pc = "to_analyzing"
    /\ Advance("BEAKER_ANALYZING", "idle")
    /\ UNCHANGED <<job, cluster, todo, reply, errors, deferrals, callers, bounds>>

----------------------------------------------------------------------------
(* reconcile_run, called by the watcher's poll, by recover and by resume.  *)

WatcherPoll ==
    /\ pc = "idle"
    /\ state \in {"JOB_QUEUED", "JOB_RUNNING"}
    /\ Goto("reconcile")
    /\ UNCHANGED <<run, job, cluster, callers, bounds>>

ReconcileRead ==
    /\ pc = "reconcile"
    /\ IF state \in {"JOB_QUEUED", "JOB_RUNNING"}
       THEN pc' = "rec_loop" /\ todo' = Active
       ELSE pc' = "idle" /\ todo' = {}
    /\ UNCHANGED <<run, job, cluster, reply, errors, deferrals, callers, bounds>>

\* A job without an external id is submitted again under the same key.
ReconcileNext ==
    /\ pc = "rec_loop"
    /\ Goto(IF todo = {} THEN "fill"
            ELSE IF job[Min(todo)].ext THEN "rec_inspect" ELSE "rec_submit")
    /\ UNCHANGED <<run, job, cluster, callers, bounds>>

ReconcileSubmit ==
    /\ pc = "rec_submit"
    /\ Submit(Min(todo))
    /\ pc' = "rec_save"
    /\ UNCHANGED <<run, job, todo, errors, deferrals, callers, crashes>>

ReconcileSave ==
    /\ pc = "rec_save"
    /\ IF reply = "ERROR"
       THEN /\ update_job(Min(todo), "UNKNOWN", FALSE)
            /\ todo' = todo \ {Min(todo)}
            /\ pc' = "rec_loop"
       ELSE /\ update_job(Min(todo), reply, TRUE)
            /\ todo' = todo
            /\ pc' = "rec_inspect"
    /\ reply' = "NONE"
    /\ UNCHANGED <<run, cluster, errors, deferrals, callers, bounds>>

\* cluster.inspect and the write of what it reports, or of UNKNOWN after an
\* error.  That write is refused, and reconcile_run ends, if the repeated
\* submission has just reported the run CANCELLED.
ReconcileInspect ==
    /\ pc = "rec_inspect"
    /\ \/ /\ update_job(Min(todo), cluster[Min(todo)], TRUE)
          /\ pc' = "rec_loop" /\ todo' = todo \ {Min(todo)}
          /\ UNCHANGED faults
       \/ /\ Fault
          /\ IF job[Min(todo)].status = "CANCELLED"
             THEN pc' = "idle" /\ todo' = {} /\ job' = job
             ELSE /\ update_job(Min(todo), "UNKNOWN", TRUE)
                  /\ pc' = "rec_loop" /\ todo' = todo \ {Min(todo)}
    /\ UNCHANGED <<run, cluster, reply, errors, deferrals, callers, crashes>>

----------------------------------------------------------------------------
(* cancel_run and sweep_cancelled_run_jobs.                                *)

\* The part of cancel_run before the lock.
CancelRequest ==
    /\ ~cancelling
    /\ state \notin TERMINAL_STATES
    /\ cancelling' = TRUE
    /\ UNCHANGED <<run, job, cluster, worker, pausing, recovering, bounds>>

CancelStart ==
    /\ pc = "idle" /\ cancelling
    /\ cancelling' = FALSE
    /\ pc' = "cancel"
    /\ todo' = Unfinished
    /\ errors' = FALSE
    /\ UNCHANGED <<run, job, cluster, reply, deferrals, pausing, recovering, bounds>>

\* Mutant: the row is written CANCELLED even if the call failed.
CancelJobRegardless(j) ==
    /\ \/ UNCHANGED <<cluster, errors, faults>> /\ ~job[j].ext
       \/ /\ OnCluster(j) /\ cluster' = [cluster EXCEPT ![j] = "CANCELLED"]
          /\ job[j].ext /\ UNCHANGED <<errors, faults>>
       \/ job[j].ext /\ UNCHANGED cluster /\ errors' = TRUE /\ Fault
    /\ update_job(j, "CANCELLED", job[j].ext)

\* One round of the loop both operations share: cancel the external run if
\* its id is known, then write the row CANCELLED.  A failed call (which may
\* have taken effect) leaves the row for later.
CancelJob(j) ==
    \/ /\ job[j].ext => cluster' = [cluster EXCEPT ![j] = IF OnCluster(j) THEN "CANCELLED" ELSE @]
       /\ ~job[j].ext => UNCHANGED cluster
       /\ update_job(j, "CANCELLED", job[j].ext)
       /\ UNCHANGED <<errors, faults>>
    \/ /\ job[j].ext
       /\ \/ UNCHANGED cluster
          \/ OnCluster(j) /\ cluster' = [cluster EXCEPT ![j] = "CANCELLED"]
       /\ errors' = TRUE
       /\ Fault
       /\ UNCHANGED job

CancelNext ==
    /\ pc \in {"cancel", "sweep"} /\ todo # {}
    /\ CancelJob(Min(todo))
    /\ todo' = todo \ {Min(todo)}
    /\ UNCHANGED <<run, pc, reply, deferrals, callers, crashes>>

\* cancel_run reports the run CANCELLED only if every call succeeded.
CancelEnd ==
    /\ pc = "cancel" /\ todo = {}
    /\ IF errors THEN pc' = "idle" /\ UNCHANGED run
                 ELSE Advance("CANCELLED", "idle")
    /\ errors' = FALSE
    /\ UNCHANGED <<job, cluster, todo, reply, deferrals, callers, bounds>>

\* Mutant: the watcher skips every terminal run.
SweepSkipped ==
    /\ state = "CANCELLED" /\ state \notin TERMINAL_STATES
    /\ pc' = "sweep"
    /\ UNCHANGED <<run, job, cluster, todo, reply, errors, deferrals, callers, bounds>>

\* The watcher's sweep of a cancelled run.
SweepStart ==
    /\ pc = "idle" /\ state = "CANCELLED" /\ Unfinished # {}
    /\ pc' = "sweep"
    /\ todo' = Unfinished
    /\ UNCHANGED <<run, job, cluster, reply, errors, deferrals, callers, bounds>>

SweepEnd ==
    /\ pc = "sweep" /\ todo = {}
    /\ pc' = "idle"
    /\ errors' = FALSE
    /\ UNCHANGED <<run, job, cluster, todo, reply, deferrals, callers, bounds>>

\* Another run's create_run cancels this one, paused for days, to free the
\* active slot; nothing has been in flight for days.
AbandonedCancel ==
    /\ pc = "idle" /\ pausing = "NONE" /\ ~cancelling /\ ~recovering
    /\ state = "PAUSED"
    /\ state' = "CANCELLED"
    /\ UNCHANGED <<resume_state, approved, job, cluster, worker, callers, bounds>>

----------------------------------------------------------------------------
(* pause_run and resume_run.                                               *)

\* pause_run reads the state, aborts the agents' turns, then writes.
PauseRead ==
    /\ pausing = "NONE"
    /\ state \notin TERMINAL_STATES \cup {"PAUSED"}
    /\ pausing' = state
    /\ UNCHANGED <<run, job, cluster, worker, cancelling, recovering, bounds>>

PauseWrite ==
    /\ pausing # "NONE"
    /\ IF ValidTransition(state, "PAUSED")
       THEN state' = "PAUSED" /\ resume_state' = pausing
       ELSE UNCHANGED <<state, resume_state>>
    /\ pausing' = "NONE"
    /\ UNCHANGED <<approved, job, cluster, worker, cancelling, recovering, bounds>>

\* resume_run goes on, under the lock, with _recover_run.
resume_run ==
    /\ pc = "idle" /\ state = "PAUSED" /\ resume_state # "NONE"
    /\ state' = resume_state
    /\ resume_state' = "NONE"
    /\ pc' = "recover"
    /\ UNCHANGED <<approved, job, cluster, todo, reply, errors, deferrals,
                   callers, bounds>>

----------------------------------------------------------------------------
(* Crash and recovery.                                                     *)

\* The orchestrator restarts: locks, handlers and deferral counts are lost.
Crash ==
    /\ crashes < MaxCrashes
    /\ crashes' = crashes + 1
    /\ pc' = "idle" /\ todo' = {} /\ reply' = "NONE" /\ errors' = FALSE
    /\ deferrals' = 0
    /\ pausing' = "NONE" /\ cancelling' = FALSE
    /\ recovering' = TRUE
    /\ UNCHANGED <<run, job, cluster, faults>>

\* recover() reaches this run (only live runs are listed).
RecoverStart ==
    /\ pc = "idle" /\ recovering
    /\ recovering' = FALSE
    /\ Goto(IF state \in TERMINAL_STATES THEN "idle" ELSE "recover")
    /\ UNCHANGED <<run, job, cluster, pausing, cancelling, bounds>>

\* recover()'s handler, outside the lock: in a job phase, or at the gate, an
\* exception fails the run.
RecoverFails ==
    /\ recovering
    /\ state \in {"AWAITING_EXECUTION_APPROVAL", "JOB_QUEUED", "JOB_RUNNING"}
    /\ state' = "FAILED"
    /\ recovering' = FALSE
    /\ Fault
    /\ UNCHANGED <<resume_state, approved, job, cluster, worker, pausing,
                   cancelling, crashes>>

\* _recover_run, for the states of this module.
RecoverDispatch ==
    /\ pc = "recover"
    /\ CASE state = "AWAITING_EXECUTION_APPROVAL" /\ approved ->
              pc' = "create" /\ todo' = Jobs
         [] state \in {"JOB_QUEUED", "JOB_RUNNING"} ->
              pc' = "reconcile" /\ todo' = todo
         [] OTHER -> pc' = "idle" /\ todo' = todo
    /\ UNCHANGED <<run, job, cluster, reply, errors, deferrals, callers, bounds>>

----------------------------------------------------------------------------
(* The cluster.                                                            *)

ClusterStarts(j) ==
    /\ cluster[j] = "QUEUED"
    /\ cluster' = [cluster EXCEPT ![j] = "RUNNING"]
    /\ UNCHANGED <<run, job, worker, callers, bounds>>

ClusterFinishes(j) ==
    /\ OnCluster(j)
    /\ \E status \in {"SUCCEEDED", "FAILED", "CANCELLED"} :
         cluster' = [cluster EXCEPT ![j] = status]
    /\ UNCHANGED <<run, job, worker, callers, bounds>>

----------------------------------------------------------------------------
\* The steps of whoever holds the run lock.
WorkerStep ==
    \/ create_job_if_absent \/ SubmitRecheck \/ SubmitAdvance
    \/ FillRead \/ FillNext \/ FillSubmit \/ FillSave \/ FillEnd
    \/ FillToRunning \/ FillToAnalyzing
    \/ ReconcileRead \/ ReconcileNext \/ ReconcileSubmit \/ ReconcileSave
    \/ ReconcileInspect
    \/ CancelNext \/ CancelEnd \/ SweepEnd
    \/ RecoverDispatch

Next ==
    \/ WorkerStep
    \/ approve_action \/ WatcherPoll \/ CancelRequest \/ CancelStart
    \/ SweepStart \/ AbandonedCancel
    \/ PauseRead \/ PauseWrite \/ resume_run
    \/ Crash \/ RecoverStart \/ RecoverFails
    \/ \E j \in Jobs : ClusterStarts(j) \/ ClusterFinishes(j)

Spec == Init /\ [][Next]_vars

(***************************************************************************)
(* Fairness.  A thread that holds the lock keeps running; the watcher      *)
(* polls for as long as the service runs, and sleeps between polls, so the *)
(* lock comes free again and again and every handler waiting for it gets   *)
(* it; workflow-api bounds every run by its wallclock limit.  Humans, the  *)
(* cluster's errors and crashes are not fair.                              *)
(***************************************************************************)
Fairness ==
    /\ WF_vars(WorkerStep)
    /\ WF_vars(WatcherPoll)
    /\ WF_vars(SweepStart)
    /\ SF_vars(RecoverStart)
    /\ SF_vars(CancelStart)
    /\ WF_vars(PauseWrite)
    /\ \A j \in Jobs : WF_vars(ClusterFinishes(j))

FairSpec == Spec /\ Fairness

----------------------------------------------------------------------------
(* Properties.                                                             *)

\* _fill_job_capacity never has more of the run's jobs on the cluster than
\* maximum_parallel_jobs, although an answer may be lost, a submission may
\* be repeated by reconcile_run, and a crash may fall between any two writes.
\* (Not counted: a job whose row was cancelled before its id was known, which
\* cancel_run leaves on the cluster.)
CapacityRespected ==
    Cardinality({j \in Jobs : OnCluster(j) /\ job[j].status # "CANCELLED"})
        <= MaxParallel

\* No row is recorded as finished before the cluster has finished the job:
\* after an uncertain submission the row is UNKNOWN, never FAILED, and what
\* reconcile_run records is what the cluster reported.
NeverFalselyFinished ==
    \A j \in Jobs :
        job[j].status \in {"SUCCEEDED", "FAILED"} => cluster[j] = job[j].status

\* An accepted run whose id was saved is never abandoned: as long as it is on
\* the cluster its row is one that reconcile_run, cancel_run and the sweep
\* still visit.
SavedRunsAreWatched ==
    \A j \in Jobs : OnCluster(j) /\ job[j].ext => j \in Unfinished

\* Analysis starts only over a whole wave: every job of the approved matrix
\* has a row and every row is terminal, whatever pause, resume or crash came
\* between creating the rows and analysing the results.
AnalysisSeesWholeWave ==
    state = "BEAKER_ANALYZING" =>
        \A j \in Jobs : job[j].status \in JOB_TERMINAL_STATUSES

\* A finished job never runs again: re-expanding the same matrix after a
\* crash, a stale pause that rewinds the run to the gate, or a late answer
\* never puts a terminal row back in line.  The row may at most turn UNKNOWN
\* (an inspection right after a repeated submission failed), a CANCELLED row
\* not even that, and an external id once saved is never forgotten.
FinishedNeverRunsAgain ==
    [][\A j \in Jobs :
          /\ job[j].status \in JOB_TERMINAL_STATUSES =>
                 job'[j].status \in {job[j].status, "UNKNOWN"}
          /\ job[j].status = "CANCELLED" => job'[j] = job[j]
          /\ job[j].ext => job'[j].ext]_vars

\* The job phase ends: the watcher drives a run in JOB_QUEUED or JOB_RUNNING
\* out of it, even if every inspection finds a new artifact.
WavesEnd ==
    state \in {"JOB_QUEUED", "JOB_RUNNING"} ~>
        state \notin {"JOB_QUEUED", "JOB_RUNNING"}

\* The watcher's sweep leaves no unfinished row under a cancelled run, even
\* if the run was cancelled without cancel_run and cancel calls fail.
CancelledIsSwept == state = "CANCELLED" ~> Unfinished = {}
=============================================================================
