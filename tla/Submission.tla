----------------------------- MODULE Submission -----------------------------
(***************************************************************************)
(* workflow-api's run records and the Kubernetes Jobs behind them: the     *)
(* handlers that accept, cancel and complete a run, each a thread of its   *)
(* own, over a store that keeps everything in memory and, after a change,  *)
(* writes all of it to disk: the copy is taken under the store's lock, but *)
(* written without it.  The orchestrator repeats a POST whose answer   *)
(* it did not get under the same idempotency key.  Kubernetes and the      *)
(* runner that writes status.json are external.  JobExecution is the other *)
(* side of this interface.                                                 *)
(***************************************************************************)
EXTENDS Integers, FiniteSets

CONSTANTS
    Keys,        \* idempotency keys of the orchestrator's job specs
    Handlers,    \* request threads
    MaxRuns,     \* bound on run ids handed out
    MaxFaults,   \* bound on errors of Kubernetes and of the disk
    MaxCrashes,  \* bound on restarts of workflow-api
    None         \* no record

ASSUME SubmissionAssumption ==
    /\ MaxRuns \in Nat \ {0}
    /\ MaxFaults \in Nat
    /\ MaxCrashes \in Nat

Runs == 1..MaxRuns

VARIABLES
    mem,      \* RunStore._runs
    disk,     \* what the last flush to end wrote
    job,      \* the Job of each run in Kubernetes
    bundle,   \* runs whose runner wrote a terminal bundle with its status.json
    h,        \* what each handler is doing
    made,     \* run ids handed out so far
    told,     \* history: runs a POST under each key was answered with
    lost,     \* history: runs whose record a restart did not find on disk
    detached, \* history: runs that lost their receipt, see WorkingJobHasReceipt
    erased,   \* history: runs whose record an older copy removed from disk
    faults,
    crashes

store == <<mem, disk>>
cluster == <<job, bundle>>
history == <<told, lost, detached, erased>>
vars == <<store, cluster, h, made, history, faults, crashes>>

\* A run that succeeded, failed or was rejected is "over".
RunRecord ==
    [key : Keys, status : {"accepted", "cancelled", "over"},
     receipt : {"pending", "submitted"}, verified : BOOLEAN]

\* A deleted Job goes on until its pod has ended (propagation Foreground).
JobState == {"none", "active", "over", "deleting", "gone"}

ASSUME NoneAssumption == None \notin RunRecord

Idle == [pc |-> "idle", run |-> 0, key |-> None, copy |-> None,
         snap |-> None, then |-> "idle"]

Pcs == {"idle", "save", "flush", "write", "submit", "record", "answer", "live",
        "delete", "cancel", "ingest", "results"}

\* Type invariant: in memory and on disk a record is a whole record, also when
\* handlers overwrite each other's copies (save_run).
TypeOK ==
    /\ mem \in [Runs -> RunRecord \cup {None}]
    /\ disk \in [Runs -> RunRecord \cup {None}]
    /\ job \in [Runs -> JobState]
    /\ bundle \in SUBSET Runs
    /\ h \in [Handlers -> [pc : Pcs, run : 0..MaxRuns, key : Keys \cup {None},
                           copy : RunRecord \cup {None},
                           snap : [Runs -> RunRecord \cup {None}] \cup {None},
                           then : {"idle", "submit", "answer"}]]
    /\ made \in 0..MaxRuns
    /\ told \in [Keys -> SUBSET Runs]
    /\ lost \in SUBSET Runs
    /\ detached \in SUBSET Runs
    /\ erased \in SUBSET Runs
    /\ faults \in 0..MaxFaults
    /\ crashes \in 0..MaxCrashes

Init ==
    /\ mem = [i \in Runs |-> None]
    /\ disk = mem
    /\ job = [i \in Runs |-> "none"]
    /\ bundle = {}
    /\ h = [x \in Handlers |-> Idle]
    /\ made = 0
    /\ told = [k \in Keys |-> {}]
    /\ lost = {}
    /\ detached = {}
    /\ erased = {}
    /\ faults = 0
    /\ crashes = 0

----------------------------------------------------------------------------
(* Helpers.                                                                *)

\* get_run_by_idempotency_key
Bound(k) == {i \in Runs : mem[i] # None /\ mem[i].key = k}

Go(x, pc) == h' = [h EXCEPT ![x].pc = pc]

Done(x) == h' = [h EXCEPT ![x] = Idle]

Fault == faults < MaxFaults /\ faults' = faults + 1

Answer(k, i) == told' = [told EXCEPT ![k] = @ \cup {i}]

Accepted(k) ==
    [key |-> k, status |-> "accepted", receipt |-> "pending", verified |-> FALSE]

HasReceipt(record) == record # None /\ record.receipt = "submitted"

\* The handler goes on to flush the store, and then to a further step.
GoFlush(x, then) ==
    h' = [h EXCEPT ![x] =
            IF then = "idle" THEN [Idle EXCEPT !.pc = "flush"]
            ELSE [@ EXCEPT !.pc = "flush", !.then = then]]

----------------------------------------------------------------------------
(* _flush, at the end of every save.                                       *)

\* Mutant: the flush is left for later.
FlushCopyOnly(x) ==
    /\ h[x].pc = "flush"
    /\ h' = [h EXCEPT ![x] = [@ EXCEPT !.pc = h[x].then, !.then = "idle"]]
    /\ UNCHANGED <<store, cluster, made, history, faults, crashes>>

\* The whole store is copied, other handlers' changes included ...
FlushCopy(x) ==
    /\ h[x].pc = "flush"
    /\ h' = [h EXCEPT ![x].pc = "write", ![x].snap = mem]
    /\ UNCHANGED <<store, cluster, made, history, faults, crashes>>

\* The copy replaces what the disk holds, a newer copy too: a record that is
\* not in it is erased, a receipt that is not in it is lost from disk.
Overwrite(copy) ==
    /\ disk' = copy
    /\ erased' = erased \cup {i \in Runs : disk[i] # None /\ copy[i] = None}
    /\ detached' = detached \cup {i \in Runs : HasReceipt(disk[i]) /\ ~HasReceipt(copy[i])}

\* ... and the copy written, over a newer one if another flush was faster.  An
\* error ends the request and leaves the change in memory; the copy may be on
\* disk all the same, if the commit landed and its answer was lost.
FlushWrite(x) ==
    /\ h[x].pc = "write"
    /\ \/ /\ Overwrite(h[x].snap)
          /\ h' = [h EXCEPT ![x] =
                      IF h[x].then = "idle" THEN Idle
                      ELSE [Idle EXCEPT !.pc = h[x].then, !.run = h[x].run, !.key = h[x].key]]
          /\ UNCHANGED faults
       \/ Fault /\ Done(x) /\ Overwrite(h[x].snap)
       \/ /\ Fault /\ Done(x)
          /\ detached' = IF h[x].then = "answer" THEN detached \cup {h[x].run} ELSE detached
          /\ UNCHANGED <<disk, erased>>
    /\ UNCHANGED <<mem, cluster, made, told, lost, crashes>>

\* A save of anything else the store holds, a log entry for one, flushes it too.
OtherSave(x) ==
    /\ h[x].pc = "idle"
    /\ GoFlush(x, "idle")
    /\ UNCHANGED <<store, cluster, made, history, faults, crashes>>

----------------------------------------------------------------------------
(* POST /experiments/runs: build_generic_run_record, create_run_record.    *)

PostLookup(x, k) ==
    /\ h[x].pc = "idle"
    /\ \/ /\ Bound(k) # {}
          /\ \E i \in Bound(k) : Answer(k, i)
          /\ UNCHANGED <<h, made>>
       \/ /\ Bound(k) = {} /\ made < MaxRuns
          /\ made' = made + 1
          /\ h' = [h EXCEPT ![x] = [Idle EXCEPT !.pc = "save", !.run = made + 1, !.key = k]]
          /\ UNCHANGED told
    /\ UNCHANGED <<store, cluster, lost, detached, erased, faults, crashes>>

\* Mutant: the record is saved without its key.
PostSaveKeyless(x) ==
    /\ h[x].pc = "save"
    /\ mem' = [mem EXCEPT ![h[x].run] = Accepted(None)]
    /\ GoFlush(x, "submit")
    /\ UNCHANGED <<disk, cluster, made, history, faults, crashes>>

\* Mutant: two lookups that found nothing both save.
PostSaveUnchecked(x) ==
    /\ h[x].pc = "save"
    /\ mem' = [mem EXCEPT ![h[x].run] = Accepted(h[x].key)]
    /\ GoFlush(x, "submit")
    /\ UNCHANGED <<disk, cluster, made, history, faults, crashes>>

\* Mutant: a refused save is answered with the refused run.
PostSaveAnswersOwn(x) ==
    /\ h[x].pc = "save"
    /\ IF Bound(h[x].key) = {}
       THEN /\ mem' = [mem EXCEPT ![h[x].run] = Accepted(h[x].key)]
            /\ GoFlush(x, "submit") /\ UNCHANGED told
       ELSE Answer(h[x].key, h[x].run) /\ Done(x) /\ UNCHANGED mem
    /\ UNCHANGED <<disk, cluster, made, lost, detached, erased, faults, crashes>>

\* save_run refuses a key bound to another run; the caller answers with that
\* run instead.
PostSave(x) ==
    /\ h[x].pc = "save"
    /\ \/ /\ Bound(h[x].key) = {}
          /\ mem' = [mem EXCEPT ![h[x].run] = Accepted(h[x].key)]
          /\ GoFlush(x, "submit")
          /\ UNCHANGED told
       \/ /\ \E i \in Bound(h[x].key) : Answer(h[x].key, i)
          /\ Done(x)
          /\ UNCHANGED mem
    /\ UNCHANGED <<disk, cluster, made, lost, detached, erased, faults, crashes>>

\* submit_run creates the Job; it is refused, or its answer is lost.
PostSubmit(x) ==
    /\ h[x].pc = "submit"
    /\ \/ /\ job' = [job EXCEPT ![h[x].run] = "active"]
          /\ Go(x, "record")
          /\ UNCHANGED <<detached, faults>>
       \/ /\ Fault /\ Done(x) /\ UNCHANGED <<job, detached>>
       \/ /\ Fault /\ Done(x)
          /\ job' = [job EXCEPT ![h[x].run] = "active"]
          /\ detached' = detached \cup {h[x].run}
    /\ UNCHANGED <<store, bundle, made, told, lost, erased, crashes>>

\* The record is saved again with the receipt, from the handler's own copy,
\* whatever was stored for the run since.
PostRecord(x) ==
    /\ h[x].pc = "record"
    /\ mem' = [mem EXCEPT ![h[x].run] =
                 [Accepted(h[x].key) EXCEPT !.receipt = "submitted"]]
    /\ GoFlush(x, "answer")
    /\ UNCHANGED <<disk, cluster, made, history, faults, crashes>>

\* The artifact index and a log entry are saved before the answer; they change
\* no run, and their flushes are those of OtherSave.
PostAnswer(x) ==
    /\ h[x].pc = "answer"
    /\ Answer(h[x].key, h[x].run)
    /\ Done(x)
    /\ UNCHANGED <<store, cluster, made, lost, detached, erased, faults, crashes>>

----------------------------------------------------------------------------
(* POST /runs/{run_id}/cancel.                                             *)

\* A run already over is refused; so is one without a receipt, whose Job
\* cannot be looked up.
CancelRead(x, i) ==
    /\ h[x].pc = "idle"
    /\ mem[i] # None /\ mem[i].status = "accepted" /\ mem[i].receipt = "submitted"
    /\ h' = [h EXCEPT ![x] = [Idle EXCEPT !.pc = "live", !.run = i]]
    /\ UNCHANGED <<store, cluster, made, history, faults, crashes>>

\* What get_live_status takes for queued or running: the status of a Job is
\* not brought up to date while it is being deleted.
Live == {"active", "deleting"}

\* get_live_status: a finished Job is not cancelled, an unknown one neither.
CancelLive(x) ==
    /\ h[x].pc = "live"
    /\ \/ job[h[x].run] \in Live /\ Go(x, "delete") /\ UNCHANGED faults
       \/ job[h[x].run] \notin Live /\ Done(x) /\ UNCHANGED faults
       \/ Fault /\ Done(x)
    /\ UNCHANGED <<store, cluster, made, history, crashes>>

\* delete_namespaced_job with propagation Foreground answers while the pod of
\* the Job still terminates; a Job that is not there (404) is as good.
Deleted(state) == IF state \in Live THEN "deleting" ELSE "gone"

\* Mutant: an error of the deletion is taken for its success.
CancelDeleteUnconfirmed(x) ==
    /\ h[x].pc = "delete"
    /\ \/ job' = [job EXCEPT ![h[x].run] = Deleted(@)] /\ UNCHANGED faults
       \/ Fault /\ UNCHANGED job
    /\ Go(x, "cancel")
    /\ UNCHANGED <<store, bundle, made, history, crashes>>

\* The Job is deleted; on an error it may be deleted too, and the cancel is
\* not confirmed.
CancelDelete(x) ==
    /\ h[x].pc = "delete"
    /\ \/ /\ job' = [job EXCEPT ![h[x].run] = Deleted(@)]
          /\ Go(x, "cancel") /\ UNCHANGED faults
       \/ /\ Fault /\ Done(x)
          /\ job' \in {job, [job EXCEPT ![h[x].run] = Deleted(@)]}
    /\ UNCHANGED <<store, bundle, made, history, crashes>>

\* transition_run_status: only an accepted run becomes cancelled; a run that
\* is cancelled, now or before, is flushed.
CancelMark(x) ==
    /\ h[x].pc = "cancel"
    /\ \/ /\ mem[h[x].run].status = "accepted"
          /\ mem' = [mem EXCEPT ![h[x].run].status = "cancelled"]
          /\ GoFlush(x, "idle")
       \/ /\ mem[h[x].run].status = "cancelled"
          /\ GoFlush(x, "idle") /\ UNCHANGED mem
       \/ /\ mem[h[x].run].status = "over"
          /\ Done(x) /\ UNCHANGED mem
    /\ UNCHANGED <<disk, cluster, made, history, faults, crashes>>

----------------------------------------------------------------------------
(* POST .../artifacts/ingest and .../results: the record is read, then      *)
(* saved from the handler's copy, whatever was stored for the run since.     *)

Copy(x, i, pc, record) ==
    h' = [h EXCEPT ![x] = [Idle EXCEPT !.pc = pc, !.run = i, !.copy = record]]

\* Mutant: a run without a terminal bundle is ingested.
IngestReadAny(x, i) ==
    /\ h[x].pc = "idle"
    /\ mem[i] # None /\ ~mem[i].verified
    /\ Copy(x, i, "ingest", [mem[i] EXCEPT !.status = "over", !.verified = TRUE])
    /\ UNCHANGED <<store, cluster, made, history, faults, crashes>>

\* ingest_run_artifact_bundle: the run's terminal bundle is there, and was not
\* ingested before.
IngestRead(x, i) ==
    /\ h[x].pc = "idle"
    /\ mem[i] # None /\ ~mem[i].verified
    /\ i \in bundle
    /\ Copy(x, i, "ingest", [mem[i] EXCEPT !.status = "over", !.verified = TRUE])
    /\ UNCHANGED <<store, cluster, made, history, faults, crashes>>

IngestSave(x) ==
    /\ h[x].pc = "ingest"
    /\ mem' = [mem EXCEPT ![h[x].run] = h[x].copy]
    /\ GoFlush(x, "idle")
    /\ UNCHANGED <<disk, cluster, made, history, faults, crashes>>

\* ingest_generic_experiment_results: the caller says how the run ended, also
\* of a run whose Job works.
ResultsRead(x, i) ==
    /\ h[x].pc = "idle"
    /\ mem[i] # None
    /\ Copy(x, i, "results", [mem[i] EXCEPT !.status = "over"])
    /\ UNCHANGED <<store, cluster, made, history, faults, crashes>>

\* A receipt stored since the read is lost.
ResultsSave(x) ==
    /\ h[x].pc = "results"
    /\ mem' = [mem EXCEPT ![h[x].run] = h[x].copy]
    /\ detached' = IF HasReceipt(mem[h[x].run]) /\ ~HasReceipt(h[x].copy)
                   THEN detached \cup {h[x].run} ELSE detached
    /\ GoFlush(x, "idle")
    /\ UNCHANGED <<disk, cluster, made, told, lost, erased, faults, crashes>>

----------------------------------------------------------------------------
(* Kubernetes, the runner, crashes.                                        *)

\* The runner writes its terminal bundle at the end of its work; a deletion
\* leaves it time to.
RunnerEnds(i) ==
    /\ job[i] \in Live /\ i \notin bundle
    /\ bundle' = bundle \cup {i}
    /\ UNCHANGED <<store, job, h, made, history, faults, crashes>>

\* Kubernetes sees the Job's pod end, killed before it wrote a bundle or not.
JobFinishes(i) ==
    /\ job[i] = "active"
    /\ job' = [job EXCEPT ![i] = "over"]
    /\ UNCHANGED <<store, bundle, h, made, history, faults, crashes>>

\* The pod of a deleted Job is gone, or ttl_seconds_after_finished is over.
JobExpires(i) ==
    /\ job[i] \in {"over", "deleting"}
    /\ job' = [job EXCEPT ![i] = "gone"]
    /\ UNCHANGED <<store, bundle, h, made, history, faults, crashes>>

\* The POST of run i has created a Job and not yet flushed its receipt.
Recording(i) ==
    \E x \in Handlers : /\ h[x].run = i
                        /\ \/ h[x].pc = "record"
                           \/ h[x].pc \in {"flush", "write"} /\ h[x].then = "answer"

\* workflow-api restarts from its disk; a record it had not flushed is gone,
\* and so is a receipt.
Crash ==
    /\ crashes < MaxCrashes
    /\ crashes' = crashes + 1
    /\ mem' = disk
    /\ h' = [x \in Handlers |-> Idle]
    /\ lost' = lost \cup {i \in Runs : mem[i] # None /\ disk[i] = None}
    /\ detached' = detached \cup {i \in Runs : Recording(i) /\ ~HasReceipt(disk[i])}
    /\ UNCHANGED <<disk, cluster, made, told, erased, faults>>

----------------------------------------------------------------------------

Post(x) ==
    \/ \E k \in Keys : PostLookup(x, k)
    \/ PostSave(x) \/ PostSubmit(x) \/ PostRecord(x) \/ PostAnswer(x)

Cancel(x) ==
    \/ \E i \in Runs : CancelRead(x, i)
    \/ CancelLive(x) \/ CancelDelete(x) \/ CancelMark(x)

Ingest(x) ==
    \/ \E i \in Runs : IngestRead(x, i) \/ ResultsRead(x, i)
    \/ IngestSave(x) \/ ResultsSave(x)

Next ==
    \/ \E x \in Handlers : Post(x) \/ Cancel(x) \/ Ingest(x)
                          \/ OtherSave(x) \/ FlushCopy(x) \/ FlushWrite(x)
    \/ \E i \in Runs : RunnerEnds(i) \/ JobFinishes(i) \/ JobExpires(i)
    \/ Crash

Spec == Init /\ [][Next]_vars

----------------------------------------------------------------------------
(* Properties.                                                             *)

\* Every Job has a record on disk, from before it exists: "a failure between
\* submit and save cannot orphan a running Job with no RunRecord"
\* (build_generic_run_record).
JobsAreRecorded == \A i \in Runs : job[i] # "none" => disk[i] # None

\* A Job's record is missing on disk only if a flush that had copied the store
\* before the record was saved ended after the flush that wrote it (_flush).
JobHasRecord ==
    \A i \in Runs \ erased : job[i] # "none" => disk[i] # None

\* However often a POST is repeated, side by side or after a crash, at most
\* one Job is created under an idempotency key, unless the record of the first
\* was erased that way (IdempotencyConflict).
OneJobPerKey ==
    \A i, j \in Runs \ erased :
       job[i] # "none" /\ job[j] # "none" /\ disk[i].key = disk[j].key => i = j

\* A run marked cancelled has no Job that Kubernetes was not told to delete,
\* whatever was saved or lost since: its Job had ended, is being deleted or is
\* gone (cancel_run).  Its pod may still be terminating.
CancelledIsOff ==
    \A i \in Runs : mem[i] # None /\ mem[i].status = "cancelled" => job[i] # "active"

\* While the runner of a Job works, the Job can be looked up and cancelled
\* through its record, or its POST is about to store the receipt.  The
\* exceptions are the runs whose receipt was lost: the answer of the create was
\* lost (PostSubmit); the flush of the receipt failed, or the process died
\* before it; a flush copied before the receipt was written over it; results
\* were saved from a copy read before the receipt was stored.
WorkingJobHasReceipt ==
    \A i \in Runs \ detached :
       job[i] = "active" /\ i \notin bundle =>
          \/ HasReceipt(mem[i])
          \/ \E x \in Handlers : h[x].pc = "record" /\ h[x].run = i

\* All answers to POSTs under one key name one run, also when two POSTs found
\* the key free or the create's answer was lost.  The exception is a run whose
\* record was not on disk at a restart: it had not been flushed, or a flush
\* copied before it was saved had erased it.
AnswersAgree ==
    \A k \in Keys : \A i, j \in told[k] \ lost : i = j
=============================================================================
