---------------------------- MODULE RunLifecycle ----------------------------
(***************************************************************************)
(* The workflow of one research run: the phases the two agents work in, the *)
(* action records humans and Honeydew decide on, and the four human gates   *)
(* (protocol, contract promotion, execution, final report).  Whoever holds  *)
(* the run's advancement lock is the worker `w`; an approval, a rejection,  *)
(* a resume, the watcher or recovery may be driving it.  Pause takes no     *)
(* lock, so it may fall between any two of the worker's steps, as may a     *)
(* crash.  What a phase writes is one step, the transition that follows it  *)
(* another.  Jobs are abstracted to "a wave is over": JobExecution has them *)
(* in detail.                                                               *)
(***************************************************************************)
EXTENDS Integers, Sequences, FiniteSetsExt, RunStates

CONSTANTS
    MaxTurns,      \* run.maximum_turns
    MaxRevisions,  \* settings.maximum_methodology_revisions
    MaxRejected,   \* settings.maximum_matrix_revisions
    MaxRedrafts,   \* settings.max_contract_redrafts
    MaxReportRepairs, \* settings.report_materialisation_repair_attempts
    MaxFaults,     \* bound on turns and operations that fail, on outputs that
                   \* need a repair and on requests nobody asked an agent for
    MaxCrashes,    \* bound on restarts
    MaxCalls,      \* bound on pauses and cancels an operator asks for
    Pending,       \* the types of action agents request without being asked,
    Denied         \* and the policy lets wait for a decision, or denies

\* The types a gate of the workflow waits for.
GateTypes ==
    {"approve_protocol", "propose_evaluation_contract",
     "submit_experiment_matrix", "accept_final_report"}

\* "other" is any further type a human decides on, such as push_git_branch.
ActionTypes == GateTypes \cup {"other"}

ASSUME LifecycleAssumption ==
    /\ MaxTurns \in Nat \ {0}
    /\ MaxRevisions \in Nat
    /\ MaxRejected \in Nat
    /\ MaxRedrafts \in Nat
    /\ MaxReportRepairs \in Nat
    /\ MaxFaults \in Nat
    /\ MaxCrashes \in Nat
    /\ MaxCalls \in Nat
    /\ Pending \subseteq ActionTypes
    /\ Denied \subseteq GateTypes

VARIABLES
    state,      \* the run's state
    resume,     \* resume_state, or "NONE"
    actions,    \* the run's action records, oldest first
    protocol,   \* protocol_version
    report,     \* how many reports were written
    compatible, \* the bound contract implements the latest proposal
    submitted,  \* indices of the matrix actions whose jobs were created
    turns,      \* turn_number
    revisions,  \* methodology_revision_count
    redrafts,   \* contract.candidate_rejected events
    w,          \* the holder of the run lock
    pausing,    \* the state a pause_run in flight has read, or "NONE"
    cancelling, \* a cancel_run waits for the lock
    recovering, \* recover() has still to visit the run
    left,       \* history: an exception ended the operation that drove the
                \* run, and nobody has taken the run up since
    faults,     \* failures so far
    crashes,    \* restarts so far
    calls       \* pauses and cancels so far

record == <<state, resume>>
data == <<actions, protocol, report, compatible, submitted>>
counts == <<turns, revisions, redrafts>>
callers == <<pausing, cancelling, recovering, left>>
bounds == <<faults, crashes, calls>>
vars == <<record, data, counts, w, callers, bounds>>

\* DENIED: the policy refused what an agent requested.
ApprovalStatus == {"PENDING", "APPROVED", "REJECTED", "DENIED", "EXECUTION_FAILED"}

\* An action record; sealed: its contract candidate was sealed as an
\* artifact; version: the protocol or report it was created for.
ActionRecord ==
    [type : ActionTypes, status : ApprovalStatus, honeydew : BOOLEAN,
     sealed : BOOLEAN, version : 0..MaxTurns]

\* The phase functions of the engine.
Phases ==
    {"prepare", "draft", "draft_contract", "review_contract",
     "promote", "plan", "implement", "finalize", "review", "revision", "budget", "repair",
     "revise", "submit", "jobs", "analyze", "verify", "write_report"}

\* act: the action the worker deals with, or, in a turn that may request
\* some, how many there were before it; repairs: turns the phase has repeated.
Idle ==
    [step |-> "idle", phase |-> "none", act |-> 0, target |-> "NONE",
     next |-> "none", driver |-> "none", repairs |-> 0]

Steps == {"idle", "decide", "recover", "begin", "turn", "after", "seal",
          "move", "queue", "pause", "raise"}
Drivers == {"none", "create", "approve", "reapprove", "reject", "resume",
            "recover", "watcher", "repair"}

TypeOK ==
    /\ state \in RunState
    /\ resume \in (WorkStates \cup HUMAN_WAIT_STATES \cup {"NONE"})
    /\ actions \in Seq(ActionRecord)
    /\ protocol \in 0..MaxTurns
    /\ report \in 0..MaxTurns
    /\ compatible \in BOOLEAN
    /\ submitted \in SUBSET DOMAIN actions
    /\ turns \in 0..MaxTurns
    /\ revisions \in Nat
    /\ redrafts \in Nat
    /\ w \in [step : Steps, phase : Phases \cup {"none", "end"},
              act : {0} \cup DOMAIN actions, target : RunState \cup {"NONE"},
              next : Phases \cup {"none", "end"}, driver : Drivers,
              repairs : Nat]
    /\ pausing \in RunState \cup {"NONE"}
    /\ cancelling \in BOOLEAN
    /\ recovering \in BOOLEAN
    /\ left \in BOOLEAN
    /\ faults \in 0..MaxFaults
    /\ crashes \in 0..MaxCrashes
    /\ calls \in 0..MaxCalls

\* create_run has just stored the run and holds its lock.
Init ==
    /\ state = "CREATED"
    /\ w = [Idle EXCEPT !.step = "begin", !.phase = "prepare", !.driver = "create"]
    /\ protocol = 0
    /\ resume = "NONE"
    /\ actions = << >>
    /\ report = 0
    /\ compatible = TRUE
    /\ submitted = {}
    /\ turns = 0 /\ revisions = 0 /\ redrafts = 0
    /\ pausing = "NONE" /\ cancelling = FALSE /\ recovering = FALSE /\ left = FALSE
    /\ faults = 0 /\ crashes = 0 /\ calls = 0

----------------------------------------------------------------------------
(* Helpers.                                                                *)

OfType(type) == {i \in DOMAIN actions : actions[i].type = type}

OfStatus(type, status) == {i \in OfType(type) : actions[i].status = status}

PendingMatrices == OfStatus("submit_experiment_matrix", "PENDING")

\* The newest contract action with a sealed candidate: candidates[-1].
Sealed == {i \in OfType("propose_evaluation_contract") : actions[i].sealed}

\* What the turn just ended has requested so far, and the policy let pass.
Requested(type) == {i \in OfStatus(type, "PENDING") : i > w.act}

NewAction(type, version) ==
    [type |-> type, status |-> "PENDING", honeydew |-> FALSE,
     sealed |-> FALSE, version |-> version]

SetStatus(i, status) == actions' = [actions EXCEPT ![i].status = status]

\* What the lock holder does next.
Begin(phase) ==
    w' = [w EXCEPT !.step = "begin", !.phase = phase, !.target = "NONE",
                   !.next = "none"]
BeginOn(phase, i) ==
    w' = [w EXCEPT !.step = "begin", !.phase = phase, !.act = i]
MoveTo(target, next) ==
    w' = [w EXCEPT !.step = "move", !.target = target, !.next = next]
Raise == w' = [w EXCEPT !.step = "raise"]
AskHuman == w' = [w EXCEPT !.step = "pause"]
Finish == w' = Idle

\* pause_run called by the engine itself.
PauseHere ==
    IF state \notin TERMINAL_STATES \cup {"PAUSED", "CREATED"}
    THEN state' = "PAUSED" /\ resume' = state
    ELSE UNCHANGED record

\* _fail_run: a paused or terminal run is left alone.
FailRun ==
    /\ state' = IF state \in TERMINAL_STATES \cup {"PAUSED"} THEN state ELSE "FAILED"
    /\ resume' = resume

\* Mutant: the turn after the last one is admitted.
StartTurnOneMore(i, n) ==
    /\ turns <= MaxTurns
    /\ turns' = turns + 1
    /\ w' = [w EXCEPT !.step = "turn", !.act = i, !.repairs = n]
    /\ state' = state

\* Mutant: turns are not counted against the budget.
StartTurnUncounted(i, n) ==
    /\ turns < MaxTurns
    /\ w' = [w EXCEPT !.step = "turn", !.act = i, !.repairs = n]
    /\ UNCHANGED <<state, turns>>

\* A phase starts the agent turn that deals with action i, after n of its turns
\* that needed a repair; an exhausted budget of turns or of active runtime times
\* the run out instead.
StartTurn(i, n) ==
    \/ /\ turns < MaxTurns
       /\ turns' = turns + 1
       /\ w' = [w EXCEPT !.step = "turn", !.act = i, !.repairs = n]
       /\ state' = state
    \/ /\ state' = IF ValidTransition(state, "TIMED_OUT") THEN "TIMED_OUT" ELSE state
       /\ Raise
       /\ turns' = turns

----------------------------------------------------------------------------
(* Steps every phase shares.                                               *)

\* _transition: validated against the stored state, a paused one included.
Move ==
    /\ w.step = "move"
    /\ IF ValidTransition(state, w.target)
       THEN state' = w.target /\ IF w.next = "end" THEN Finish ELSE Begin(w.next)
       ELSE state' = state /\ Raise
    /\ UNCHANGED <<resume, data, counts, callers, bounds>>

\* The phases whose turn starts at once.
BeginTurn ==
    /\ w.step = "begin"
    /\ w.phase \in {"draft", "review_contract", "plan", "revise", "analyze",
                    "verify", "write_report"}
    /\ StartTurn(IF w.phase = "review_contract" THEN w.act ELSE Len(actions), 0)
    /\ UNCHANGED <<resume, data, revisions, redrafts, callers, bounds>>

\* The turn completes, and the run is looked at again before anything is
\* done with the output; or it fails, or is aborted by a pause or a cancel.
EndTurn ==
    /\ w.step = "turn"
    /\ \/ /\ IF state \in TERMINAL_STATES \cup {"PAUSED"}
             THEN Raise
             ELSE w' = [w EXCEPT !.step = "after"]
          /\ faults' = faults
       \/ /\ Raise
          /\ IF pausing # "NONE" \/ cancelling \/ state = "PAUSED"
             THEN faults' = faults
             ELSE faults < MaxFaults /\ faults' = faults + 1
    /\ UNCHANGED <<record, data, counts, callers, crashes, calls>>

\* An exception reaches the operation that drives the worker.  A first
\* approval and a resume pause the run; recovery pauses it in an agent phase
\* and fails it elsewhere; the others leave it where it is, undriven.
ResumableAgentStates ==
    {"HONEYDEW_DRAFTING_PROTOCOL", "BEAKER_DRAFTING_CONTRACT",
     "HONEYDEW_REVIEWING_CONTRACT", "BEAKER_PLANNING", "BEAKER_IMPLEMENTING",
     "BEAKER_FINALIZING", "HONEYDEW_REVIEWING", "BEAKER_REVISING",
     "BEAKER_ANALYZING", "HONEYDEW_VERIFYING", "HONEYDEW_WRITING_REPORT"}

Handle ==
    /\ w.step = "raise"
    /\ CASE w.driver \in {"approve", "resume"} -> PauseHere
         [] w.driver = "recover" ->
              IF state \in ResumableAgentStates THEN PauseHere ELSE FailRun
         [] w.driver = "create" /\ w.phase = "prepare" -> FailRun
         [] OTHER -> UNCHANGED record
    /\ left' = (w.driver \notin {"approve", "resume", "recover"})
    /\ Finish
    /\ UNCHANGED <<data, counts, pausing, cancelling, recovering, bounds>>

\* The phase has given up and pauses the run for a human.
PauseForHuman ==
    /\ w.step = "pause"
    /\ PauseHere
    /\ Finish
    /\ UNCHANGED <<data, counts, callers, bounds>>

\* _record_requested_actions stores what Beaker's turn requests one record at
\* a time, whatever its type: the candidate or matrix it was asked for, and
\* others; the policy lets them pass or denies them.  Requests that it approves
\* by itself, and denied ones of no gate, move nothing and are left out.
RecordAction ==
    /\ w.step = "after"
    /\ w.phase \in {"draft_contract", "implement", "finalize", "revise", "analyze"}
    /\ LET asked == IF w.phase = "draft_contract" THEN "propose_evaluation_contract"
                    ELSE "submit_experiment_matrix"
       IN  \/ /\ Requested(asked) = {}
              /\ actions' = Append(actions, NewAction(asked, 0))
              /\ faults' = faults
           \/ /\ faults < MaxFaults /\ faults' = faults + 1
              /\ \/ \E type \in Pending : actions' = Append(actions, NewAction(type, 0))
                 \/ \E type \in Denied :
                      actions' = Append(actions, [NewAction(type, 0) EXCEPT !.status = "DENIED"])
    /\ UNCHANGED <<record, protocol, report, compatible, submitted, counts, w,
                   callers, crashes, calls>>

\* How often a phase repeats a turn whose file or proposal is missing.
RepairLimit(phase) ==
    CASE phase = "draft" -> 3
      [] phase = "plan" -> 1
      [] phase = "write_report" -> MaxReportRepairs

\* A focused repair turn, for an output that misses a file or a field.
RepairTurn ==
    /\ w.step = "after" /\ w.phase \in {"draft", "plan", "write_report"}
    /\ w.repairs < RepairLimit(w.phase)
    /\ faults < MaxFaults /\ faults' = faults + 1
    /\ StartTurn(w.act, w.repairs + 1)
    /\ UNCHANGED <<resume, data, revisions, redrafts, callers, crashes, calls>>

----------------------------------------------------------------------------
(* Preparation and protocol.                                               *)

\* create_run after the row is stored; setting the workspace up may fail.
Prepare ==
    /\ w.step = "begin" /\ w.phase = "prepare"
    /\ IF state = "CREATED"
       THEN MoveTo("PREPARING", "prepare") /\ faults' = faults
       ELSE \/ MoveTo("HONEYDEW_DRAFTING_PROTOCOL", "draft") /\ faults' = faults
            \/ Raise /\ faults < MaxFaults /\ faults' = faults + 1
    /\ UNCHANGED <<record, data, counts, callers, crashes, calls>>

\* A new protocol version with its proposal, and the action to approve it.
DraftProtocol ==
    /\ w.step = "after" /\ w.phase = "draft"
    /\ protocol' = protocol + 1
    /\ compatible' \in BOOLEAN
    /\ actions' = Append(actions, NewAction("approve_protocol", protocol + 1))
    /\ MoveTo("AWAITING_PROTOCOL_APPROVAL", "end")
    /\ UNCHANGED <<record, report, submitted, counts, callers, bounds>>

----------------------------------------------------------------------------
(* The evaluation contract.                                                *)

\* A compatible installed contract is bound at once; else Beaker drafts one.
BeginDraftContract ==
    /\ w.step = "begin" /\ w.phase = "draft_contract"
    /\ \/ /\ compatible' = TRUE
          /\ MoveTo("BEAKER_PLANNING", "plan")
          /\ UNCHANGED <<state, turns>>
       \/ StartTurn(Len(actions), 0) /\ UNCHANGED compatible
    /\ UNCHANGED <<resume, actions, protocol, report, submitted, revisions,
                   redrafts, callers, bounds>>

\* The turn must have proposed exactly one candidate the policy let pass.
RecordCandidate ==
    /\ w.step = "after" /\ w.phase = "draft_contract"
    /\ \/ /\ Cardinality(Requested("propose_evaluation_contract")) # 1
          /\ redrafts' = redrafts + 1
          /\ Begin("draft_contract")
       \/ /\ Cardinality(Requested("propose_evaluation_contract")) = 1
          /\ w' = [w EXCEPT !.step = "seal",
                            !.act = Max(Requested("propose_evaluation_contract"))]
          /\ UNCHANGED redrafts
    /\ UNCHANGED <<record, data, turns, revisions, callers, bounds>>

\* The candidate is sealed as an artifact, or rejected: for a redraft, or for
\* a human when the task's resource profile rules it out.
SealCandidate ==
    /\ w.step = "seal"
    /\ \/ /\ actions' = [actions EXCEPT ![w.act].sealed = TRUE]
          /\ MoveTo("HONEYDEW_REVIEWING_CONTRACT", "review_contract")
          /\ UNCHANGED redrafts
       \/ /\ SetStatus(w.act, "REJECTED")
          /\ redrafts' = redrafts + 1
          /\ IF redrafts + 1 >= MaxRedrafts THEN Raise ELSE Begin("draft_contract")
       \/ SetStatus(w.act, "REJECTED") /\ AskHuman /\ UNCHANGED redrafts
    /\ UNCHANGED <<record, protocol, report, compatible, submitted, turns,
                   revisions, callers, bounds>>

\* Honeydew's verdict; the store refuses one on an action no longer pending.
ReviewContract ==
    /\ w.step = "after" /\ w.phase = "review_contract"
    /\ IF actions[w.act].status # "PENDING"
       THEN Raise /\ UNCHANGED actions
       ELSE \/ /\ SetStatus(w.act, "REJECTED")
               /\ MoveTo("BEAKER_DRAFTING_CONTRACT", "draft_contract")
            \/ /\ actions' = [actions EXCEPT ![w.act].honeydew = TRUE]
               /\ MoveTo("AWAITING_CONTRACT_PROMOTION", "end")
    /\ UNCHANGED <<record, protocol, report, compatible, submitted, counts,
                   callers, bounds>>

\* _promote_contract_candidate: the run is bound to the sealed candidate,
\* fails closed on a conflict that no resume can repair, or raises.
PromoteContract ==
    /\ w.step = "begin" /\ w.phase = "promote"
    /\ \/ /\ actions[w.act].sealed
          /\ compatible' = TRUE
          /\ MoveTo("BEAKER_PLANNING", "plan")
          /\ UNCHANGED <<record, faults>>
       \/ /\ actions[w.act].sealed
          /\ FailRun /\ Finish
          /\ UNCHANGED <<compatible, faults>>
       \/ /\ IF actions[w.act].sealed
             THEN faults < MaxFaults /\ faults' = faults + 1
             ELSE faults' = faults
          /\ Raise
          /\ UNCHANGED <<record, compatible>>
    /\ UNCHANGED <<actions, protocol, report, submitted, counts, callers, crashes, calls>>

----------------------------------------------------------------------------
(* Plan, implementation and methodology.                                   *)

Plan ==
    /\ w.step = "after" /\ w.phase = "plan"
    /\ MoveTo("BEAKER_IMPLEMENTING", "implement")
    /\ UNCHANGED <<record, data, counts, callers, bounds>>

\* The plan file may be missing; so may, before finalizing, the code.
BeginImplement ==
    /\ w.step = "begin" /\ w.phase \in {"implement", "finalize"}
    /\ \/ StartTurn(Len(actions), 0)
       \/ /\ IF w.phase = "implement"
             THEN MoveTo("BEAKER_PLANNING", "plan")
             ELSE MoveTo("BEAKER_IMPLEMENTING", "implement")
          /\ UNCHANGED <<state, turns>>
    /\ UNCHANGED <<resume, data, revisions, redrafts, callers, bounds>>

\* The end of _beaker_implement, _beaker_finalize and _beaker_revise: a turn
\* that proposes a matrix is reviewed, one that does not costs a revision.
ProposeMatrix ==
    /\ w.step = "after" /\ w.phase \in {"implement", "finalize", "revise"}
    /\ IF Requested("submit_experiment_matrix") # {}
       THEN MoveTo("HONEYDEW_REVIEWING", "review")
       ELSE Begin("revision")
    /\ UNCHANGED <<record, data, counts, callers, bounds>>

\* _honeydew_review up to its turn.  The deterministic preflight rejects the
\* matrix for a revision, or for good: then the run is paused.
BeginReview ==
    /\ w.step = "begin" /\ w.phase = "review"
    /\ IF PendingMatrices = {}
       THEN Raise /\ UNCHANGED <<record, actions, turns>>
       ELSE \/ StartTurn(Max(PendingMatrices), 0) /\ UNCHANGED <<resume, actions>>
            \/ /\ SetStatus(Max(PendingMatrices), "REJECTED")
               /\ AskHuman \/ Begin("revision")
               /\ UNCHANGED <<record, turns>>
    /\ UNCHANGED <<protocol, report, compatible, submitted, revisions, redrafts,
                   callers, bounds>>

Review ==
    /\ w.step = "after" /\ w.phase = "review"
    /\ \/ SetStatus(w.act, "REJECTED") /\ Begin("revision")
       \/ /\ actions' = [actions EXCEPT ![w.act].honeydew = TRUE]
          /\ MoveTo("AWAITING_EXECUTION_APPROVAL", "end")
    /\ UNCHANGED <<record, protocol, report, compatible, submitted, counts,
                   callers, bounds>>

\* _request_methodology_revision counts the revision, moves the run, and
\* hands it to a human once the budget is spent.
CountRevision ==
    /\ w.step = "begin" /\ w.phase = "revision"
    /\ revisions' = revisions + 1
    /\ IF state # "BEAKER_REVISING"
       THEN MoveTo("BEAKER_REVISING", "budget")
       ELSE Begin("budget")
    /\ UNCHANGED <<record, data, turns, redrafts, callers, bounds>>

CheckRevisions ==
    /\ w.step = "begin" /\ w.phase = "budget"
    /\ IF revisions > MaxRevisions
       THEN AskHuman
       ELSE Begin("revise")
    /\ UNCHANGED <<record, data, counts, callers, bounds>>

----------------------------------------------------------------------------
(* Execution, analysis and report.                                         *)

\* _submit_matrix: its jobs are created, then the run is looked at again.  A
\* deterministic failure of a first approval, before any job exists, is sent
\* back to Beaker; any other reaches the driver.
SubmitMatrix ==
    /\ w.step = "begin" /\ w.phase = "submit"
    /\ \/ /\ state = "AWAITING_EXECUTION_APPROVAL"
          /\ submitted' = submitted \cup {w.act}
          /\ w' = [w EXCEPT !.step = "queue"]
          /\ UNCHANGED <<actions, faults>>
       \/ /\ state = "AWAITING_EXECUTION_APPROVAL"
          /\ w.driver = "approve" /\ w.act \notin submitted
          /\ faults < MaxFaults /\ faults' = faults + 1
          /\ SetStatus(w.act, "EXECUTION_FAILED")
          /\ w' = [w EXCEPT !.phase = "repair", !.driver = "repair"]
          /\ UNCHANGED submitted
       \/ /\ state = "AWAITING_EXECUTION_APPROVAL"
          /\ faults < MaxFaults /\ faults' = faults + 1
          /\ submitted' \in {submitted, submitted \cup {w.act}}
          /\ Raise
          /\ UNCHANGED actions
       \/ /\ state # "AWAITING_EXECUTION_APPROVAL"
          /\ Raise
          /\ UNCHANGED <<actions, submitted, faults>>
    /\ UNCHANGED <<record, protocol, report, compatible, counts, callers, crashes, calls>>

\* _handle_approved_action_failure after the action is marked.  It handles an
\* exception already: its own, of the turns it goes on to included, is not caught.
RepairMatrix ==
    /\ w.step = "begin" /\ w.phase = "repair"
    /\ LET failed == OfStatus("submit_experiment_matrix", "REJECTED") \cup
                     OfStatus("submit_experiment_matrix", "EXECUTION_FAILED")
       IN  IF state \in TERMINAL_STATES \cup {"PAUSED"}
           THEN Finish /\ UNCHANGED record
           ELSE IF Cardinality(failed) >= MaxRejected
                THEN FailRun /\ Finish
                ELSE MoveTo("BEAKER_REVISING", "revise") /\ UNCHANGED record
    /\ UNCHANGED <<data, counts, callers, bounds>>

QueueJobs ==
    /\ w.step = "queue"
    /\ IF state = "AWAITING_EXECUTION_APPROVAL"
       THEN MoveTo("JOB_QUEUED", "jobs")
       ELSE Raise
    /\ UNCHANGED <<record, data, counts, callers, bounds>>

\* _fill_job_capacity, at the level of the wave: some job is still active, or
\* all are terminal.  A paused or cancelled run is left alone.
JobsActive ==
    /\ w.step = "begin" /\ w.phase = "jobs"
    /\ IF state = "JOB_QUEUED" THEN MoveTo("JOB_RUNNING", "end") ELSE Finish
    /\ UNCHANGED <<record, data, counts, callers, bounds>>

JobsOver ==
    /\ w.step = "begin" /\ w.phase = "jobs"
    /\ state \in {"JOB_QUEUED", "JOB_RUNNING"}
    /\ MoveTo("BEAKER_ANALYZING", "analyze")
    /\ UNCHANGED <<record, data, counts, callers, bounds>>

\* The watcher's reconcile_run.
Reconcile ==
    /\ w.step = "idle"
    /\ state \in {"JOB_QUEUED", "JOB_RUNNING"}
    /\ w' = [Idle EXCEPT !.step = "begin", !.phase = "jobs", !.driver = "watcher"]
    /\ left' = FALSE
    /\ UNCHANGED <<record, data, counts, pausing, cancelling, recovering, bounds>>

\* The actions the analysis turn requests are recorded and not looked at.
Analyze ==
    /\ w.step = "after" /\ w.phase = "analyze"
    /\ MoveTo("HONEYDEW_VERIFYING", "verify")
    /\ UNCHANGED <<record, data, counts, callers, bounds>>

\* Unresolved claims or an unfinished verification start a new wave with a
\* fresh revision budget.
Verify ==
    /\ w.step = "after" /\ w.phase = "verify"
    /\ \/ revisions' = 0 /\ MoveTo("BEAKER_REVISING", "revise")
       \/ UNCHANGED revisions /\ MoveTo("HONEYDEW_WRITING_REPORT", "write_report")
    /\ UNCHANGED <<record, data, turns, redrafts, callers, bounds>>

\* Mutant: the action to accept the report is left for after the transition.
WriteReportFirst ==
    /\ w.step = "after" /\ w.phase = "write_report"
    /\ report' = report + 1
    /\ MoveTo("AWAITING_FINAL_ACCEPTANCE", "end")
    /\ UNCHANGED <<record, actions, protocol, compatible, submitted, counts,
                   callers, bounds>>

\* The report is stored with the action to accept it, or cannot be found
\* although its repairs are spent.
WriteReport ==
    /\ w.step = "after" /\ w.phase = "write_report"
    /\ \/ /\ report' = report + 1
          /\ actions' = Append(actions, NewAction("accept_final_report", report + 1))
          /\ MoveTo("AWAITING_FINAL_ACCEPTANCE", "end")
       \/ w.repairs >= MaxReportRepairs /\ AskHuman /\ UNCHANGED <<report, actions>>
    /\ UNCHANGED <<record, protocol, compatible, submitted, counts, callers,
                   bounds>>

----------------------------------------------------------------------------
(* Decisions of the humans.                                                *)

\* Contract and matrix need Honeydew's approval before a human's.
NeedsHoneydew(a) ==
    a.type \in {"propose_evaluation_contract", "submit_experiment_matrix"}

Decide(i, driver) ==
    w' = [Idle EXCEPT !.step = "decide", !.act = i, !.driver = driver]

\* Mutant: approval without Honeydew's half.
approve_action_unreviewed(i) ==
    /\ w.step = "idle"
    /\ \/ actions[i].status = "APPROVED" /\ Decide(i, "reapprove") /\ UNCHANGED actions
       \/ actions[i].status = "PENDING" /\ SetStatus(i, "APPROVED") /\ Decide(i, "approve")
    /\ UNCHANGED <<record, protocol, report, compatible, submitted, counts,
                   callers, bounds>>

\* A first approval commits the decision; a second one only acts on it again.
approve_action(i) ==
    /\ w.step = "idle"
    /\ \/ /\ actions[i].status = "APPROVED"
          /\ Decide(i, "reapprove")
          /\ UNCHANGED actions
       \/ /\ actions[i].status = "PENDING"
          /\ NeedsHoneydew(actions[i]) => actions[i].honeydew
          /\ SetStatus(i, "APPROVED")
          /\ Decide(i, "approve")
    /\ UNCHANGED <<record, protocol, report, compatible, submitted, counts,
                   callers, bounds>>

\* A second rejection acts again only for the newest action of its type ("other"
\* stands for several types).
reject_action(i) ==
    /\ w.step = "idle"
    /\ \/ /\ actions[i].status = "REJECTED"
          /\ actions[i].type # "other" => i = Max(OfType(actions[i].type))
          /\ UNCHANGED actions
       \/ actions[i].status = "PENDING" /\ SetStatus(i, "REJECTED")
    /\ Decide(i, "reject")
    /\ UNCHANGED <<record, protocol, report, compatible, submitted, counts,
                   callers, bounds>>

\* The state a decision on an action of this type is for.
Gate(type) ==
    CASE type = "approve_protocol" -> "AWAITING_PROTOCOL_APPROVAL"
      [] type = "propose_evaluation_contract" -> "AWAITING_CONTRACT_PROMOTION"
      [] type = "submit_experiment_matrix" -> "AWAITING_EXECUTION_APPROVAL"
      [] type = "accept_final_report" -> "AWAITING_FINAL_ACCEPTANCE"
      [] type = "other" -> "NONE"

\* _resume_approved_action(actions[i]).
ActOnApproval(i) ==
    IF state # Gate(actions[i].type) THEN Finish
    ELSE CASE actions[i].type = "approve_protocol" ->
                IF compatible
                THEN MoveTo("BEAKER_PLANNING", "plan")
                ELSE MoveTo("BEAKER_DRAFTING_CONTRACT", "draft_contract")
           [] actions[i].type = "propose_evaluation_contract" -> BeginOn("promote", i)
           [] actions[i].type = "submit_experiment_matrix" -> BeginOn("submit", i)
           [] actions[i].type = "accept_final_report" -> MoveTo("COMPLETE", "end")

\* _resume_rejected_action: the phase that has to be done again; a type it
\* does not know fails the run, wherever the run is.
ActOnRejection(i) ==
    IF state # Gate(actions[i].type) THEN Finish
    ELSE CASE actions[i].type = "approve_protocol" ->
                MoveTo("HONEYDEW_DRAFTING_PROTOCOL", "draft")
           [] actions[i].type = "propose_evaluation_contract" ->
                MoveTo("BEAKER_DRAFTING_CONTRACT", "draft_contract")
           [] actions[i].type = "submit_experiment_matrix" ->
                MoveTo("BEAKER_REVISING", "revise")
           [] actions[i].type = "accept_final_report" ->
                MoveTo("HONEYDEW_WRITING_REPORT", "write_report")

\* Mutant: a rejection is acted on like an approval.
ResumeDecidedAlike ==
    /\ w.step = "decide"
    /\ ActOnApproval(w.act)
    /\ UNCHANGED <<record, data, counts, callers, bounds>>

ResumeDecided ==
    /\ w.step = "decide"
    /\ IF w.driver = "reject" THEN ActOnRejection(w.act) ELSE ActOnApproval(w.act)
    /\ IF w.driver = "reject" /\ actions[w.act].type = "other"
       THEN FailRun
       ELSE UNCHANGED record
    /\ UNCHANGED <<data, counts, callers, bounds>>

----------------------------------------------------------------------------
(* Pause, resume and cancel.                                               *)

PauseRead ==
    /\ pausing = "NONE"
    /\ state \notin TERMINAL_STATES \cup {"PAUSED"}
    /\ pausing' = state
    /\ calls < MaxCalls /\ calls' = calls + 1
    /\ UNCHANGED <<record, data, counts, w, cancelling, recovering, left, faults, crashes>>

\* The transition is validated against the row as it is by now.
PauseWrite ==
    /\ pausing # "NONE"
    /\ pausing' = "NONE"
    /\ IF ValidTransition(state, "PAUSED")
       THEN state' = "PAUSED" /\ resume' = pausing
       ELSE UNCHANGED record
    /\ UNCHANGED <<data, counts, w, cancelling, recovering, left, bounds>>

\* The workspace is seeded again after the transition and outside the handler
\* that pauses: when that fails nobody drives the run.
resume_run ==
    /\ w.step = "idle"
    /\ state = "PAUSED" /\ resume # "NONE"
    /\ state' = resume /\ resume' = "NONE"
    /\ \/ /\ w' = [Idle EXCEPT !.step = "recover", !.driver = "resume"]
          /\ left' = FALSE /\ faults' = faults
       \/ /\ faults < MaxFaults /\ faults' = faults + 1
          /\ left' = TRUE /\ UNCHANGED w
    /\ UNCHANGED <<data, counts, pausing, cancelling, recovering, crashes, calls>>

CancelRequest ==
    /\ ~cancelling
    /\ state \notin TERMINAL_STATES
    /\ cancelling' = TRUE
    /\ calls < MaxCalls /\ calls' = calls + 1
    /\ UNCHANGED <<record, data, counts, w, pausing, recovering, left, faults, crashes>>

\* Once every job is cancelled; a job that cannot be makes the call fail.
cancel_run ==
    /\ cancelling /\ w.step = "idle"
    /\ cancelling' = FALSE
    /\ \/ /\ state' = IF ValidTransition(state, "CANCELLED") THEN "CANCELLED" ELSE state
          /\ faults' = faults
       \/ /\ faults < MaxFaults /\ faults' = faults + 1
          /\ state' = state
    /\ UNCHANGED <<resume, data, counts, w, pausing, recovering, left, crashes, calls>>

----------------------------------------------------------------------------
(* Crash and recovery.                                                     *)

\* The process dies.  The deployment that replaces it may have installed
\* contracts the run's binding no longer agrees with.
Crash ==
    /\ crashes < MaxCrashes
    /\ crashes' = crashes + 1
    /\ Finish
    /\ pausing' = "NONE" /\ cancelling' = FALSE
    /\ recovering' = TRUE
    /\ compatible' \in {compatible, FALSE}
    /\ UNCHANGED <<record, actions, protocol, report, submitted, counts, left,
                   faults, calls>>

\* recover() reaches the run and takes it up unless it is terminal; or its
\* thread has died of what it did for another run, and is not started again.
recover ==
    /\ recovering /\ w.step = "idle"
    /\ recovering' = FALSE
    /\ \/ /\ w' = IF state \in TERMINAL_STATES THEN Idle
                  ELSE [Idle EXCEPT !.step = "recover", !.driver = "recover"]
          /\ left' = FALSE /\ faults' = faults
       \/ /\ faults < MaxFaults /\ faults' = faults + 1
          /\ left' = TRUE /\ UNCHANGED w
    /\ UNCHANGED <<record, data, counts, pausing, cancelling, crashes, calls>>

ContractSensitive ==
    {"BEAKER_PLANNING", "BEAKER_IMPLEMENTING", "BEAKER_FINALIZING",
     "HONEYDEW_REVIEWING", "BEAKER_REVISING", "AWAITING_EXECUTION_APPROVAL"}

\* The phase a state is re-entered through.
PhaseOf ==
    [s \in {"HONEYDEW_DRAFTING_PROTOCOL", "BEAKER_DRAFTING_CONTRACT",
            "BEAKER_PLANNING", "BEAKER_FINALIZING", "BEAKER_REVISING",
            "JOB_QUEUED", "JOB_RUNNING", "BEAKER_ANALYZING",
            "HONEYDEW_VERIFYING", "HONEYDEW_WRITING_REPORT"} |->
       CASE s = "HONEYDEW_DRAFTING_PROTOCOL" -> "draft"
         [] s = "BEAKER_DRAFTING_CONTRACT" -> "draft_contract"
         [] s = "BEAKER_PLANNING" -> "plan"
         [] s = "BEAKER_FINALIZING" -> "finalize"
         [] s = "BEAKER_REVISING" -> "revise"
         [] s \in {"JOB_QUEUED", "JOB_RUNNING"} -> "jobs"
         [] s = "BEAKER_ANALYZING" -> "analyze"
         [] s = "HONEYDEW_VERIFYING" -> "verify"
         [] s = "HONEYDEW_WRITING_REPORT" -> "write_report"]

\* Mutant: a final report that was not accepted completes the run.
ReenterAccepting ==
    CASE state \in DOMAIN PhaseOf -> Begin(PhaseOf[state])
      [] state = "AWAITING_FINAL_ACCEPTANCE" -> MoveTo("COMPLETE", "end")
      [] OTHER -> Finish

\* Mutant: recovery leaves every gate to its humans.
ReenterNoGates ==
    CASE state \in DOMAIN PhaseOf -> Begin(PhaseOf[state])
      [] state = "PREPARING" -> MoveTo("HONEYDEW_DRAFTING_PROTOCOL", "draft")
      [] state = "BEAKER_IMPLEMENTING" -> Begin("implement")
      [] state \in {"HONEYDEW_REVIEWING", "HONEYDEW_REVIEWING_CONTRACT"} ->
           MoveTo("BEAKER_DRAFTING_CONTRACT", "draft_contract")
      [] OTHER -> Finish

\* _recover_run outside the branch for an outdated contract.
Reenter ==
    LET approved(type) == OfStatus(type, "APPROVED")
    IN CASE state \in DOMAIN PhaseOf -> Begin(PhaseOf[state])
         [] state = "PREPARING" -> MoveTo("HONEYDEW_DRAFTING_PROTOCOL", "draft")
         [] state = "HONEYDEW_REVIEWING_CONTRACT" ->
              IF Sealed = {} THEN MoveTo("BEAKER_DRAFTING_CONTRACT", "draft_contract")
              ELSE BeginOn("review_contract", Max(Sealed))
         [] state = "AWAITING_CONTRACT_PROMOTION" ->
              IF approved("propose_evaluation_contract") = {} THEN Finish
              ELSE BeginOn("promote", Max(approved("propose_evaluation_contract")))
         [] state = "BEAKER_IMPLEMENTING" ->
              IF PendingMatrices # {} THEN MoveTo("HONEYDEW_REVIEWING", "review")
              ELSE \/ MoveTo("BEAKER_FINALIZING", "finalize")
                   \/ Begin("implement")
         [] state = "HONEYDEW_REVIEWING" ->
              IF PendingMatrices # {} THEN Begin("review")
              ELSE MoveTo("BEAKER_REVISING", "revise")
         [] state = "AWAITING_EXECUTION_APPROVAL" ->
              IF /\ OfType("submit_experiment_matrix") # {}
                 /\ actions[Max(OfType("submit_experiment_matrix"))].status = "APPROVED"
              THEN BeginOn("submit", Max(OfType("submit_experiment_matrix")))
              ELSE Finish
         [] state = "AWAITING_FINAL_ACCEPTANCE" ->
              IF approved("accept_final_report") = {} THEN Finish
              ELSE MoveTo("COMPLETE", "end")
         [] OTHER -> Finish

RecoverRun ==
    /\ w.step = "recover"
    /\ IF state \in ContractSensitive /\ ~compatible
       THEN /\ actions' = [i \in DOMAIN actions |->
                             IF i \in PendingMatrices
                             THEN [actions[i] EXCEPT !.status = "REJECTED"]
                             ELSE actions[i]]
            /\ MoveTo("BEAKER_DRAFTING_CONTRACT", "draft_contract")
       ELSE UNCHANGED actions /\ Reenter
    /\ UNCHANGED <<record, protocol, report, compatible, submitted, counts,
                   callers, bounds>>

----------------------------------------------------------------------------

\* What the holder of the lock does next.
Work ==
    \/ Move \/ BeginTurn \/ EndTurn \/ Handle \/ PauseForHuman
    \/ RecordAction \/ RepairTurn
    \/ Prepare \/ DraftProtocol
    \/ BeginDraftContract \/ RecordCandidate \/ SealCandidate
    \/ ReviewContract \/ PromoteContract
    \/ Plan \/ BeginImplement \/ ProposeMatrix \/ BeginReview \/ Review
    \/ CountRevision \/ CheckRevisions
    \/ SubmitMatrix \/ RepairMatrix \/ QueueJobs \/ JobsActive \/ JobsOver
    \/ Analyze \/ Verify \/ WriteReport
    \/ ResumeDecided \/ RecoverRun

Human ==
    \/ \E i \in DOMAIN actions : approve_action(i) \/ reject_action(i)
    \/ PauseRead \/ resume_run \/ CancelRequest

Next ==
    \/ Work \/ Human
    \/ Reconcile \/ PauseWrite \/ cancel_run
    \/ Crash \/ recover

Spec == Init /\ [][Next]_vars

(***************************************************************************)
(* Whoever holds the lock goes on, turns end (the runtime has a timeout),  *)
(* and recovery and the watcher get the lock although others keep asking   *)
(* for it.  A wave of jobs ends: that is WavesEnd of JobExecution.         *)
(***************************************************************************)
Fairness ==
    /\ WF_vars(Work)
    /\ SF_vars(recover)
    /\ SF_vars(Reconcile)
    /\ SF_vars(JobsOver)

FairSpec == Spec /\ Fairness

----------------------------------------------------------------------------
(* Properties.                                                             *)

\* Jobs exist only for matrices that Honeydew and a human approved, and
\* never for one that a later step took back (_submit_matrix, update_action).
JobsNeedBothApprovals ==
    \A i \in submitted :
        /\ actions[i].type = "submit_experiment_matrix"
        /\ actions[i].honeydew
        /\ actions[i].status = "APPROVED"

\* The states a run reaches only through the protocol gate.
PastProtocolGate ==
    RunState \ ({"CREATED", "PREPARING", "HONEYDEW_DRAFTING_PROTOCOL",
                 "AWAITING_PROTOCOL_APPROVAL", "PAUSED"} \cup
                {"FAILED", "CANCELLED", "TIMED_OUT"})

\* No work on a contract, an implementation or jobs, before or after a pause
\* and its resume, unless a human approved a protocol (_resume_approved_action).
ProtocolGateHolds ==
    (state \in PastProtocolGate \/ (state = "PAUSED" /\ resume \in PastProtocolGate))
        => OfStatus("approve_protocol", "APPROVED") # {}

\* A run is COMPLETE only if a human accepted a report and the report can
\* rest on jobs (accept_final_report, _submit_matrix).
CompleteIsEarned ==
    state = "COMPLETE" =>
        /\ OfStatus("accept_final_report", "APPROVED") # {}
        /\ submitted # {}

\* A human at the gate still has a decision that moves the run.
Decidable(type) ==
    (state = Gate(type) /\ w.step = "idle") =>
        \E i \in OfType(type) :
            \/ actions[i].status \in {"PENDING", "APPROVED"}
            \/ actions[i].status = "REJECTED" /\ i = Max(OfType(type))

\* What the human has is spent: the newest action was denied by the policy and
\* the one rejected before it no longer counts as the latest, or a matrix failed
\* in execution and Honeydew approved none since.
Spent(type) ==
    \/ \E i \in OfStatus(type, "REJECTED"), n \in OfStatus(type, "DENIED") :
          /\ NeedsHoneydew(actions[i]) => actions[i].honeydew
          /\ \A j \in OfType(type) : j <= n
    \/ \E i \in OfStatus(type, "EXECUTION_FAILED") :
          \A j \in OfType(type) : j > i => ~actions[j].honeydew

\* The protocol gate never leaves its human without an action approve_action or
\* reject_action acts on.  The other gates do in two cases only: a rejection or
\* a failed execution is on record, the run was paused or its process died
\* before it was sent to revision, and that record cannot be decided on again
\* (_is_latest_action_of_type, _handle_approved_action_failure).
GatesAreDecidable ==
    /\ Decidable("approve_protocol")
    /\ \A type \in GateTypes \ {"approve_protocol"} : Decidable(type) \/ Spent(type)

\* "A stale or duplicate approval click is a silent no-op once the run has
\* already advanced": approving a matrix moves the run only if no newer matrix
\* that Honeydew approved is the one the gate waits for (approve_action,
\* _resume_approved_action).
MatrixApprovalIsCurrent ==
    [][(/\ w.step = "decide" /\ w.driver \in {"approve", "reapprove"}
        /\ actions[w.act].type = "submit_experiment_matrix"
        /\ w'.step # "idle")
       => ~\E j \in PendingMatrices : j > w.act /\ actions[j].honeydew]_vars

\* Work ends: a run that agents or jobs are at work on reaches a human, a
\* pause or its end, through every loop of redrafts, revisions, repairs and
\* waves and across a restart, unless an exception ended an operation that does
\* not pause the run and left it undriven (_check_turn_budget, _recover_run).
Settles ==
    (state \in WorkStates \ {"CREATED"})
        ~> (state \in HUMAN_WAIT_STATES \cup {"PAUSED"} \cup TERMINAL_STATES \/ left)

\* The newest contract or matrix is approved and its gate still waits for it.
ApprovalWaits ==
    \E type \in {"propose_evaluation_contract", "submit_experiment_matrix"} :
        /\ state = Gate(type) /\ OfType(type) # {}
        /\ actions[Max(OfType(type))].status = "APPROVED"

\* A committed approval is not lost: the run leaves its gate or the matrix is
\* put on record as failed, although the process restarts in between, unless
\* the operation that acts on it died (approve_action, _recover_run).
CommittedApprovalActs == ApprovalWaits ~> (~ApprovalWaits \/ left)
=============================================================================
