----------------------------- MODULE AgentTurn -----------------------------
(***************************************************************************)
(* One bounded agent turn of a run, with everything that may go wrong in   *)
(* it: _run_agent_turn, the retries, automatic resumes and dependency      *)
(* repairs it enters itself again through, session rotation, pause and     *)
(* resume, and the recovery thread that sweeps interrupted turns at boot.  *)
(* The worker w holds the run's lock.  Pause and the recovery sweep take   *)
(* no lock: they fall between any two of its steps.  A write with an       *)
(* expected version fails (ConcurrencyConflict) when another write came    *)
(* after the writer's read; `raced` says that one came since its last      *)
(* step, so that its read may be from before or from after.  Phases are    *)
(* reduced to whose turn it is; RunLifecycle has them in detail.           *)
(***************************************************************************)
EXTENDS Integers, Sequences, FiniteSetsExt

CONSTANTS
    Agents,          \* Honeydew and Beaker
    MaxTurns,        \* run.maximum_turns
    MaxRetries,      \* settings.agent_turn_max_retries
    MaxResumes,      \* settings.agent_turn_timeout_auto_resume_limit
    MaxRotations,    \* settings.maximum_session_rotations, 0 for no limit
    MinTurns,        \* settings.minimum_turns_between_session_rotations
    MaxFaults,       \* bound on failures of model, runtime and retrieval
    MaxCrashes,      \* bound on restarts
    MaxCalls         \* bound on pauses and cancels an operator asks for

ASSUME TurnAssumption ==
    /\ Agents # {}
    /\ MaxTurns \in Nat \ {0}
    /\ MaxRetries \in Nat
    /\ MaxResumes \in Nat
    /\ MaxRotations \in Nat
    /\ MinTurns \in Nat
    /\ MaxFaults \in Nat
    /\ MaxCrashes \in Nat
    /\ MaxCalls \in Nat

VARIABLES
    state,       \* the run's state: at work, at a human gate, or stopped
    resume,      \* resume_state: a phase, or NoPhase
    agent,       \* whose phase it is
    turn_number,
    session,     \* the session id of each agent, 0 for none
    rotations,   \* session_rotation_count
    marked,      \* last_rotation_turn
    rows,        \* the turns table, oldest first
    w,           \* the holder of the run lock
    r,           \* the recovery thread
    pausing,     \* the phase a pause_run in flight has read, or NoPhase
    created,     \* sessions created so far
    completed,   \* history: completed turns saved so far
    exposed,     \* history: a failed turn's session may have been kept
    faults,
    crashes,
    calls

record == <<state, resume, agent, turn_number, session, rotations, marked>>
threads == <<w, r, pausing>>
history == <<created, completed, exposed>>
bounds == <<faults, crashes, calls>>
vars == <<record, rows, threads, history, bounds>>

Working == {"WORKING", "GATE"}
Over == {"TIMED_OUT", "CANCELLED"}
Stopped == {"PAUSED"} \cup Over

\* A state that may be paused, with the agent whose phase it is.
Phase == [state : Working, agent : Agents]
NoPhase == [state |-> "NONE", agent |-> "NONE"]

\* How a failure is classified: worth a retry, a wall-clock abort, a broken
\* dependency tree, or deterministic.
Failures == {"retryable", "turn_timeout", "dependency", "other"}

\* Why a session is rotated: its turn failed, its context is too large, it is
\* too large again and again, a resume finds a failed turn on it.
Reasons == {"failure", "history", "churn", "resume"}

Steps ==
    {"idle", "begin", "history", "rotate", "count", "escalate", "session",
     "charge", "row", "guard", "model", "save", "finish", "return", "fail",
     "repair", "rollback", "decide", "retry", "raise", "unpause"}

\* The steps that write the run record with the version they read.
Writing == {"history", "rotate", "count", "charge", "finish", "rollback", "retry"}

\* The turn has its row, which is not yet ended.
Attempt == {"guard", "model", "save", "fail"}

\* A charged turn is in progress.
Charged == {"row", "guard", "model", "save", "fail", "repair", "rollback",
            "decide", "retry"}

\* What the thread that called into the run does when a turn raises: approve,
\* resume and recovery pause the run, the others leave it as it is.
Drivers == {"none", "pauses", "leaves"}

Idle ==
    [pc |-> "idle", sid |-> 0, row |-> 0, failure |-> "none", why |-> "none",
     repaired |-> FALSE, resumes |-> 0, corrected |-> FALSE,
     start |-> 0, raced |-> FALSE, driver |-> "none"]

\* The last two fields are history: a call entered the run before the sweep
\* was through with it, and the running turns that a sweep which died left.
NoRecovery ==
    [pc |-> "off", seen |-> {}, listed |-> {}, raced |-> FALSE,
     overtaken |-> FALSE, left |-> {}]

Row == [agent : Agents, session : Nat,
        status : {"running", "completed", "failed"},
        error : Failures \cup {"none", "restart"}]

\* Type invariant; turn_number stays within the budget _check_turn_budget
\* enforces and the rotation count within its cap.
TypeOK ==
    /\ state \in Working \cup Stopped
    /\ resume \in Phase \cup {NoPhase}
    /\ agent \in Agents
    /\ turn_number \in 0..MaxTurns
    /\ session \in [Agents -> 0..created]
    /\ rotations \in Nat /\ (MaxRotations > 0 => rotations <= MaxRotations)
    /\ marked \in 0..MaxTurns
    /\ rows \in Seq(Row)
    /\ w \in [pc : Steps, sid : 0..created, row : 0..Len(rows),
              failure : Failures \cup {"none"}, why : Reasons \cup {"none"},
              repaired : BOOLEAN, resumes : 0..MaxResumes,
              corrected : BOOLEAN, start : 0..MaxTurns, raced : BOOLEAN,
              driver : Drivers]
    /\ r \in [pc : {"off", "boot", "scan", "list", "mark", "rotate", "lock"},
              seen : SUBSET DOMAIN rows, listed : SUBSET DOMAIN rows,
              raced : BOOLEAN, overtaken : BOOLEAN, left : SUBSET DOMAIN rows]
    /\ pausing \in Phase \cup {NoPhase}
    /\ created \in Nat
    /\ completed \in 0..MaxTurns
    /\ exposed \in BOOLEAN
    /\ faults \in 0..MaxFaults
    /\ crashes \in 0..MaxCrashes
    /\ calls \in 0..MaxCalls

NewCall(driver) ==
    [Idle EXCEPT !.pc = "begin", !.driver = driver, !.start = turn_number]

\* create_run holds the lock of the run it stored and runs the first turn.
Init ==
    /\ state = "WORKING"
    /\ agent \in Agents
    /\ resume = NoPhase
    /\ turn_number = 0
    /\ session = [a \in Agents |-> 0]
    /\ rotations = 0 /\ marked = 0
    /\ rows = << >>
    /\ w = NewCall("leaves")
    /\ r = NoRecovery
    /\ pausing = NoPhase
    /\ created = 0 /\ completed = 0 /\ exposed = FALSE
    /\ faults = 0 /\ crashes = 0 /\ calls = 0

----------------------------------------------------------------------------
(* Helpers.                                                                *)

Go(pc) == w' = [w EXCEPT !.pc = pc, !.raced = FALSE]

\* An exception leaves the turn; only who called it matters from there on.
Raise == w' = [Idle EXCEPT !.pc = "raise", !.driver = w.driver, !.start = w.start]

\* A write of the run record by the worker or by pause: the recovery thread's
\* next write may find its version taken.
Bump == r' = [r EXCEPT !.raced = r.pc = "rotate"]

\* replace_run(expected_version): another write came after the read.
Conflict == w.raced /\ Raise /\ UNCHANGED <<record, r>>

\* The phase that a pause would go back to.
Here == [state |-> state, agent |-> agent]

Fault == faults < MaxFaults /\ faults' = faults + 1

\* The recovery thread has still to sweep the run.
Sweeping == r.pc \in {"boot", "scan", "list", "mark", "rotate"}

Running == {i \in DOMAIN rows : rows[i].status = "running"}

\* The row of the turn that the worker is going to end.
Mine == IF w.pc \in Attempt THEN {w.row} ELSE {}

FailedTurns(a) == {i \in DOMAIN rows : rows[i].agent = a /\ rows[i].status = "failed"}

\* A session on which a turn failed, or was interrupted, for a reason other
\* than the dependency tree outside it.
Poisoned(s) ==
    \E i \in DOMAIN rows :
       /\ rows[i].session = s
       /\ rows[i].status = "failed"
       /\ rows[i].error # "dependency"

----------------------------------------------------------------------------
(* _run_agent_turn, up to the model.                                       *)

\* Mutant: the budget admits one turn more.
CheckTurnBudgetOneMore ==
    /\ w.pc = "begin"
    /\ turn_number <= MaxTurns
    /\ w' = [w EXCEPT !.pc = "history", !.raced = FALSE, !.sid = session[agent]]
    /\ UNCHANGED <<record, rows, r, pausing, history, bounds>>

\* _check_turn_budget: an exhausted budget of turns, or of active runtime,
\* times the run out; a paused run cannot be moved there.
CheckTurnBudget ==
    /\ w.pc = "begin"
    /\ \/ /\ state' = IF state = "WORKING" THEN "TIMED_OUT" ELSE state
          /\ Raise /\ Bump
       \/ /\ turn_number < MaxTurns
          /\ w' = [w EXCEPT !.pc = "history", !.raced = FALSE, !.sid = session[agent]]
          /\ UNCHANGED <<state, r>>
    /\ UNCHANGED <<resume, agent, turn_number, session, rotations, marked, rows,
                   pausing, history, bounds>>

\* The churn limit is reached, unless it is disabled.
Churned == MaxRotations > 0 /\ rotations >= MaxRotations

\* The last of a series of rotations is too recent for another.
TooSoon == rotations > 0 /\ MinTurns > 0 /\ turn_number - marked < MinTurns

\* Mutant: the floor between two rotations is forgotten.
MaybeRotateNoFloor ==
    /\ w.pc = "history"
    /\ \/ Go("session") /\ UNCHANGED <<record, r>>
       \/ /\ w.sid # 0
          /\ w' = [w EXCEPT !.pc = "rotate", !.raced = FALSE,
                     !.why = IF Churned THEN "churn" ELSE "history"]
          /\ UNCHANGED <<record, r>>
    /\ UNCHANGED <<rows, pausing, history, bounds>>

\* _maybe_rotate_turn_history: a context below the threshold clears the count
\* of rotations; one above it rotates the session, unless the last rotation
\* is too recent, and after too many the run is paused.
MaybeRotateTurnHistory ==
    /\ w.pc = "history"
    /\ \/ w.sid = 0 /\ Go("session") /\ UNCHANGED <<record, r>>
       \/ w.sid # 0 /\ rotations = 0 /\ Go("session") /\ UNCHANGED <<record, r>>
       \/ /\ w.sid # 0 /\ rotations > 0 /\ ~w.raced
          /\ rotations' = 0
          /\ Go("session") /\ Bump
          /\ UNCHANGED <<state, resume, agent, turn_number, session, marked>>
       \/ w.sid # 0 /\ rotations > 0 /\ Conflict
       \/ /\ w.sid # 0 /\ ~Churned /\ TooSoon
          /\ Go("session") /\ UNCHANGED <<record, r>>
       \/ /\ w.sid # 0 /\ (Churned \/ ~TooSoon)
          /\ w' = [w EXCEPT !.pc = "rotate", !.raced = FALSE,
                     !.why = IF Churned THEN "churn" ELSE "history"]
          /\ UNCHANGED <<record, r>>
    /\ UNCHANGED <<rows, pausing, history, bounds>>

\* _rotate_agent_session clears the session in the run record, then writes
\* the checkpoint file, which may fail.
RotateAgentSession ==
    /\ w.pc = "rotate"
    /\ \/ /\ session' = [session EXCEPT ![agent] = 0]
          /\ Bump
          /\ \/ /\ w' = [w EXCEPT !.raced = FALSE, !.sid = 0, !.why = "none",
                           !.pc = CASE w.why = "failure" -> "decide"
                                    [] w.why = "history" -> "count"
                                    [] w.why = "churn" -> "escalate"
                                    [] w.why = "resume" -> "unpause"]
                /\ UNCHANGED faults
             \/ Fault /\ Raise
          /\ UNCHANGED <<state, resume, agent, turn_number, rotations, marked>>
       \/ Conflict /\ UNCHANGED faults
    /\ UNCHANGED <<rows, pausing, history, crashes, calls>>

\* The rotation for size is counted.
CountRotation ==
    /\ w.pc = "count"
    /\ \/ /\ rotations' = rotations + 1
          /\ marked' = turn_number
          /\ Go("session") /\ Bump
          /\ UNCHANGED <<state, resume, agent, turn_number, session>>
       \/ Conflict
    /\ UNCHANGED <<rows, pausing, history, bounds>>

\* The churn limit: the engine pauses the run itself, and raises.
EscalateChurn ==
    /\ w.pc = "escalate"
    /\ IF state = "WORKING"
       THEN state' = "PAUSED" /\ resume' = Here
       ELSE UNCHANGED <<state, resume>>
    /\ Raise /\ Bump
    /\ UNCHANGED <<agent, turn_number, session, rotations, marked, rows, pausing,
                   history, bounds>>

\* runtime.ensure_session: the session read before is reopened, or a new one.
EnsureSession ==
    /\ w.pc = "session"
    /\ \/ /\ created' = IF w.sid = 0 THEN created + 1 ELSE created
          /\ w' = [w EXCEPT !.pc = "charge", !.raced = FALSE,
                            !.sid = IF w.sid = 0 THEN created + 1 ELSE w.sid]
          /\ UNCHANGED faults
       \/ Fault /\ Raise /\ UNCHANGED created
    /\ UNCHANGED <<record, rows, r, pausing, completed, exposed, crashes, calls>>

\* The turn is charged and its session recorded before the model works.
ChargeTurn ==
    /\ w.pc = "charge"
    /\ \/ /\ turn_number' = turn_number + 1
          /\ session' = [session EXCEPT ![agent] = w.sid]
          /\ Go("row") /\ Bump
          /\ UNCHANGED <<state, resume, agent, rotations, marked>>
       \/ Conflict
    /\ UNCHANGED <<rows, pausing, history, bounds>>

SaveRunningTurn ==
    /\ w.pc = "row"
    /\ rows' = Append(rows, [agent |-> agent, session |-> w.sid,
                             status |-> "running", error |-> "none"])
    /\ w' = [w EXCEPT !.pc = "guard", !.raced = FALSE, !.row = Len(rows) + 1]
    /\ UNCHANGED <<record, r, pausing, history, bounds>>

\* Mutant: the refusal of a stopped run is raised past the failure handler.
GuardOutsideTry ==
    /\ w.pc = "guard"
    /\ IF state \in Stopped THEN Raise ELSE Go("model")
    /\ UNCHANGED <<record, rows, r, pausing, history, bounds>>

\* Retrieval prepares the prompt; then a paused or terminal run is refused.
Guard ==
    /\ w.pc = "guard"
    /\ \/ /\ state \notin Stopped
          /\ Go("model")
          /\ UNCHANGED faults
       \/ /\ state \in Stopped
          /\ w' = [w EXCEPT !.pc = "fail", !.raced = FALSE, !.failure = "other"]
          /\ UNCHANGED faults
       \/ /\ Fault
          /\ \E f \in {"retryable", "other"} :
                w' = [w EXCEPT !.pc = "fail", !.raced = FALSE, !.failure = f]
    /\ UNCHANGED <<record, rows, r, pausing, history, crashes, calls>>

\* runtime.run_turn: a result, a result of the wrong kind (corrected once), or
\* a failure; an abort by pause or cancel, and a release by recovery, end it
\* in any of these ways.
RunModel ==
    /\ w.pc = "model"
    /\ \/ /\ w' = [w EXCEPT !.pc = "save", !.corrected = FALSE]
          /\ UNCHANGED faults
       \/ /\ Fault /\ ~w.corrected
          /\ w' = [w EXCEPT !.corrected = TRUE, !.raced = FALSE]
       \/ /\ Fault
          /\ \E f \in Failures :
                w' = [w EXCEPT !.pc = "fail", !.failure = f, !.corrected = FALSE]
    /\ UNCHANGED <<record, rows, r, pausing, history, crashes, calls>>

----------------------------------------------------------------------------
(* A completed turn.                                                       *)

SaveCompletedTurn ==
    /\ w.pc = "save"
    /\ rows' = [rows EXCEPT ![w.row].status = "completed"]
    /\ completed' = completed + 1
    /\ Go("finish")
    /\ UNCHANGED <<record, r, pausing, created, exposed, bounds>>

\* Mutant: a failure after the save marks the turn failed.
FinishTurnOverwrites ==
    /\ w.pc = "finish"
    /\ IF state \in Stopped \/ w.raced
       THEN Raise /\ rows' = [rows EXCEPT ![w.row].status = "failed",
                                          ![w.row].error = "other"]
       ELSE Go("return") /\ UNCHANGED rows
    /\ UNCHANGED <<record, r, pausing, history, bounds>>

\* The run is looked at again; a pause in between keeps the completed turn
\* and raises.
FinishTurn ==
    /\ w.pc = "finish"
    /\ \/ state \notin Stopped /\ Go("return") /\ Bump /\ UNCHANGED record
       \/ state \in Stopped /\ Raise /\ UNCHANGED <<record, r>>
       \/ Conflict
    /\ UNCHANGED <<rows, pausing, history, bounds>>

\* The result goes to the phase function, which starts the next phase's turn
\* or stops at a human gate.
ReturnTurn ==
    /\ w.pc = "return"
    /\ \/ /\ state \in Stopped
          /\ Raise /\ UNCHANGED <<record, r>>
       \/ /\ state \notin Stopped
          /\ agent' \in Agents
          /\ \/ w' = NewCall(w.driver) /\ state' = state
             \/ w' = Idle /\ state' = "GATE"
          /\ Bump
          /\ UNCHANGED <<resume, turn_number, session, rotations, marked>>
    /\ UNCHANGED <<rows, pausing, history, bounds>>

----------------------------------------------------------------------------
(* A failed turn.                                                          *)

\* Mutant: the session of a failed turn is kept.
FailTurnKeepSession ==
    /\ w.pc = "fail"
    /\ rows' = [rows EXCEPT ![w.row].status = "failed", ![w.row].error = w.failure]
    /\ Go(IF w.failure = "dependency" THEN "repair" ELSE "decide")
    /\ UNCHANGED <<record, r, pausing, history, bounds>>

\* The failed turn is saved; a broken dependency tree is repaired, any other
\* failure costs the session.
FailTurn ==
    /\ w.pc = "fail"
    /\ rows' = [rows EXCEPT ![w.row].status = "failed", ![w.row].error = w.failure]
    /\ w' = [w EXCEPT !.raced = FALSE, !.why = "failure",
                      !.pc = IF w.failure = "dependency" THEN "repair" ELSE "rotate"]
    /\ UNCHANGED <<record, r, pausing, history, bounds>>

\* _recover_runtime_dependency_failure: one repair per entry that has none
\* behind it, which may fail; once resolved the turn is retried with the
\* automatic resumes forgotten.
RepairDependencies ==
    /\ w.pc = "repair"
    /\ \/ /\ ~w.repaired
          /\ w' = [w EXCEPT !.pc = "retry", !.raced = FALSE, !.repaired = TRUE,
                            !.resumes = 0]
       \/ Go("rollback")
    /\ UNCHANGED <<record, rows, r, pausing, history, bounds>>

\* _rollback_unconsumed_turn_number, and the failure is raised.
RollbackTurnNumber ==
    /\ w.pc = "rollback"
    /\ \/ /\ state \notin Stopped
          /\ turn_number' = turn_number - 1
          /\ Raise /\ Bump
          /\ UNCHANGED <<state, resume, agent, session, rotations, marked>>
       \/ state \in Stopped /\ Raise /\ UNCHANGED <<record, r>>
       \/ Conflict
    /\ UNCHANGED <<rows, pausing, history, bounds>>

\* A wall-clock abort is resumed a bounded number of times in this call, a
\* transient failure is retried while the agent has few failed turns in the
\* run; neither entry passes on that a repair was tried.
DecideRetry ==
    /\ w.pc = "decide"
    /\ \/ /\ w.failure = "turn_timeout" /\ w.resumes < MaxResumes
          /\ w' = [w EXCEPT !.pc = "retry", !.raced = FALSE, !.repaired = FALSE,
                            !.resumes = @ + 1]
       \/ /\ w.failure = "retryable"
          /\ Cardinality(FailedTurns(agent)) <= MaxRetries
          /\ w' = [w EXCEPT !.pc = "retry", !.raced = FALSE, !.repaired = FALSE]
       \/ /\ ~(w.failure = "turn_timeout" /\ w.resumes < MaxResumes)
          /\ ~(w.failure = "retryable" /\ Cardinality(FailedTurns(agent)) <= MaxRetries)
          /\ Raise
    /\ UNCHANGED <<record, rows, r, pausing, history, bounds>>

\* Mutant: the failed attempt's charge is not taken back.
RetryTurnCharged ==
    /\ w.pc = "retry"
    /\ IF state \in Stopped THEN Raise
       ELSE w' = [w EXCEPT !.pc = "begin", !.raced = FALSE, !.sid = 0, !.row = 0,
                           !.failure = "none", !.why = "none"]
    /\ UNCHANGED <<record, rows, r, pausing, history, bounds>>

\* _retry_agent_turn and _auto_resume_turn: the failed attempt's charge is
\* taken back and the turn entered again.
RetryTurn ==
    /\ w.pc = "retry"
    /\ \/ /\ state \notin Stopped
          /\ turn_number' = turn_number - 1
          /\ w' = [w EXCEPT !.pc = "begin", !.raced = FALSE, !.sid = 0, !.row = 0,
                            !.failure = "none", !.why = "none"]
          /\ Bump
          /\ UNCHANGED <<state, resume, agent, session, rotations, marked>>
       \/ state \in Stopped /\ Raise /\ UNCHANGED <<record, r>>
       \/ Conflict
    /\ UNCHANGED <<rows, pausing, history, bounds>>

\* The exception reaches the caller: pause_run (unless its abort fails), or
\* nothing.
CallerHandles ==
    /\ w.pc = "raise"
    /\ \/ /\ w.driver = "pauses" /\ state = "WORKING"
          /\ state' = "PAUSED" /\ resume' = Here
          /\ Bump /\ UNCHANGED faults
       \/ /\ w.driver = "pauses" /\ state = "WORKING"
          /\ Fault /\ UNCHANGED <<state, resume, r>>
       \/ /\ w.driver = "leaves" \/ state # "WORKING"
          /\ UNCHANGED <<state, resume, r, faults>>
    /\ w' = Idle
    /\ UNCHANGED <<agent, turn_number, session, rotations, marked, rows, pausing,
                   history, crashes, calls>>

----------------------------------------------------------------------------
(* Operators, the watcher, crashes.                                        *)

\* A human decides at the gate, or the watcher moves on after the jobs.
EnterFromGate ==
    /\ w.pc = "idle" /\ state = "GATE"
    /\ state' = "WORKING"
    /\ agent' \in Agents
    /\ \E d \in {"pauses", "leaves"} : w' = NewCall(d)
    /\ exposed' = (exposed \/ Sweeping)
    /\ r' = [r EXCEPT !.raced = r.pc = "rotate", !.overtaken = Sweeping]
    /\ UNCHANGED <<resume, turn_number, session, rotations, marked, rows, pausing,
                   created, completed, bounds>>

\* pause_run takes no lock: it reads the run and aborts its sessions.
PauseRun ==
    /\ pausing = NoPhase /\ calls < MaxCalls /\ state \in Working
    /\ pausing' = Here
    /\ calls' = calls + 1
    /\ UNCHANGED <<record, rows, w, r, history, faults, crashes>>

\* Then it writes, if the run may still be paused; or the abort failed.  The
\* phase it goes back to may be stale: a gate passed since, or another agent's.
PauseCommits ==
    /\ pausing # NoPhase
    /\ pausing' = NoPhase
    /\ \/ /\ state \in Working
          /\ state' = "PAUSED" /\ resume' = pausing
          /\ w' = [w EXCEPT !.raced = w.pc \in Writing]
          /\ exposed' = \/ exposed
                        \/ pausing.state # state
                        \/ state = "WORKING" /\ pausing.agent # agent
          /\ Bump /\ UNCHANGED faults
       \/ state \in Stopped /\ UNCHANGED <<state, resume, w, r, exposed, faults>>
       \/ Fault /\ UNCHANGED <<state, resume, w, r, exposed>>
    /\ UNCHANGED <<agent, turn_number, session, rotations, marked, rows, created,
                   completed, crashes, calls>>

\* resume_run turns to the phase of resume_state, and rotates that agent's
\* session if its newest failed turn ran on it.
ResumeRun ==
    /\ w.pc = "idle" /\ state = "PAUSED"
    /\ agent' = resume.agent
    /\ LET failed == FailedTurns(resume.agent)
           attached ==
             /\ resume.state = "WORKING" /\ session[resume.agent] # 0
             /\ failed # {}
             /\ rows[Max(failed)].session = session[resume.agent]
       IN w' = [Idle EXCEPT !.driver = "leaves", !.start = turn_number,
                  !.pc = IF attached THEN "rotate" ELSE "unpause",
                  !.why = IF attached THEN "resume" ELSE "none"]
    /\ exposed' = (exposed \/ Sweeping)
    /\ r' = [r EXCEPT !.overtaken = Sweeping]
    /\ UNCHANGED <<state, resume, turn_number, session, rotations, marked, rows,
                   pausing, created, completed, bounds>>

\* The run goes back to where it was with a fresh count of rotations, and the
\* phase is entered again; seeding the worktree in between may fail.
Unpause ==
    /\ w.pc = "unpause"
    /\ state' = resume.state /\ resume' = NoPhase
    /\ rotations' = 0
    /\ \/ /\ w' = (IF resume.state = "WORKING" THEN NewCall("pauses") ELSE Idle)
          /\ UNCHANGED faults
       \/ Fault /\ w' = Idle
    /\ Bump
    /\ UNCHANGED <<agent, turn_number, session, marked, rows, pausing, history,
                   crashes, calls>>

\* cancel_run waits for the lock.
CancelRun ==
    /\ w.pc = "idle" /\ calls < MaxCalls /\ state \in Working \cup {"PAUSED"}
    /\ state' = "CANCELLED"
    /\ calls' = calls + 1
    /\ Bump
    /\ UNCHANGED <<resume, agent, turn_number, session, rotations, marked, rows, w,
                   pausing, history, faults, crashes>>

\* The process dies and starts again with a recovery thread.
Crash ==
    /\ crashes < MaxCrashes
    /\ crashes' = crashes + 1
    /\ w' = Idle /\ pausing' = NoPhase
    /\ r' = [NoRecovery EXCEPT !.pc = "boot"]
    /\ exposed' = (exposed \/ \E a \in Agents : Poisoned(session[a]))
    /\ UNCHANGED <<record, rows, created, completed, faults, calls>>

----------------------------------------------------------------------------
(* recover(): the sweep takes no lock, only the re-entry does.             *)

\* list_active_runs, once for all runs: a run that is over is not visited.
RecoverBoot ==
    /\ r.pc = "boot"
    /\ r' = IF state \in Over THEN NoRecovery ELSE [r EXCEPT !.pc = "scan"]
    /\ UNCHANGED <<record, rows, w, pausing, history, bounds>>

\* The thread dies before it comes to the run: its backfill of artifacts, its
\* attaching of threads, or its work on an earlier run raised outside the try.
\* Nothing starts it again before the next restart.
RecoverDies ==
    /\ r.pc \in {"boot", "scan"}
    /\ Fault
    /\ r' = [NoRecovery EXCEPT !.left = Running \ Mine]
    /\ exposed' = (exposed \/ Running \ Mine # {})
    /\ UNCHANGED <<record, rows, w, pausing, created, completed, crashes, calls>>

RecoverScan ==
    /\ r.pc = "scan"
    /\ r' = [r EXCEPT !.pc = "list", !.seen = Running]
    /\ UNCHANGED <<record, rows, w, pausing, history, bounds>>

\* mark_running_turns_interrupted reads the turns again ...
RecoverList ==
    /\ r.pc = "list"
    /\ r' = IF Running = {} THEN [NoRecovery EXCEPT !.pc = "lock"]
            ELSE [r EXCEPT !.pc = "mark", !.listed = Running]
    /\ UNCHANGED <<record, rows, w, pausing, history, bounds>>

\* ... and rewrites each, whatever became of it since.
RecoverMark ==
    /\ r.pc = "mark"
    /\ LET i == Min(r.listed)
           rest == r.listed \ {i}
       IN /\ rows' = [rows EXCEPT ![i].status = "failed", ![i].error = "restart"]
          /\ r' = [r EXCEPT !.listed = rest,
                     !.pc = CASE rest # {} -> "mark"
                              [] rest = {} /\ r.seen # {} -> "rotate"
                              [] OTHER -> "lock"]
    /\ UNCHANGED <<record, w, pausing, history, bounds>>

\* Mutant: recovery takes the charge of an interrupted turn back.
RecoverRotateRefunds ==
    /\ r.pc = "rotate"
    /\ LET i == Min(r.seen)
           rest == r.seen \ {i}
       IN /\ session' = [session EXCEPT ![rows[i].agent] = 0]
          /\ r' = [r EXCEPT !.seen = rest, !.raced = FALSE,
                            !.pc = IF rest = {} THEN "lock" ELSE "rotate"]
          /\ w' = [w EXCEPT !.raced = w.pc \in Writing]
    /\ turn_number' = turn_number - 1
    /\ UNCHANGED <<state, resume, agent, rotations, marked, rows, pausing, history,
                   bounds>>

\* The sessions of the turns seen first are cleared; a conflict, or a
\* checkpoint that cannot be written, ends the recovery thread.
RecoverRotate ==
    /\ r.pc = "rotate"
    /\ \/ LET i == Min(r.seen)
              rest == r.seen \ {i}
          IN /\ session' = [session EXCEPT ![rows[i].agent] = 0]
             /\ w' = [w EXCEPT !.raced = w.pc \in Writing]
             /\ \/ /\ r' = [r EXCEPT !.seen = rest, !.raced = FALSE,
                                     !.pc = IF rest = {} THEN "lock" ELSE "rotate"]
                   /\ UNCHANGED faults
                \/ Fault /\ r' = NoRecovery
       \/ r.raced /\ r' = NoRecovery /\ UNCHANGED <<session, w, faults>>
    /\ UNCHANGED <<state, resume, agent, turn_number, rotations, marked, rows,
                   pausing, history, crashes, calls>>

\* _recover_run under the lock: a run at work starts its phase again.
RecoverEnter ==
    /\ r.pc = "lock" /\ w.pc = "idle"
    /\ r' = NoRecovery
    /\ w' = IF state = "WORKING" THEN NewCall("pauses") ELSE w
    /\ UNCHANGED <<record, rows, pausing, history, bounds>>

----------------------------------------------------------------------------

Worker ==
    \/ CheckTurnBudget \/ MaybeRotateTurnHistory \/ RotateAgentSession
    \/ CountRotation \/ EscalateChurn \/ EnsureSession \/ ChargeTurn
    \/ SaveRunningTurn \/ Guard \/ RunModel \/ SaveCompletedTurn \/ FinishTurn
    \/ ReturnTurn \/ FailTurn \/ RepairDependencies \/ RollbackTurnNumber
    \/ DecideRetry \/ RetryTurn \/ CallerHandles \/ Unpause

Sweep ==
    \/ RecoverBoot \/ RecoverDies \/ RecoverScan
    \/ RecoverList \/ RecoverMark \/ RecoverRotate

Environment ==
    \/ EnterFromGate \/ PauseRun \/ PauseCommits \/ ResumeRun \/ CancelRun \/ Crash

Next == Worker \/ Sweep \/ RecoverEnter \/ Environment

Spec == Init /\ [][Next]_vars

----------------------------------------------------------------------------
(* Properties.                                                             *)

\* The call's charge is open from ChargeTurn until the turn is saved, taken
\* back or given up.
Open == w.pc \in Charged \/ (w.pc = "rotate" /\ w.why = "failure")

Ledger == INSTANCE TurnLedger
             WITH Budget <- MaxTurns, spent <- turn_number,
                  completed <- completed, open <- Open

\* The turn keeps the promise of the turn budget: through retries, automatic
\* resumes, repairs, pauses and crashes at most maximum_turns are charged,
\* every completed turn is, and a refund only ever takes back the charge of
\* the attempt that failed (_check_turn_budget, _retry_agent_turn,
\* _rollback_unconsumed_turn_number).
BudgetIsALedger == Ledger!LedgerSpec

\* However many attempts a call of _run_agent_turn makes, it spends at most
\* one turn of the budget, and a completed turn is always paid for.
CallSpendsOneTurn ==
    /\ w.pc # "idle" => turn_number - w.start \in {0, 1}
    /\ completed <= turn_number

\* A model never works in a session in which an earlier turn failed or was
\* interrupted, except through four windows the code leaves open: a crash
\* between that turn's end and the rotation of its session, a recovery thread
\* that died before it came to the run, a call that overtakes the recovery
\* sweep, and a pause that wrote a resume_state which was stale, another
\* agent's phase included (_rotate_agent_session,
\* _rotate_failed_session_before_resume, recover, pause_run).
NoPoisonedSession ==
    w.pc = "model" /\ ~exposed =>
       \A i \in DOMAIN rows \ {w.row} :
          rows[i].session = rows[w.row].session =>
             rows[i].status = "completed" \/ rows[i].error = "dependency"

\* A rotation for size that follows another, with no turn below the threshold
\* and no resume in between, comes at least the floor later, although failed
\* attempts take turn numbers back (_maybe_rotate_turn_history).
RotationsAreSpaced ==
    [][rotations > 0 /\ rotations' > rotations => marked' - marked >= MinTurns]_vars

\* A turn row that says "running" belongs to the worker that runs the turn, or
\* the recovery sweep is still going to end it; otherwise nothing ever would
\* before the next restart.  Excepted are only the rows that a recovery
\* thread which died before it came to the run has left (recover sees each
\* run once, mark_running_turns_interrupted reads once).
RunningTurnsAreOwned ==
    state \notin Over =>
       \/ Running \ r.left \subseteq Mine \cup r.listed
       \/ r.pc \in {"boot", "scan", "list"}

\* The row of a turn saved as completed is never rewritten, whatever fails
\* after the save, except by a recovery sweep that a call has overtaken: it
\* writes the copy it read (_run_agent_turn, mark_running_turns_interrupted).
CompletedTurnsAreKept ==
    [][\A i \in DOMAIN rows :
          rows[i].status = "completed" /\ rows'[i] # rows[i] => r.overtaken]_vars
=============================================================================
