------------------------- MODULE RunLifecycleProofs -------------------------
(***************************************************************************)
(* Proofs about the workflow of one run, whatever its agents request and   *)
(* the policy lets pass, for every budget of turns, repairs,               *)
(* revisions, redrafts, faults, restarts and operator calls.  A gate holds *)
(* because of what it takes to get past it: the run is in a state behind   *)
(* the gate, was paused in one, is being paused in one, or its worker is   *)
(* on the way to one, only if the decision the gate asks for is on record; *)
(* and no later step takes that decision back.                             *)
(***************************************************************************)
EXTENDS RunLifecycle, NumberSets, SequenceTheorems, FiniteSetTheorems

\* The run is in, was paused in, is being paused in or is moving to S.
Reach(S) == state \in S \/ resume \in S \/ pausing \in S \/ w.target \in S

\* The worker is in, or will go on with, a phase of P.
Doing(P) == w.phase \in P \/ w.next \in P

\* The phases behind the protocol gate, and those behind the execution gate.
WorkPhases == Phases \ {"prepare", "draft"}

ResultPhases == {"jobs", "analyze", "verify", "write_report"}

ResultStates ==
    {"JOB_QUEUED", "JOB_RUNNING", "BEAKER_ANALYZING", "HONEYDEW_VERIFYING",
     "HONEYDEW_WRITING_REPORT", "AWAITING_FINAL_ACCEPTANCE", "COMPLETE"}

\* Every version of the protocol and of the report took a turn, and the turn
\* in progress may write one more.
Budget ==
    /\ protocol + report <= turns
    /\ w.step \in {"turn", "after"} => protocol + report < turns

\* What the decisions on record agree with.
Decisions ==
    \A i \in DOMAIN actions :
        /\ NeedsHoneydew(actions[i]) /\ actions[i].status = "APPROVED" => actions[i].honeydew
        /\ actions[i].status = "EXECUTION_FAILED" =>
               actions[i].type = "submit_experiment_matrix" /\ actions[i].honeydew
        /\ actions[i].status = "DENIED" => ~actions[i].honeydew
        /\ actions[i].status = "DENIED" /\ actions[i].type = "approve_protocol" =>
               OfStatus("approve_protocol", "APPROVED") # {}
        /\ i \in submitted => /\ actions[i].type = "submit_experiment_matrix"
                              /\ actions[i].status = "APPROVED"

\* The action the worker deals with.
Acting ==
    /\ w.step = "decide" => w.act \in DOMAIN actions
    /\ w.step = "decide" /\ w.driver # "reject" => actions[w.act].status = "APPROVED"
    /\ w.step = "seal" => w.phase = "draft_contract" /\ w.act \in OfStatus("propose_evaluation_contract", "PENDING")
    /\ w.phase = "review" /\ w.step \in {"turn", "after"} => w.act \in PendingMatrices
    /\ \/ w.phase = "review_contract" /\ w.step \in {"begin", "turn", "after"}
       \/ w.next = "review_contract"
       => w.act \in OfType("propose_evaluation_contract")
    /\ w.phase = "promote" /\ w.step = "begin" => w.act \in OfType("propose_evaluation_contract")
    /\ w.phase = "submit" /\ w.step = "begin" =>
           w.act \in OfStatus("submit_experiment_matrix", "APPROVED")
    /\ w.next \notin {"submit", "promote"}
    /\ w.next # "none" => w.step \in {"move", "raise"}

\* The action that brought a run to the gate of its type.
Asked(type) ==
    \E i \in OfType(type) :
        /\ actions[i].status # "DENIED"
        /\ NeedsHoneydew(actions[i]) => actions[i].honeydew

\* What is on record about a run past a gate.
Passed ==
    /\ Reach(PastProtocolGate) \/ Doing(WorkPhases) => OfStatus("approve_protocol", "APPROVED") # {}
    /\ Reach(ResultStates) \/ Doing(ResultPhases) \/ w.step = "queue" => submitted # {}
    /\ Reach({"COMPLETE"}) => OfStatus("accept_final_report", "APPROVED") # {}
    /\ \A type \in GateTypes : Reach({Gate(type)}) => Asked(type)

\* Only a state that can be resumed is saved by a pause.
Pausing == pausing \in WorkStates \cup HUMAN_WAIT_STATES \cup {"NONE"}

IInv == TypeOK /\ Pausing /\ Budget /\ Decisions /\ Acting /\ Passed

----------------------------------------------------------------------------
(* The state graph.                                                        *)

\* An accepted transition leads from a live state to a state.
LEMMA ValidMoves ==
    ASSUME NEW s \in RunState, NEW t, ValidTransition(s, t)
    PROVE  t \in RunState /\ s \notin TERMINAL_STATES
<1>1. s \notin TERMINAL_STATES
  BY DEF ValidTransition, TRANSITIONS
<1>2. CASE s = "PAUSED"
  BY <1>1, <1>2 DEF ValidTransition, TRANSITIONS
<1>3. CASE s # "PAUSED"
  <2>1. t \in Successors(s) \/ t \in Interruptions
    BY <1>1, <1>3 DEF ValidTransition, TRANSITIONS, Interruptions
  <2>2. Successors(s) \subseteq RunState
    BY DEF Successors, RunState, WorkStates, HUMAN_WAIT_STATES, TERMINAL_STATES
  <2> QED
    BY <1>1, <2>1, <2>2 DEF Interruptions, RunState, TERMINAL_STATES
<1> QED
  BY <1>2, <1>3

\* What is neither terminal nor paused can be resumed to.
LEMMA Resumables ==
    /\ WorkStates \cup HUMAN_WAIT_STATES \subseteq RunState
    /\ \A s \in RunState : s \notin TERMINAL_STATES \cup {"PAUSED"} => s \in WorkStates \cup HUMAN_WAIT_STATES
    /\ "NONE" \notin RunState
    /\ {"PAUSED", "FAILED", "TIMED_OUT", "CANCELLED"} \subseteq RunState
BY DEF RunState, WorkStates, HUMAN_WAIT_STATES, TERMINAL_STATES

\* The state each kind of decision is for.
LEMMA Gates ==
    /\ Gate("approve_protocol") = "AWAITING_PROTOCOL_APPROVAL"
    /\ Gate("propose_evaluation_contract") = "AWAITING_CONTRACT_PROMOTION"
    /\ Gate("submit_experiment_matrix") = "AWAITING_EXECUTION_APPROVAL"
    /\ Gate("accept_final_report") = "AWAITING_FINAL_ACCEPTANCE"
    /\ Gate("other") = "NONE"
BY DEF Gate

----------------------------------------------------------------------------
(* The worker.                                                             *)

Worker(D) ==
    [step : Steps, phase : Phases \cup {"none", "end"}, act : {0} \cup D,
     target : RunState \cup {"NONE"}, next : Phases \cup {"none", "end"}, driver : Drivers,
     repairs : Nat]

\* A worker may go on when actions are added.
LEMMA WorkerGrows ==
    ASSUME NEW D, NEW E, D \subseteq E, NEW x \in Worker(D)
    PROVE  x \in Worker(E)
BY DEF Worker

\* The worker after MoveTo.
LEMMA MoveToFields ==
    ASSUME NEW D, w \in Worker(D), NEW t \in RunState, NEW n \in Phases \cup {"end"}, MoveTo(t, n)
    PROVE  /\ w' \in Worker(D)
           /\ w'.step = "move" /\ w'.target = t /\ w'.next = n
           /\ w'.phase = w.phase /\ w'.act = w.act /\ w'.driver = w.driver
BY DEF MoveTo, Worker, Steps

\* The worker after Begin.
LEMMA BeginFields ==
    ASSUME NEW D, w \in Worker(D), NEW p \in Phases \cup {"none", "end"}, Begin(p)
    PROVE  /\ w' \in Worker(D)
           /\ w'.step = "begin" /\ w'.target = "NONE" /\ w'.next = "none"
           /\ w'.phase = p /\ w'.act = w.act /\ w'.driver = w.driver
BY DEF Begin, Worker, Steps

\* The worker after BeginOn.
LEMMA BeginOnFields ==
    ASSUME NEW D, w \in Worker(D), NEW p \in Phases, NEW i \in D, BeginOn(p, i)
    PROVE  /\ w' \in Worker(D)
           /\ w'.step = "begin" /\ w'.phase = p /\ w'.act = i
           /\ w'.target = w.target /\ w'.next = w.next /\ w'.driver = w.driver
BY DEF BeginOn, Worker, Steps

\* The worker after a change of its step only.
LEMMA StepFields ==
    ASSUME NEW D, w \in Worker(D), NEW s \in Steps, w' = [w EXCEPT !.step = s]
    PROVE  /\ w' \in Worker(D) /\ w'.step = s
           /\ w'.phase = w.phase /\ w'.act = w.act /\ w'.driver = w.driver
           /\ w'.target = w.target /\ w'.next = w.next
BY DEF Worker

\* The worker at the start of a turn.
LEMMA TurnFields ==
    ASSUME NEW D, w \in Worker(D), NEW s \in Steps, NEW i \in {0} \cup D, NEW n \in Nat,
           w' = [w EXCEPT !.step = s, !.act = i, !.repairs = n]
    PROVE  /\ w' \in Worker(D) /\ w'.step = s /\ w'.act = i
           /\ w'.phase = w.phase /\ w'.driver = w.driver
           /\ w'.target = w.target /\ w'.next = w.next
BY DEF Worker

\* A free lock.
LEMMA IdleFields ==
    /\ Idle.step = "idle" /\ Idle.phase = "none" /\ Idle.act = 0 /\ Idle.target = "NONE"
    /\ Idle.next = "none" /\ Idle.driver = "none"
    /\ \A D : Idle \in Worker(D)
BY DEF Idle, Worker, Steps, Drivers

----------------------------------------------------------------------------
(* What every step does to the run's record and to the counters.           *)

\* The part of the type invariant that no gate depends on.
Others ==
    /\ compatible \in BOOLEAN /\ cancelling \in BOOLEAN /\ recovering \in BOOLEAN
    /\ left \in BOOLEAN
    /\ revisions \in Nat /\ redrafts \in Nat
    /\ faults \in 0..MaxFaults /\ crashes \in 0..MaxCrashes /\ calls \in 0..MaxCalls

\* The steps of a worker, by the phase they belong to.
Shared ==
    \/ Move \/ BeginTurn \/ EndTurn \/ Handle \/ PauseForHuman \/ RecordAction \/ RepairTurn
    \/ Prepare \/ DraftProtocol

Contract == BeginDraftContract \/ RecordCandidate \/ SealCandidate \/ ReviewContract \/ PromoteContract

Methodology ==
    Plan \/ BeginImplement \/ ProposeMatrix \/ BeginReview \/ Review \/ CountRevision \/ CheckRevisions

Execution ==
    SubmitMatrix \/ RepairMatrix \/ QueueJobs \/ JobsActive \/ JobsOver \/ Analyze \/ Verify \/ WriteReport

Deciding == ResumeDecided \/ RecoverRun \/ \E i \in DOMAIN actions : approve_action(i) \/ reject_action(i)

Outside ==
    PauseRead \/ resume_run \/ CancelRequest \/ Reconcile \/ PauseWrite \/ cancel_run \/ Crash \/ recover

\* Every step belongs to one of six groups.
LEMMA NextSplits ==
    ASSUME Next
    PROVE  Shared \/ Contract \/ Methodology \/ Execution \/ Deciding \/ Outside
BY DEF Next, Work, Human, Shared, Contract, Methodology, Execution, Deciding, Outside

\* How each counter and flag may move.
LEMMA OthersMove ==
    ASSUME Next
    PROVE  /\ faults' = faults \/ (faults < MaxFaults /\ faults' = faults + 1)
           /\ crashes' = crashes \/ (crashes < MaxCrashes /\ crashes' = crashes + 1)
           /\ calls' = calls \/ (calls < MaxCalls /\ calls' = calls + 1)
           /\ revisions' \in {revisions, revisions + 1, 0}
           /\ redrafts' \in {redrafts, redrafts + 1}
           /\ compatible' = compatible \/ compatible' \in BOOLEAN
           /\ cancelling' = cancelling \/ cancelling' = TRUE \/ cancelling' = FALSE
           /\ recovering' = recovering \/ recovering' = TRUE \/ recovering' = FALSE
           /\ left' = left \/ left' \in BOOLEAN
<1>1. CASE Shared
  <2>1. CASE Handle
    <3>1. (w.driver \notin {"approve", "resume", "recover"}) \in BOOLEAN
      OBVIOUS
    <3>2. left' \in BOOLEAN
      BY <2>1, <3>1 DEF Handle
    <3> QED
      BY <2>1, <3>2 DEF Handle, data, counts, bounds
  <2>2. CASE ~Handle
    BY <1>1, <2>2 DEF Shared, Move, BeginTurn, EndTurn, PauseForHuman, RecordAction, RepairTurn,
       Prepare, DraftProtocol, record, data, counts, callers, bounds
  <2> QED
    BY <2>1, <2>2
<1>2. CASE Contract
  BY <1>2 DEF Contract, BeginDraftContract, RecordCandidate, SealCandidate, ReviewContract,
     PromoteContract, record, data, counts, callers, bounds
<1>3. CASE Methodology
  BY <1>3 DEF Methodology, Plan, BeginImplement, ProposeMatrix, BeginReview, Review, CountRevision,
     CheckRevisions, record, data, counts, callers, bounds
<1>4. CASE Execution
  BY <1>4 DEF Execution, SubmitMatrix, RepairMatrix, QueueJobs, JobsActive, JobsOver, Analyze,
     Verify, WriteReport, record, data, counts, callers, bounds
<1>5. CASE Deciding
  BY <1>5 DEF Deciding, ResumeDecided, RecoverRun, approve_action, reject_action,
     record, data, counts, callers, bounds
<1>6. CASE Outside
  BY <1>6 DEF Outside, PauseRead, resume_run, CancelRequest, Reconcile, PauseWrite, cancel_run,
     Crash, recover, record, data, counts, callers, bounds
<1> QED
  BY <1>1, <1>2, <1>3, <1>4, <1>5, <1>6, NextSplits

\* Counters stay within their bounds.
LEMMA OthersKept ==
    ASSUME TypeOK, Next
    PROVE  Others'
<1>1. Others
  BY DEF TypeOK, Others
<1>2. faults' \in 0..MaxFaults /\ crashes' \in 0..MaxCrashes /\ calls' \in 0..MaxCalls
  BY <1>1, OthersMove, LifecycleAssumption DEF Others
<1>3. revisions' \in Nat /\ redrafts' \in Nat
  BY <1>1, OthersMove DEF Others
<1>4. compatible' \in BOOLEAN
  BY <1>1, OthersMove DEF Others
<1>5. cancelling' \in BOOLEAN
  BY <1>1, OthersMove DEF Others
<1>6. recovering' \in BOOLEAN
  BY <1>1, OthersMove DEF Others
<1>7. left' \in BOOLEAN
  BY <1>1, OthersMove DEF Others
<1> QED
  BY <1>2, <1>3, <1>4, <1>5, <1>6, <1>7 DEF Others

\* Where the run's row, and the state a pause saves, may come from.
RecordStep ==
    /\ \/ state' \in {state, "PAUSED", "FAILED", "TIMED_OUT", "CANCELLED"}
       \/ state' = w.target /\ ValidTransition(state, w.target)
       \/ state' = resume /\ resume # "NONE"
    /\ \/ resume' \in {resume, "NONE"}
       \/ resume' = state /\ state \notin TERMINAL_STATES \cup {"PAUSED"}
       \/ resume' = pausing
    /\ \/ pausing' \in {pausing, "NONE"}
       \/ pausing' = state /\ state \notin TERMINAL_STATES \cup {"PAUSED"}

\* Every step moves the row in one of these ways.
LEMMA RecordMoves ==
    ASSUME Next
    PROVE  RecordStep
<1>1. CASE Shared
  <2>1. CASE Move \/ BeginTurn \/ EndTurn \/ RecordAction \/ RepairTurn \/ Prepare \/ DraftProtocol
    BY <2>1 DEF Move, BeginTurn, EndTurn, RecordAction, RepairTurn, Prepare, DraftProtocol, StartTurn,
       record, callers, RecordStep
  <2>2. CASE Handle \/ PauseForHuman
    <3>1. pausing' = pausing /\ (PauseHere \/ FailRun \/ UNCHANGED record)
      BY <2>2 DEF Handle, PauseForHuman, callers
    <3> QED
      BY <3>1 DEF PauseHere, FailRun, record, RecordStep
  <2> QED
    BY <1>1, <2>1, <2>2 DEF Shared
<1>2. CASE Contract
  BY <1>2 DEF Contract, BeginDraftContract, RecordCandidate, SealCandidate, ReviewContract,
     PromoteContract, StartTurn, FailRun, record, callers, RecordStep
<1>3. CASE Methodology
  BY <1>3 DEF Methodology, Plan, BeginImplement, ProposeMatrix, BeginReview, Review, CountRevision,
     CheckRevisions, StartTurn, record, callers, RecordStep
<1>4. CASE Execution
  BY <1>4 DEF Execution, SubmitMatrix, RepairMatrix, QueueJobs, JobsActive, JobsOver, Analyze,
     Verify, WriteReport, FailRun, record, callers, RecordStep
<1>5. CASE Deciding
  BY <1>5 DEF Deciding, ResumeDecided, FailRun, RecoverRun, approve_action, reject_action,
     record, callers, RecordStep
<1>6. CASE Outside
  BY <1>6 DEF Outside, PauseRead, resume_run, CancelRequest, Reconcile, PauseWrite, cancel_run,
     Crash, recover, record, callers, RecordStep
<1> QED
  BY <1>1, <1>2, <1>3, <1>4, <1>5, <1>6, NextSplits

\* The row stays in the state graph, and a saved state can be resumed.
LEMMA RecordKept ==
    ASSUME TypeOK, Pausing, RecordStep
    PROVE  /\ state' \in RunState
           /\ resume' \in WorkStates \cup HUMAN_WAIT_STATES \cup {"NONE"}
           /\ Pausing'
           /\ pausing' \in RunState \cup {"NONE"}
<1>1. /\ state \in RunState /\ resume \in WorkStates \cup HUMAN_WAIT_STATES \cup {"NONE"}
      /\ pausing \in WorkStates \cup HUMAN_WAIT_STATES \cup {"NONE"}
  BY DEF TypeOK, Pausing
<1>2. state' \in RunState
  BY <1>1, Resumables, ValidMoves DEF RecordStep
<1>3. resume' \in WorkStates \cup HUMAN_WAIT_STATES \cup {"NONE"}
  BY <1>1, Resumables DEF RecordStep
<1>4. pausing' \in WorkStates \cup HUMAN_WAIT_STATES \cup {"NONE"}
  BY <1>1, Resumables DEF RecordStep
<1> QED
  BY <1>2, <1>3, <1>4, Resumables DEF Pausing

----------------------------------------------------------------------------
(* Turns.                                                                  *)

\* The type of the lock holder, by name.
LEMMA WorkerTyped ==
    ASSUME TypeOK
    PROVE  w \in Worker(DOMAIN actions)
BY DEF TypeOK, Worker

\* The step each helper leaves the worker at.
LEMMA Going ==
    ASSUME TypeOK
    PROVE  /\ \A t, n : MoveTo(t, n) => w'.step = "move"
           /\ \A p : Begin(p) => w'.step = "begin"
           /\ \A p, i : BeginOn(p, i) => w'.step = "begin"
           /\ Raise => w'.step = "raise"
           /\ AskHuman => w'.step = "pause"
           /\ Finish => w'.step = "idle"
           /\ \A i, d : Decide(i, d) => w'.step = "decide"
<1>1. w \in Worker(DOMAIN actions)
  BY WorkerTyped
<1>2. \A t, n : MoveTo(t, n) => w'.step = "move"
  BY <1>1 DEF Worker, MoveTo
<1>3. \A p : Begin(p) => w'.step = "begin"
  BY <1>1 DEF Worker, Begin
<1>4. \A p, i : BeginOn(p, i) => w'.step = "begin"
  BY <1>1 DEF Worker, BeginOn
<1>5. (Raise => w'.step = "raise") /\ (AskHuman => w'.step = "pause")
  BY <1>1 DEF Worker, Raise, AskHuman
<1>6. (Finish => w'.step = "idle") /\ \A i, d : Decide(i, d) => w'.step = "decide"
  <2>1. Idle \in Worker({}) /\ Idle.step = "idle"
    BY IdleFields
  <2> QED
    BY <2>1 DEF Finish, Decide, Worker
<1> QED
  BY <1>2, <1>3, <1>4, <1>5, <1>6

AtTurn == w.step \in {"turn", "after"}

\* A turn is charged when it starts and writes one version at most.
TurnStep ==
    \/ /\ UNCHANGED <<protocol, report, turns>>
       /\ AtTurn' => AtTurn
    \/ /\ UNCHANGED <<protocol, report>>
       /\ turns < MaxTurns /\ turns' = turns + 1
    \/ /\ AtTurn /\ ~AtTurn' /\ turns' = turns
       /\ \/ protocol' = protocol + 1 /\ report' = report
          \/ protocol' = protocol /\ report' = report + 1

\* Every step charges, writes or keeps in one of these ways.
LEMMA TurnsMove ==
    ASSUME TypeOK, Acting, Next
    PROVE  TurnStep
<1> USE Going
<1>1. CASE Shared
  <2>1. CASE Move
    BY <2>1 DEF Move, data, counts, TurnStep, AtTurn
  <2>2. CASE BeginTurn
    BY <2>2 DEF BeginTurn, StartTurn, data, TurnStep, AtTurn
  <2>3. CASE EndTurn
    BY <2>3 DEF EndTurn, data, counts, TurnStep, AtTurn
  <2>4. CASE Handle \/ PauseForHuman \/ Prepare
    BY <2>4 DEF Handle, PauseForHuman, Prepare, data, counts, TurnStep, AtTurn
  <2>5. CASE DraftProtocol
    BY <2>5 DEF DraftProtocol, data, counts, TurnStep, AtTurn
  <2>6. CASE RecordAction
    BY <2>6 DEF RecordAction, counts, TurnStep, AtTurn
  <2>7. CASE RepairTurn
    BY <2>7 DEF RepairTurn, StartTurn, data, TurnStep, AtTurn
  <2> QED
    BY <1>1, <2>1, <2>2, <2>3, <2>4, <2>5, <2>6, <2>7 DEF Shared
<1>2. CASE Contract
  <2>1. CASE RecordCandidate
    BY <2>1 DEF RecordCandidate, data, TurnStep, AtTurn
  <2>2. CASE BeginDraftContract \/ SealCandidate \/ ReviewContract \/ PromoteContract
    BY <2>2 DEF BeginDraftContract, SealCandidate, ReviewContract, PromoteContract, StartTurn,
       data, counts, TurnStep, AtTurn
  <2> QED
    BY <1>2, <2>1, <2>2 DEF Contract
<1>3. CASE Methodology
  BY <1>3 DEF Methodology, Plan, BeginImplement, ProposeMatrix, BeginReview, Review, CountRevision,
     CheckRevisions, StartTurn, data, counts, TurnStep, AtTurn
<1>4. CASE Execution
  <2>1. CASE SubmitMatrix
    <3>1. w \in Worker(DOMAIN actions) /\ "queue" \in Steps
      BY WorkerTyped DEF Steps
    <3>2. w' = [w EXCEPT !.step = "queue"] => w'.step = "queue"
      BY <3>1, StepFields
    <3>3. w' = [w EXCEPT !.phase = "repair", !.driver = "repair"] => w'.step = w.step
      BY <3>1 DEF Worker
    <3> QED
      BY <2>1, <3>2, <3>3 DEF SubmitMatrix, counts, TurnStep, AtTurn
  <2>2. CASE RepairMatrix \/ QueueJobs \/ JobsActive \/ JobsOver
    BY <2>2 DEF RepairMatrix, QueueJobs, JobsActive, JobsOver, data, counts, TurnStep, AtTurn
  <2>3. CASE Analyze \/ Verify \/ WriteReport
    BY <2>3 DEF Analyze, Verify, WriteReport, data, counts, TurnStep, AtTurn
  <2> QED
    BY <1>4, <2>1, <2>2, <2>3 DEF Execution
<1>5. CASE Deciding
  <2>1. CASE ResumeDecided
    <3>1. UNCHANGED <<protocol, report, turns>>
      BY <2>1 DEF ResumeDecided, data, counts
    <3>2. w.act \in DOMAIN actions /\ actions[w.act].type \in ActionTypes
      <4>1. w.act \in DOMAIN actions /\ actions \in Seq(ActionRecord)
        BY <2>1 DEF ResumeDecided, Acting, TypeOK
      <4>2. actions[w.act] \in ActionRecord
        BY <4>1
      <4> QED
        BY <4>1, <4>2 DEF ActionRecord
    <3>3. (ActOnApproval(w.act) \/ ActOnRejection(w.act)) => ~AtTurn'
      <4>1. state # Gate("other")
        BY Gates, Resumables DEF TypeOK
      <4> QED
        BY <3>2, <4>1 DEF ActOnApproval, ActOnRejection, AtTurn, ActionTypes, GateTypes
    <3> QED
      BY <2>1, <3>1, <3>2, <3>3 DEF ResumeDecided, TurnStep
  <2>2. CASE RecoverRun
    <3>1. UNCHANGED <<protocol, report, turns>>
      BY <2>2 DEF RecoverRun, counts
    <3>2. Reenter => ~AtTurn'
      BY DEF Reenter, AtTurn
    <3> QED
      BY <2>2, <3>1, <3>2 DEF RecoverRun, TurnStep, AtTurn
  <2>3. CASE \E i \in DOMAIN actions : approve_action(i) \/ reject_action(i)
    BY <2>3 DEF approve_action, reject_action, counts, TurnStep, AtTurn
  <2> QED
    BY <1>5, <2>1, <2>2, <2>3 DEF Deciding
<1>6. CASE Outside
  <2>1. UNCHANGED <<protocol, report, turns>>
    BY <1>6 DEF Outside, PauseRead, resume_run, CancelRequest, Reconcile, PauseWrite, cancel_run,
       Crash, recover, data, counts
  <2>2. Idle \in Worker({}) /\ Idle.step = "idle"
    BY IdleFields
  <2>3. CASE resume_run \/ Reconcile \/ Crash \/ recover
    BY <2>1, <2>2, <2>3 DEF resume_run, Reconcile, Crash, recover, Worker, TurnStep, AtTurn
  <2>4. CASE PauseRead \/ CancelRequest \/ PauseWrite \/ cancel_run
    BY <2>1, <2>4 DEF PauseRead, CancelRequest, PauseWrite, cancel_run, TurnStep, AtTurn
  <2> QED
    BY <1>6, <2>3, <2>4 DEF Outside
<1> QED
  BY <1>1, <1>2, <1>3, <1>4, <1>5, <1>6, NextSplits

\* Two parts of a sum are no greater than its bound.
LEMMA BothBelow ==
    ASSUME NEW a \in Nat, NEW b \in Nat, NEW m \in Nat, NEW t \in 0..m, a + b <= t
    PROVE  a \in 0..m /\ b \in 0..m
OBVIOUS

\* Versions and turns stay within the budget.
LEMMA TurnsKept ==
    ASSUME TypeOK, Budget, TurnStep
    PROVE  /\ Budget' /\ protocol' \in 0..MaxTurns /\ report' \in 0..MaxTurns /\ turns' \in 0..MaxTurns
<1>1. /\ protocol \in Nat /\ report \in Nat /\ turns \in Nat /\ MaxTurns \in Nat /\ turns <= MaxTurns
      /\ protocol + report <= turns /\ (AtTurn => protocol + report < turns)
  BY LifecycleAssumption DEF TypeOK, Budget, AtTurn
<1>2. /\ protocol' + report' <= turns' /\ (AtTurn' => protocol' + report' < turns')
      /\ protocol' \in Nat /\ report' \in Nat /\ turns' \in 0..MaxTurns
  BY <1>1 DEF TurnStep
<1>3. protocol' \in 0..MaxTurns /\ report' \in 0..MaxTurns
  BY <1>1, <1>2, BothBelow
<1>4. Budget'
  BY <1>2 DEF Budget, AtTurn
<1> QED
  BY <1>2, <1>3, <1>4

----------------------------------------------------------------------------
(* Action records.                                                         *)

\* The action records as a sequence.
LEMMA ActionsTyped ==
    ASSUME TypeOK
    PROVE  /\ Len(actions) \in Nat /\ DOMAIN actions = 1..Len(actions)
           /\ actions \in Seq(ActionRecord)
           /\ \A i \in DOMAIN actions : actions[i] \in ActionRecord
<1>1. actions \in Seq(ActionRecord)
  BY DEF TypeOK
<1> QED
  BY <1>1, LenProperties, ElementOfSeq

\* One record replaced.
LEMMA Replaced ==
    ASSUME TypeOK, NEW i \in DOMAIN actions, NEW e \in ActionRecord,
           actions' = [actions EXCEPT ![i] = e]
    PROVE  /\ actions' \in Seq(ActionRecord) /\ DOMAIN actions' = DOMAIN actions
           /\ actions'[i] = e
           /\ \A j \in DOMAIN actions : j # i => actions'[j] = actions[j]
<1>1. i \in 1..Len(actions) /\ DOMAIN actions = 1..Len(actions) /\ actions \in Seq(ActionRecord)
  BY ActionsTyped
<1>2. /\ actions' \in Seq(ActionRecord)
      /\ \A j \in 1..Len(actions) : actions'[j] = IF j = i THEN e ELSE actions[j]
  BY <1>1, ExceptSeq
<1> QED
  BY <1>1, <1>2

\* One status replaced.
LEMMA StatusEdit ==
    ASSUME TypeOK, NEW i \in DOMAIN actions, NEW s \in ApprovalStatus, SetStatus(i, s)
    PROVE  /\ actions' \in Seq(ActionRecord) /\ DOMAIN actions' = DOMAIN actions
           /\ actions'[i].status = s /\ actions'[i].type = actions[i].type
           /\ actions'[i].honeydew = actions[i].honeydew
           /\ \A j \in DOMAIN actions : j # i => actions'[j] = actions[j]
<1>1. actions[i] \in ActionRecord
  BY ActionsTyped
<1> DEFINE e == [actions[i] EXCEPT !.status = s]
<1>2. e \in ActionRecord /\ e.status = s /\ e.type = actions[i].type /\ e.honeydew = actions[i].honeydew
  BY <1>1 DEF ActionRecord
<1>3. actions' = [actions EXCEPT ![i] = e]
  BY DEF SetStatus
<1> HIDE DEF e
<1> QED
  BY <1>2, <1>3, Replaced

\* One record sealed, or approved by Honeydew.
LEMMA FlagEdit ==
    ASSUME TypeOK, NEW i \in DOMAIN actions,
           \/ actions' = [actions EXCEPT ![i].sealed = TRUE]
           \/ actions' = [actions EXCEPT ![i].honeydew = TRUE]
    PROVE  /\ actions' \in Seq(ActionRecord) /\ DOMAIN actions' = DOMAIN actions
           /\ actions'[i].status = actions[i].status /\ actions'[i].type = actions[i].type
           /\ actions[i].honeydew => actions'[i].honeydew
           /\ \A j \in DOMAIN actions : j # i => actions'[j] = actions[j]
<1>1. actions[i] \in ActionRecord
  BY ActionsTyped
<1>2. CASE actions' = [actions EXCEPT ![i].sealed = TRUE]
  <2> DEFINE e == [actions[i] EXCEPT !.sealed = TRUE]
  <2>1. e \in ActionRecord /\ e.status = actions[i].status /\ e.type = actions[i].type
        /\ e.honeydew = actions[i].honeydew
    BY <1>1 DEF ActionRecord
  <2>2. actions' = [actions EXCEPT ![i] = e]
    BY <1>2
  <2> HIDE DEF e
  <2> QED
    BY <2>1, <2>2, Replaced
<1>3. CASE actions' = [actions EXCEPT ![i].honeydew = TRUE]
  <2> DEFINE e == [actions[i] EXCEPT !.honeydew = TRUE]
  <2>1. e \in ActionRecord /\ e.status = actions[i].status /\ e.type = actions[i].type
        /\ e.honeydew
    BY <1>1 DEF ActionRecord
  <2>2. actions' = [actions EXCEPT ![i] = e]
    BY <1>3
  <2> HIDE DEF e
  <2> QED
    BY <2>1, <2>2, Replaced
<1> QED
  BY <1>2, <1>3

\* What a new action looks like, pending or denied.
LEMMA NewRecords ==
    ASSUME NEW type \in ActionTypes, NEW v \in 0..MaxTurns, NEW e,
           \/ e = NewAction(type, v)
           \/ e = [NewAction(type, v) EXCEPT !.status = "DENIED"]
    PROVE  /\ e \in ActionRecord /\ e.type = type /\ ~e.honeydew
           /\ e.status \in {"PENDING", "DENIED"}
           /\ e = NewAction(type, v) => e.status = "PENDING"
<1> DEFINE a == NewAction(type, v)
      d == [a EXCEPT !.status = "DENIED"]
<1>1. /\ a \in ActionRecord /\ a.type = type /\ a.honeydew = FALSE /\ a.status = "PENDING"
  BY DEF NewAction, ActionRecord, ApprovalStatus
<1> HIDE DEF a
<1>2. /\ d \in ActionRecord /\ d.type = type /\ d.honeydew = FALSE /\ d.status = "DENIED"
  BY <1>1 DEF ActionRecord, ApprovalStatus
<1>3. e = a \/ e = d
  BY DEF a
<1> HIDE DEF d
<1>4. e = NewAction(type, v) => e = a
  BY DEF a
<1> QED
  BY <1>1, <1>2, <1>3, <1>4

\* One action added.
LEMMA Appended ==
    ASSUME TypeOK, NEW e \in ActionRecord, actions' = Append(actions, e)
    PROVE  /\ actions' \in Seq(ActionRecord)
           /\ DOMAIN actions' = DOMAIN actions \cup {Len(actions) + 1}
           /\ Len(actions) + 1 \notin DOMAIN actions
           /\ \A j \in DOMAIN actions : actions'[j] = actions[j]
           /\ actions'[Len(actions) + 1] = e
<1>1. Len(actions) \in Nat /\ DOMAIN actions = 1..Len(actions) /\ actions \in Seq(ActionRecord)
  BY ActionsTyped
<1>2. /\ actions' \in Seq(ActionRecord) /\ Len(actions') = Len(actions) + 1
      /\ \A j \in 1..Len(actions) : actions'[j] = actions[j]
      /\ actions'[Len(actions) + 1] = e
  BY <1>1, AppendProperties
<1>3. DOMAIN actions' = 1..(Len(actions) + 1)
  BY <1>2, LenProperties
<1> QED
  BY <1>1, <1>2, <1>3

\* _recover_run rejects the pending matrices of an outdated contract.
LEMMA PendingRejected ==
    ASSUME TypeOK,
           actions' = [i \in DOMAIN actions |->
                         IF i \in PendingMatrices THEN [actions[i] EXCEPT !.status = "REJECTED"]
                                                  ELSE actions[i]]
    PROVE  /\ actions' \in Seq(ActionRecord) /\ DOMAIN actions' = DOMAIN actions
           /\ \A j \in DOMAIN actions :
                 /\ actions'[j].type = actions[j].type /\ actions'[j].honeydew = actions[j].honeydew
                 /\ \/ actions'[j].status = actions[j].status
                    \/ j \in PendingMatrices /\ actions'[j].status = "REJECTED"
<1>1. /\ Len(actions) \in Nat /\ DOMAIN actions = 1..Len(actions)
      /\ \A i \in DOMAIN actions : actions[i] \in ActionRecord
  BY ActionsTyped
<1>2. \A j \in DOMAIN actions :
        /\ actions'[j] \in ActionRecord
        /\ actions'[j].type = actions[j].type /\ actions'[j].honeydew = actions[j].honeydew
        /\ \/ actions'[j].status = actions[j].status
           \/ j \in PendingMatrices /\ actions'[j].status = "REJECTED"
  BY <1>1 DEF ActionRecord, ApprovalStatus
<1>3. actions' \in [1..Len(actions) -> ActionRecord]
  BY <1>1, <1>2
<1>4. actions' \in Seq(ActionRecord)
  BY <1>1, <1>3
<1> QED
  BY <1>1, <1>2, <1>3, <1>4

\* No step takes back a decision a gate asked for, or forgets a wave.
Grew ==
    /\ DOMAIN actions \subseteq DOMAIN actions'
    /\ \A j \in DOMAIN actions :
          /\ actions'[j].type = actions[j].type
          /\ actions[j].status = "APPROVED" /\ actions[j].type # "submit_experiment_matrix" =>
                 actions'[j].status = "APPROVED"
          /\ actions[j].status # "DENIED" => actions'[j].status # "DENIED"
          /\ actions[j].honeydew => actions'[j].honeydew
    /\ submitted \subseteq submitted'

History ==
    /\ actions' \in Seq(ActionRecord) /\ submitted' \subseteq DOMAIN actions'
    /\ Decisions' /\ Grew

\* An approved protocol stays on record.
LEMMA ProtocolKept ==
    ASSUME Grew, OfStatus("approve_protocol", "APPROVED") # {}
    PROVE  OfStatus("approve_protocol", "APPROVED")' # {}
BY DEF Grew, OfStatus, OfType

\* Steps that touch no action keep every decision.
LEMMA QuietHistory ==
    ASSUME TypeOK, Decisions, UNCHANGED <<actions, submitted>>
    PROVE  History
<1>1. Grew
  BY DEF Grew
<1> QED
  BY <1>1, ProtocolKept DEF TypeOK, Decisions, History, NeedsHoneydew

\* A new action takes no decision back; a protocol is denied to no run that
\* has none.
LEMMA AppendHistory ==
    ASSUME TypeOK, Decisions, NEW e \in ActionRecord, ~e.honeydew, e.status \in {"PENDING", "DENIED"},
           actions' = Append(actions, e), submitted' = submitted,
           e.status = "DENIED" => OfStatus("approve_protocol", "APPROVED") # {}
    PROVE  History
<1>1. submitted \subseteq DOMAIN actions
  BY DEF TypeOK
<1>2. /\ actions' \in Seq(ActionRecord)
      /\ DOMAIN actions' = DOMAIN actions \cup {Len(actions) + 1}
      /\ Len(actions) + 1 \notin DOMAIN actions
      /\ \A j \in DOMAIN actions : actions'[j] = actions[j]
      /\ actions'[Len(actions) + 1] = e
  BY Appended
<1>3. Grew
  BY <1>1, <1>2 DEF Grew
<1> QED
  BY <1>1, <1>2, <1>3, ProtocolKept DEF Decisions, History, NeedsHoneydew

\* A decision on an action without jobs takes none back that a gate rests on.
LEMMA StatusHistory ==
    ASSUME TypeOK, Decisions, NEW i \in DOMAIN actions, NEW s \in ApprovalStatus, SetStatus(i, s),
           submitted' = submitted, i \notin submitted,
           actions[i].status = "APPROVED" => actions[i].type = "submit_experiment_matrix",
           s = "APPROVED" /\ NeedsHoneydew(actions[i]) => actions[i].honeydew,
           s = "EXECUTION_FAILED" => actions[i].type = "submit_experiment_matrix" /\ actions[i].honeydew,
           s # "DENIED", actions[i].status # "DENIED"
    PROVE  History
<1>1. submitted \subseteq DOMAIN actions
  BY DEF TypeOK
<1>2. /\ actions' \in Seq(ActionRecord) /\ DOMAIN actions' = DOMAIN actions
      /\ actions'[i].status = s /\ actions'[i].type = actions[i].type
      /\ actions'[i].honeydew = actions[i].honeydew
      /\ \A j \in DOMAIN actions : j # i => actions'[j] = actions[j]
  BY StatusEdit
<1>3. Grew
  BY <1>1, <1>2 DEF Grew
<1> QED
  BY <1>1, <1>2, <1>3, ProtocolKept DEF Decisions, History, NeedsHoneydew

\* Neither does sealing a candidate or Honeydew's approval.
LEMMA FlagHistory ==
    ASSUME TypeOK, Decisions, NEW i \in DOMAIN actions, submitted' = submitted,
           \/ actions' = [actions EXCEPT ![i].sealed = TRUE]
           \/ actions' = [actions EXCEPT ![i].honeydew = TRUE],
           actions[i].status # "DENIED"
    PROVE  History
<1>1. submitted \subseteq DOMAIN actions
  BY DEF TypeOK
<1>2. /\ actions' \in Seq(ActionRecord) /\ DOMAIN actions' = DOMAIN actions
      /\ actions'[i].status = actions[i].status /\ actions'[i].type = actions[i].type
      /\ actions[i].honeydew => actions'[i].honeydew
      /\ \A j \in DOMAIN actions : j # i => actions'[j] = actions[j]
  BY FlagEdit
<1>3. Grew
  BY <1>1, <1>2 DEF Grew
<1> QED
  BY <1>1, <1>2, <1>3, ProtocolKept DEF Decisions, History, NeedsHoneydew

\* Jobs are created for an approved matrix.
LEMMA SubmitHistory ==
    ASSUME TypeOK, Decisions, NEW i \in OfStatus("submit_experiment_matrix", "APPROVED"),
           actions' = actions, submitted' \in {submitted, submitted \cup {i}}
    PROVE  History
<1>1. submitted \subseteq DOMAIN actions /\ actions \in Seq(ActionRecord)
  BY DEF TypeOK
<1>2. i \in DOMAIN actions /\ actions[i].type = "submit_experiment_matrix" /\ actions[i].status = "APPROVED"
  BY DEF OfStatus, OfType
<1>3. Grew
  BY DEF Grew
<1> QED
  BY <1>1, <1>2, <1>3, ProtocolKept DEF Decisions, History, NeedsHoneydew

\* A pending action is in nobody's way.
LEMMA PendingFree ==
    ASSUME Decisions, NEW i \in DOMAIN actions, actions[i].status = "PENDING"
    PROVE  i \notin submitted
BY DEF Decisions

\* The newest action of a kind is one of that kind.
LEMMA NewestAction ==
    ASSUME TypeOK, NEW S \in SUBSET DOMAIN actions, S # {}
    PROVE  Max(S) \in S /\ \A i \in S : i <= Max(S)
<1>1. Len(actions) \in Nat /\ S \in SUBSET (1..Len(actions))
  BY ActionsTyped
<1> QED
  BY <1>1, MaxIsMember

\* The newest pending matrix is a pending matrix.
LEMMA PendingMatrix ==
    ASSUME TypeOK
    PROVE  /\ \A i \in PendingMatrices : i \in DOMAIN actions /\ actions[i].status = "PENDING"
                                         /\ actions[i].type = "submit_experiment_matrix"
           /\ PendingMatrices # {} => Max(PendingMatrices) \in PendingMatrices
<1>1. /\ Len(actions) \in Nat /\ PendingMatrices \in SUBSET (1..Len(actions))
  BY ActionsTyped DEF PendingMatrices, OfStatus, OfType
<1>2. PendingMatrices # {} => Max(PendingMatrices) \in PendingMatrices
  BY <1>1, MaxIsMember
<1> QED
  BY <1>2 DEF PendingMatrices, OfStatus, OfType

\* A turn writes one version more at most.
LEMMA VersionsFit ==
    ASSUME IInv, AtTurn
    PROVE  protocol + 1 \in 0..MaxTurns /\ report + 1 \in 0..MaxTurns
<1>1. protocol + report < turns /\ protocol \in Nat /\ report \in Nat /\ turns \in 0..MaxTurns
  BY DEF IInv, Budget, TypeOK, AtTurn
<1> QED
  BY <1>1, LifecycleAssumption

\* _record_requested_actions takes no decision back.
LEMMA RequestHistory ==
    ASSUME IInv, RecordAction
    PROVE  History
<1>1. TypeOK /\ Decisions /\ submitted' = submitted
  BY DEF IInv, RecordAction
<1>2. 0 \in 0..MaxTurns /\ GateTypes \subseteq ActionTypes /\ Denied \subseteq ActionTypes
      /\ Pending \subseteq ActionTypes
  BY LifecycleAssumption DEF ActionTypes
<1>3. PICK type \in ActionTypes :
         \/ actions' = Append(actions, NewAction(type, 0))
         \/ actions' = Append(actions, [NewAction(type, 0) EXCEPT !.status = "DENIED"])
  BY <1>2 DEF RecordAction, GateTypes
<1>4. OfStatus("approve_protocol", "APPROVED") # {}
  <2>1. w.phase \in WorkPhases
    BY DEF RecordAction, WorkPhases, Phases
  <2> QED
    BY <2>1 DEF IInv, Passed, Doing
<1>5. PICK e : /\ e = NewAction(type, 0) \/ e = [NewAction(type, 0) EXCEPT !.status = "DENIED"]
               /\ actions' = Append(actions, e)
  BY <1>3
<1>6. e \in ActionRecord /\ ~e.honeydew /\ e.status \in {"PENDING", "DENIED"}
  BY <1>2, <1>5, NewRecords
<1> QED
  BY <1>1, <1>4, <1>5, <1>6, AppendHistory

\* Every step keeps the decisions on record.
LEMMA HistoryKept ==
    ASSUME IInv, Next
    PROVE  History
<1>1. TypeOK /\ Decisions /\ Acting
  BY DEF IInv
<1>2. "REJECTED" \in ApprovalStatus /\ "APPROVED" \in ApprovalStatus /\ "EXECUTION_FAILED" \in ApprovalStatus
  BY DEF ApprovalStatus
<1>3. CASE UNCHANGED <<actions, submitted>>
  BY <1>1, <1>3, QuietHistory
<1>4. CASE Shared
  <2>1. CASE DraftProtocol
    <3>1. protocol + 1 \in 0..MaxTurns
      BY <2>1, VersionsFit DEF DraftProtocol, AtTurn
    <3>2. "approve_protocol" \in ActionTypes
      BY DEF ActionTypes, GateTypes
    <3> DEFINE e == NewAction("approve_protocol", protocol + 1)
    <3>3. e \in ActionRecord /\ ~e.honeydew /\ e.status = "PENDING"
      BY <3>1, <3>2, NewRecords
    <3>4. actions' = Append(actions, e) /\ submitted' = submitted
      BY <2>1 DEF DraftProtocol
    <3> HIDE DEF e
    <3> QED
      BY <1>1, <3>3, <3>4, AppendHistory
  <2>2. CASE RecordAction
    BY <2>2, RequestHistory
  <2>3. CASE ~DraftProtocol /\ ~RecordAction
    BY <1>3, <1>4, <2>3 DEF Shared, Move, BeginTurn, EndTurn, Handle, PauseForHuman, RepairTurn, Prepare, data
  <2> QED
    BY <2>1, <2>2, <2>3
<1>5. CASE Contract
  <2>1. CASE BeginDraftContract \/ PromoteContract
    BY <1>3, <2>1 DEF BeginDraftContract, PromoteContract
  <2>2. CASE RecordCandidate
    BY <1>3, <2>2 DEF RecordCandidate, data
  <2>3. CASE SealCandidate
    <3>1. w.act \in DOMAIN actions /\ actions[w.act].status = "PENDING" /\ submitted' = submitted
      BY <1>1, <2>3 DEF SealCandidate, Acting, OfStatus, OfType
    <3>2. w.act \notin submitted
      BY <1>1, <3>1, PendingFree
    <3>3. CASE actions' = [actions EXCEPT ![w.act].sealed = TRUE]
      BY <1>1, <3>1, <3>3, FlagHistory
    <3>4. CASE SetStatus(w.act, "REJECTED")
      BY <1>1, <1>2, <3>1, <3>2, <3>4, StatusHistory
    <3> QED
      BY <2>3, <3>3, <3>4 DEF SealCandidate
  <2>4. CASE ReviewContract
    <3>1. w.act \in DOMAIN actions /\ submitted' = submitted
      BY <1>1, <2>4 DEF ReviewContract, Acting, OfType
    <3>2. CASE actions' = actions
      BY <1>3, <3>1, <3>2
    <3>3. CASE actions[w.act].status = "PENDING" /\ SetStatus(w.act, "REJECTED")
      <4>1. w.act \notin submitted
        BY <1>1, <3>1, <3>3, PendingFree
      <4> QED
        BY <1>1, <1>2, <3>1, <3>3, <4>1, StatusHistory
    <3>4. CASE actions[w.act].status = "PENDING" /\ actions' = [actions EXCEPT ![w.act].honeydew = TRUE]
      BY <1>1, <3>1, <3>4, FlagHistory
    <3> QED
      BY <2>4, <3>2, <3>3, <3>4 DEF ReviewContract
  <2> QED
    BY <1>5, <2>1, <2>2, <2>3, <2>4 DEF Contract
<1>6. CASE Methodology
  <2>1. CASE Plan \/ BeginImplement \/ ProposeMatrix \/ CountRevision \/ CheckRevisions
    BY <1>3, <2>1 DEF Plan, BeginImplement, ProposeMatrix, CountRevision, CheckRevisions, data
  <2>3. CASE BeginReview
    <3>1. CASE UNCHANGED actions
      BY <1>3, <2>3, <3>1 DEF BeginReview
    <3>2. CASE PendingMatrices # {} /\ SetStatus(Max(PendingMatrices), "REJECTED")
      <4> DEFINE m == Max(PendingMatrices)
      <4>1. m \in DOMAIN actions /\ actions[m].status = "PENDING" /\ submitted' = submitted
        BY <1>1, <2>3, <3>2, PendingMatrix DEF BeginReview
      <4>2. SetStatus(m, "REJECTED")
        BY <3>2
      <4> HIDE DEF m
      <4>3. m \notin submitted
        BY <1>1, <4>1, PendingFree
      <4> QED
        BY <1>1, <1>2, <4>1, <4>2, <4>3, StatusHistory
    <3> QED
      BY <2>3, <3>1, <3>2 DEF BeginReview
  <2>4. CASE Review
    <3>1. w.act \in DOMAIN actions /\ actions[w.act].status = "PENDING" /\ submitted' = submitted
      BY <1>1, <2>4, PendingMatrix DEF Review, Acting
    <3>2. w.act \notin submitted
      BY <1>1, <3>1, PendingFree
    <3>3. CASE actions' = [actions EXCEPT ![w.act].honeydew = TRUE]
      BY <1>1, <3>1, <3>3, FlagHistory
    <3>4. CASE SetStatus(w.act, "REJECTED")
      BY <1>1, <1>2, <3>1, <3>2, <3>4, StatusHistory
    <3> QED
      BY <2>4, <3>3, <3>4 DEF Review
  <2> QED
    BY <1>6, <2>1, <2>3, <2>4 DEF Methodology
<1>7. CASE Execution
  <2>1. CASE SubmitMatrix
    <3>1. w.act \in OfStatus("submit_experiment_matrix", "APPROVED")
      BY <1>1, <2>1 DEF SubmitMatrix, Acting
    <3>2. CASE actions' = actions /\ submitted' \in {submitted, submitted \cup {w.act}}
      BY <1>1, <3>1, <3>2, SubmitHistory
    <3>3. CASE SetStatus(w.act, "EXECUTION_FAILED") /\ submitted' = submitted /\ w.act \notin submitted
      <4>1. /\ w.act \in DOMAIN actions /\ actions[w.act].type = "submit_experiment_matrix"
            /\ actions[w.act].status = "APPROVED" /\ actions[w.act].honeydew
        BY <1>1, <3>1 DEF OfStatus, OfType, Decisions, NeedsHoneydew
      <4> QED
        BY <1>1, <1>2, <3>3, <4>1, StatusHistory
    <3> QED
      BY <2>1, <3>2, <3>3 DEF SubmitMatrix
  <2>2. CASE RepairMatrix \/ QueueJobs \/ JobsActive \/ JobsOver \/ Analyze \/ Verify
    BY <1>3, <2>2 DEF RepairMatrix, QueueJobs, JobsActive, JobsOver, Analyze, Verify, data
  <2>3. CASE WriteReport
    <3>1. report + 1 \in 0..MaxTurns
      BY <2>3, VersionsFit DEF WriteReport, AtTurn
    <3>2. "accept_final_report" \in ActionTypes
      BY DEF ActionTypes, GateTypes
    <3>3. CASE UNCHANGED actions
      BY <1>3, <2>3, <3>3 DEF WriteReport
    <3>4. CASE actions' = Append(actions, NewAction("accept_final_report", report + 1))
      <4> DEFINE e == NewAction("accept_final_report", report + 1)
      <4>1. e \in ActionRecord /\ ~e.honeydew /\ e.status = "PENDING"
        BY <3>1, <3>2, NewRecords
      <4>2. actions' = Append(actions, e) /\ submitted' = submitted
        BY <2>3, <3>4 DEF WriteReport
      <4> HIDE DEF e
      <4> QED
        BY <1>1, <4>1, <4>2, AppendHistory
    <3> QED
      BY <2>3, <3>3, <3>4 DEF WriteReport
  <2> QED
    BY <1>7, <2>1, <2>2, <2>3 DEF Execution
<1>8. CASE Deciding
  <2>1. CASE ResumeDecided
    BY <1>3, <2>1 DEF ResumeDecided, data
  <2>2. CASE RecoverRun
    <3>1. submitted' = submitted
      BY <2>2 DEF RecoverRun
    <3>2. CASE actions' = actions
      BY <1>3, <3>1, <3>2
    <3>3. CASE actions' = [i \in DOMAIN actions |->
                             IF i \in PendingMatrices THEN [actions[i] EXCEPT !.status = "REJECTED"]
                                                      ELSE actions[i]]
      <4>1. submitted \subseteq DOMAIN actions
        BY <1>1 DEF TypeOK
      <4>2. \A j \in PendingMatrices : j \notin submitted /\ actions[j].status \notin {"APPROVED", "DENIED"}
        BY <1>1, PendingMatrix, PendingFree
      <4>3. /\ actions' \in Seq(ActionRecord) /\ DOMAIN actions' = DOMAIN actions
            /\ \A j \in DOMAIN actions :
                 /\ actions'[j].type = actions[j].type /\ actions'[j].honeydew = actions[j].honeydew
                 /\ \/ actions'[j].status = actions[j].status
                    \/ j \in PendingMatrices /\ actions'[j].status = "REJECTED"
        BY <1>1, <3>3, PendingRejected
      <4>4. Grew
        BY <3>1, <4>2, <4>3 DEF Grew
      <4> QED
        BY <1>1, <3>1, <4>1, <4>2, <4>3, <4>4, ProtocolKept DEF Decisions, History, NeedsHoneydew
    <3> QED
      BY <2>2, <3>2, <3>3 DEF RecoverRun
  <2>3. ASSUME NEW i \in DOMAIN actions, approve_action(i) \/ reject_action(i)
        PROVE  History
    <3>1. submitted' = submitted
      BY <2>3 DEF approve_action, reject_action
    <3>2. CASE actions' = actions
      BY <1>3, <3>1, <3>2
    <3>3. CASE /\ actions[i].status = "PENDING"
               /\ \/ SetStatus(i, "REJECTED")
                  \/ SetStatus(i, "APPROVED") /\ (NeedsHoneydew(actions[i]) => actions[i].honeydew)
      <4>1. i \notin submitted
        BY <1>1, <3>3, PendingFree
      <4> QED
        BY <1>1, <1>2, <3>1, <3>3, <4>1, StatusHistory
    <3> QED
      BY <2>3, <3>2, <3>3 DEF approve_action, reject_action
  <2> QED
    BY <1>8, <2>1, <2>2, <2>3 DEF Deciding
<1>9. CASE Outside
  BY <1>3, <1>9 DEF Outside, PauseRead, resume_run, CancelRequest, Reconcile, PauseWrite, cancel_run,
     Crash, recover, data
<1> QED
  BY <1>4, <1>5, <1>6, <1>7, <1>8, <1>9, NextSplits

----------------------------------------------------------------------------
(* What is on record behind the gates.                                     *)

\* Actions are never forgotten, nor approvals that a gate rests on.
LEMMA SetsGrow ==
    ASSUME Grew
    PROVE  /\ \A type : OfType(type) \subseteq OfType(type)'
           /\ \A type : type # "submit_experiment_matrix" =>
                 OfStatus(type, "APPROVED") \subseteq OfStatus(type, "APPROVED")'
           /\ \A type : Asked(type) => Asked(type)'
<1>1. \A type : Asked(type) => Asked(type)'
  BY DEF Grew, Asked, OfType, NeedsHoneydew
<1> QED
  BY <1>1 DEF Grew, OfType, OfStatus

\* What must be on record before a worker heads for state t, is in phase p or
\* goes on with phase n.
Supports(t, p, n) ==
    /\ t \in PastProtocolGate \/ p \in WorkPhases \/ n \in WorkPhases =>
           OfStatus("approve_protocol", "APPROVED")' # {}
    /\ t \in ResultStates \/ p \in ResultPhases \/ n \in ResultPhases => submitted' # {}
    /\ t = "COMPLETE" => OfStatus("accept_final_report", "APPROVED")' # {}
    /\ \A type \in GateTypes : t = Gate(type) => Asked(type)'

\* What is on record behind the gates stays enough when what the worker newly
\* heads for is supported.
LEMMA PassedKept ==
    ASSUME IInv, RecordStep, Grew, NEW t, NEW p, NEW n, Supports(t, p, n),
           w'.target \in {w.target, "NONE", t},
           w'.phase \in {w.phase, w.next, "none", p},
           w'.next \in {w.next, "none", "end", n},
           w'.step = "queue" => w.step = "queue" \/ submitted' # {}
    PROVE  Passed'
<1>1. Passed
  BY DEF IInv
<1> DEFINE Off == {"NONE", "PAUSED", "FAILED", "TIMED_OUT", "CANCELLED"}
<1>2. ASSUME NEW S, S \cap Off = {}, Reach(S)'
      PROVE  Reach(S) \/ t \in S
  BY <1>2 DEF Reach, RecordStep
<1>3. ASSUME NEW P, P \cap {"none", "end"} = {}, Doing(P)'
      PROVE  Doing(P) \/ p \in P \/ n \in P
  BY <1>3 DEF Doing
<1>4. /\ PastProtocolGate \cap Off = {} /\ ResultStates \cap Off = {} /\ {"COMPLETE"} \cap Off = {}
      /\ WorkPhases \cap {"none", "end"} = {} /\ ResultPhases \cap {"none", "end"} = {}
  BY DEF PastProtocolGate, RunState, WorkStates, HUMAN_WAIT_STATES, TERMINAL_STATES,
     ResultStates, WorkPhases, ResultPhases, Phases
<1>5. \A type \in GateTypes : {Gate(type)} \cap Off = {}
  BY Gates DEF GateTypes
<1> HIDE DEF Off
<1>6. OfStatus("approve_protocol", "APPROVED") \subseteq OfStatus("approve_protocol", "APPROVED")'
  BY SetsGrow
<1>7. OfStatus("accept_final_report", "APPROVED") \subseteq OfStatus("accept_final_report", "APPROVED")'
  BY SetsGrow
<1>8. Reach(PastProtocolGate)' \/ Doing(WorkPhases)' => OfStatus("approve_protocol", "APPROVED")' # {}
  BY <1>1, <1>2, <1>3, <1>4, <1>6 DEF Passed, Supports
<1>9. Reach(ResultStates)' \/ Doing(ResultPhases)' \/ w'.step = "queue" => submitted' # {}
  BY <1>1, <1>2, <1>3, <1>4 DEF Passed, Supports, Grew
<1>10. Reach({"COMPLETE"})' => OfStatus("accept_final_report", "APPROVED")' # {}
  BY <1>1, <1>2, <1>4, <1>7 DEF Passed, Supports
<1>11. ASSUME NEW type \in GateTypes, Reach({Gate(type)})'
       PROVE  Asked(type)'
  <2>1. Reach({Gate(type)}) \/ t = Gate(type)
    BY <1>2, <1>5, <1>11 DEF Reach
  <2>2. Asked(type) => Asked(type)'
    BY SetsGrow
  <2> QED
    BY <1>1, <2>1, <2>2 DEF Passed, Supports
<1> QED
  BY <1>8, <1>9, <1>10, <1>11 DEF Passed

\* A worker that heads for nothing new needs nothing new.
LEMMA NothingNeeded ==
    Supports("NONE", "none", "none")
BY Gates DEF Supports, PastProtocolGate, RunState, WorkStates, HUMAN_WAIT_STATES, TERMINAL_STATES,
   ResultStates, WorkPhases, ResultPhases, Phases, GateTypes

PlainStates ==
    {"BEAKER_DRAFTING_CONTRACT", "HONEYDEW_REVIEWING_CONTRACT", "BEAKER_PLANNING",
     "BEAKER_IMPLEMENTING", "BEAKER_FINALIZING", "HONEYDEW_REVIEWING", "BEAKER_REVISING", "NONE"}

EarlyStates == {"CREATED", "PREPARING", "HONEYDEW_DRAFTING_PROTOCOL", "NONE"}

AnyPhase == Phases \cup {"none", "end"}

\* Before the protocol gate nothing is needed.
LEMMA EarlySupport ==
    ASSUME NEW t \in EarlyStates, NEW p \in AnyPhase \ WorkPhases, NEW n \in AnyPhase \ WorkPhases
    PROVE  Supports(t, p, n)
BY Gates DEF Supports, EarlyStates, AnyPhase, PastProtocolGate, RunState, WorkStates, HUMAN_WAIT_STATES,
   TERMINAL_STATES, ResultStates, WorkPhases, ResultPhases, Phases, GateTypes

\* Behind it, the contract and methodology phases need nothing more.
LEMMA PlainSupport ==
    ASSUME IInv, Grew, state \in PastProtocolGate \/ w.phase \in WorkPhases,
           NEW t \in PlainStates, NEW p \in AnyPhase \ ResultPhases, NEW n \in AnyPhase \ ResultPhases
    PROVE  Supports(t, p, n)
<1>1. OfStatus("approve_protocol", "APPROVED")' # {}
  BY SetsGrow DEF IInv, Passed, Reach, Doing
<1>2. t \notin ResultStates /\ t # "COMPLETE" /\ \A type \in GateTypes : t # Gate(type)
  BY Gates DEF PlainStates, ResultStates, GateTypes
<1> QED
  BY <1>1, <1>2 DEF Supports

\* Behind the execution gate, neither do the phases that work on results.
LEMMA ResultSupport ==
    ASSUME IInv, Grew, state \in PastProtocolGate \/ w.phase \in WorkPhases,
           state \in ResultStates \/ w.phase \in ResultPhases \/ w.step = "queue",
           NEW t \in PlainStates \cup (ResultStates \ {"AWAITING_FINAL_ACCEPTANCE", "COMPLETE"}),
           NEW p, NEW n
    PROVE  Supports(t, p, n)
<1>1. OfStatus("approve_protocol", "APPROVED")' # {}
  BY SetsGrow DEF IInv, Passed, Reach, Doing
<1>2. submitted' # {}
  BY DEF IInv, Passed, Reach, Doing, Grew
<1>3. t # "COMPLETE" /\ \A type \in GateTypes : t # Gate(type)
  BY Gates DEF PlainStates, ResultStates, GateTypes
<1> QED
  BY <1>1, <1>2, <1>3 DEF Supports

----------------------------------------------------------------------------
(* What the worker does next.                                              *)

Led == w \in Worker(DOMAIN actions) /\ Acting /\ Passed

\* The worker asks for a transition.
LEMMA MovesOn ==
    ASSUME IInv, RecordStep, Grew, NEW t \in RunState, NEW n \in Phases \cup {"end"}, MoveTo(t, n),
           n \notin {"submit", "promote"},
           n = "review_contract" => w.act \in OfType("propose_evaluation_contract"),
           Supports(t, "none", n)
    PROVE  Led'
<1>1. w \in Worker(DOMAIN actions)
  BY WorkerTyped DEF IInv
<1>2. /\ w' \in Worker(DOMAIN actions)
      /\ w'.step = "move" /\ w'.target = t /\ w'.next = n
      /\ w'.phase = w.phase /\ w'.act = w.act
  BY <1>1, MoveToFields
<1>3. w' \in Worker(DOMAIN actions')
  BY <1>2, WorkerGrows DEF Grew
<1>4. Acting'
  BY <1>2, SetsGrow DEF Acting
<1>5. Passed'
  BY <1>2, PassedKept
<1> QED
  BY <1>3, <1>4, <1>5 DEF Led

\* The worker enters a phase.
LEMMA Begins ==
    ASSUME IInv, RecordStep, Grew, NEW p \in AnyPhase, Begin(p),
           p \notin {"submit", "promote"},
           p = "review_contract" => w.act \in OfType("propose_evaluation_contract"),
           Supports("NONE", p, "none") \/ p = w.next
    PROVE  Led'
<1>1. w \in Worker(DOMAIN actions)
  BY WorkerTyped DEF IInv
<1>2. /\ w' \in Worker(DOMAIN actions)
      /\ w'.step = "begin" /\ w'.target = "NONE" /\ w'.next = "none"
      /\ w'.phase = p /\ w'.act = w.act
  BY <1>1, BeginFields DEF AnyPhase
<1>3. w' \in Worker(DOMAIN actions')
  BY <1>2, WorkerGrows DEF Grew
<1>4. Acting'
  BY <1>2, SetsGrow DEF Acting
<1>5. Passed'
  BY <1>2, PassedKept, NothingNeeded
<1> QED
  BY <1>3, <1>4, <1>5 DEF Led

\* A phase that deals with a given action.
LEMMA BeginsOn ==
    ASSUME IInv, RecordStep, Grew, UNCHANGED actions, NEW p \in Phases, NEW i \in DOMAIN actions,
           BeginOn(p, i), w.step \in {"decide", "recover"},
           \/ p \in {"promote", "review_contract"} /\ actions[i].type = "propose_evaluation_contract"
           \/ p = "submit" /\ actions[i].type = "submit_experiment_matrix" /\ actions[i].status = "APPROVED",
           Supports("NONE", p, "none")
    PROVE  Led'
<1>1. w \in Worker(DOMAIN actions) /\ w.next = "none"
  BY WorkerTyped DEF IInv, Acting
<1>2. /\ w' \in Worker(DOMAIN actions)
      /\ w'.step = "begin" /\ w'.phase = p /\ w'.act = i
      /\ w'.target = w.target /\ w'.next = w.next
  BY <1>1, BeginOnFields
<1>3. w' \in Worker(DOMAIN actions')
  BY <1>2
<1>4. Acting'
  BY <1>1, <1>2 DEF Acting, OfType, OfStatus
<1>5. Passed'
  BY <1>2, PassedKept
<1> QED
  BY <1>3, <1>4, <1>5 DEF Led

\* The worker gives up, asks a human, or goes on after a turn.
LEMMA Halts ==
    ASSUME IInv, RecordStep, Grew, Raise \/ Finish \/ (AskHuman /\ w.step \notin {"move", "raise"})
    PROVE  Led'
<1>1. w \in Worker(DOMAIN actions) /\ Acting
  BY WorkerTyped DEF IInv
<1>2. CASE Finish
  <2>1. /\ w' \in Worker(DOMAIN actions')
        /\ w'.step = "idle" /\ w'.phase = "none" /\ w'.target = "NONE" /\ w'.next = "none"
    BY <1>2, IdleFields DEF Finish
  <2>2. Acting'
    BY <2>1 DEF Acting
  <2>3. Passed'
    BY <2>1, PassedKept, NothingNeeded
  <2> QED
    BY <2>1, <2>2, <2>3 DEF Led
<1>3. ASSUME NEW s \in {"raise", "pause"}, w' = [w EXCEPT !.step = s], s = "pause" => w.next = "none"
      PROVE  Led'
  <2>1. /\ w' \in Worker(DOMAIN actions) /\ w'.step = s
        /\ w'.phase = w.phase /\ w'.act = w.act /\ w'.target = w.target /\ w'.next = w.next
    BY <1>1, <1>3, StepFields DEF Steps
  <2>2. w' \in Worker(DOMAIN actions')
    BY <2>1, WorkerGrows DEF Grew
  <2>3. Acting'
    BY <1>1, <1>3, <2>1, SetsGrow DEF Acting
  <2>4. Passed'
    BY <1>3, <2>1, PassedKept, NothingNeeded
  <2> QED
    BY <2>2, <2>3, <2>4 DEF Led
<1>4. AskHuman /\ w.step \notin {"move", "raise"} => w.next = "none"
  BY <1>1 DEF Acting
<1> QED
  BY <1>2, <1>3, <1>4 DEF Raise, AskHuman

\* The number of the newest action.
LEMMA NewestNumber ==
    ASSUME TypeOK
    PROVE  Len(actions) \in {0} \cup DOMAIN actions
<1>1. Len(actions) \in Nat /\ DOMAIN actions = 1..Len(actions)
  BY ActionsTyped
<1> QED
  BY <1>1

\* A turn starts, or the budget is exhausted.
LEMMA Turns ==
    ASSUME IInv, RecordStep, Grew, UNCHANGED actions, NEW i \in {0} \cup DOMAIN actions, NEW k \in Nat,
           StartTurn(i, k), w.step \in {"begin", "after"},
           w.phase = "review" => i \in PendingMatrices,
           w.phase = "review_contract" => i = w.act
    PROVE  Led'
<1>1. w \in Worker(DOMAIN actions) /\ Acting /\ w.next = "none"
  BY WorkerTyped DEF IInv, Acting
<1>2. CASE Raise
  BY <1>2, Halts
<1>3. CASE w' = [w EXCEPT !.step = "turn", !.act = i, !.repairs = k]
  <2>1. /\ w' \in Worker(DOMAIN actions) /\ w'.step = "turn" /\ w'.act = i
        /\ w'.phase = w.phase /\ w'.target = w.target /\ w'.next = w.next
    BY <1>1, <1>3, TurnFields DEF Steps
  <2>2. PendingMatrices' = PendingMatrices /\ \A type : OfType(type)' = OfType(type)
    BY DEF PendingMatrices, OfStatus, OfType
  <2>3. Acting'
    BY <1>1, <2>1, <2>2 DEF Acting
  <2>4. Passed'
    BY <2>1, PassedKept, NothingNeeded
  <2> QED
    BY <2>1, <2>3, <2>4 DEF Led
<1> QED
  BY <1>2, <1>3 DEF StartTurn

\* A new holder of the lock.
LEMMA Enters ==
    ASSUME IInv, RecordStep, Grew, w' \in Worker(DOMAIN actions), w'.target = "NONE", w'.next = "none",
           \/ w'.step = "recover" /\ w'.phase = "none"
           \/ w'.step = "begin" /\ w'.phase = "jobs"
           \/ /\ w'.step = "decide" /\ w'.phase = "none" /\ w'.act \in DOMAIN actions
              /\ w'.driver # "reject" => actions'[w'.act].status = "APPROVED",
           Supports("NONE", w'.phase, "none")
    PROVE  Led'
<1>1. w' \in Worker(DOMAIN actions')
  BY WorkerGrows DEF Grew
<1>2. Acting'
  BY DEF Acting, Grew
<1>3. Passed'
  <2> DEFINE p == w'.phase
  <2>1. Supports("NONE", p, "none") /\ p = w'.phase /\ w'.step # "queue"
    OBVIOUS
  <2> HIDE DEF p
  <2> QED
    BY <2>1, PassedKept
<1> QED
  BY <1>1, <1>2, <1>3 DEF Led

\* Somebody else moves.
LEMMA Waits ==
    ASSUME IInv, RecordStep, UNCHANGED <<w, actions, submitted>>
    PROVE  Led'
<1>1. w \in Worker(DOMAIN actions) /\ Acting
  BY WorkerTyped DEF IInv
<1>2. Grew
  BY DEF Grew
<1>3. Acting'
  BY <1>1 DEF Acting, PendingMatrices, OfStatus, OfType
<1>4. Passed'
  BY <1>2, PassedKept, NothingNeeded
<1> QED
  BY <1>1, <1>3, <1>4 DEF Led

\* Which states and phases are which.
LEMMA Names ==
    /\ PlainStates \ {"NONE"} \subseteq RunState /\ ResultStates \subseteq RunState
    /\ PlainStates \ {"NONE"} \subseteq PastProtocolGate /\ ResultStates \subseteq PastProtocolGate
    /\ EarlyStates \ {"NONE"} \subseteq RunState
    /\ {"AWAITING_PROTOCOL_APPROVAL", "AWAITING_CONTRACT_PROMOTION", "AWAITING_EXECUTION_APPROVAL",
        "AWAITING_FINAL_ACCEPTANCE", "COMPLETE"} \subseteq RunState
    /\ {"AWAITING_CONTRACT_PROMOTION", "AWAITING_EXECUTION_APPROVAL",
        "AWAITING_FINAL_ACCEPTANCE", "COMPLETE"} \subseteq PastProtocolGate
    /\ "AWAITING_PROTOCOL_APPROVAL" \notin PastProtocolGate
    /\ {"draft_contract", "review_contract", "promote", "plan", "implement", "finalize", "review",
        "revision", "budget", "repair", "revise", "submit"} \subseteq AnyPhase \ ResultPhases
    /\ {"draft_contract", "review_contract", "promote", "plan", "implement", "finalize", "review",
        "revision", "budget", "repair", "revise", "submit", "jobs", "analyze", "verify",
        "write_report"} \subseteq WorkPhases
    /\ WorkPhases \subseteq Phases /\ ResultPhases \subseteq WorkPhases
    /\ {"prepare", "draft"} \subseteq Phases \ WorkPhases
    /\ {"none", "end"} \subseteq AnyPhase \ WorkPhases
    /\ {"none", "end"} \subseteq AnyPhase \ ResultPhases
    /\ "queue" \in Steps /\ "seal" \in Steps /\ "turn" \in Steps /\ "after" \in Steps
BY DEF PlainStates, ResultStates, PastProtocolGate, EarlyStates, RunState, WorkStates, HUMAN_WAIT_STATES,
   TERMINAL_STATES, AnyPhase, WorkPhases, ResultPhases, Phases, Steps

\* What is known of every step.
LEMMA StepFacts ==
    ASSUME IInv, Next
    PROVE  RecordStep /\ Grew /\ TypeOK /\ Acting
BY RecordMoves, HistoryKept DEF IInv, History

\* A protocol or a report asks a human.
LEMMA AppendAsks ==
    ASSUME TypeOK, NEW type \in {"approve_protocol", "accept_final_report"}, NEW v \in 0..MaxTurns,
           actions' = Append(actions, NewAction(type, v))
    PROVE  Asked(type)'
<1>1. type \in ActionTypes
  BY DEF ActionTypes, GateTypes
<1> DEFINE e == NewAction(type, v)
<1>2. e \in ActionRecord /\ e.type = type /\ e.status = "PENDING" /\ actions' = Append(actions, e)
  BY <1>1, NewRecords
<1> HIDE DEF e
<1>3. /\ Len(actions) + 1 \in DOMAIN actions' /\ actions'[Len(actions) + 1].type = type
      /\ actions'[Len(actions) + 1].status = "PENDING"
  BY <1>2, Appended
<1> QED
  BY <1>3 DEF Asked, OfType, NeedsHoneydew

\* The steps all phases share, preparation and protocol.
LEMMA LedShared ==
    ASSUME IInv, Next, Shared
    PROVE  Led'
<1>1. RecordStep /\ Grew /\ TypeOK /\ Acting
  BY StepFacts
<1>2. CASE Move
  <2>1. CASE Raise \/ Finish
    BY <1>1, <2>1, Halts
  <2>2. CASE Begin(w.next)
    <3>1. w.next \in AnyPhase
      BY <1>1, WorkerTyped DEF Worker, AnyPhase
    <3>2. /\ w.next \notin {"submit", "promote"}
          /\ w.next = "review_contract" => w.act \in OfType("propose_evaluation_contract")
      BY <1>1 DEF Acting
    <3> QED
      BY <1>1, <2>2, <3>1, <3>2, Begins
  <2> QED
    BY <1>2, <2>1, <2>2 DEF Move
<1>3. CASE BeginTurn
  <2>1. UNCHANGED actions /\ w.step = "begin" /\ w.phase # "review"
        /\ StartTurn(IF w.phase = "review_contract" THEN w.act ELSE Len(actions), 0)
    BY <1>3 DEF BeginTurn, data
  <2> DEFINE i == IF w.phase = "review_contract" THEN w.act ELSE Len(actions)
  <2>2. i \in {0} \cup DOMAIN actions /\ (w.phase = "review_contract" => i = w.act)
    BY <1>1, WorkerTyped, NewestNumber DEF Worker
  <2>3. StartTurn(i, 0)
    BY <2>1
  <2> HIDE DEF i
  <2> QED
    BY <1>1, <2>1, <2>2, <2>3, Turns
<1>4. CASE EndTurn
  <2>1. UNCHANGED <<actions, submitted>> /\ w.step = "turn"
    BY <1>4 DEF EndTurn, data
  <2>2. CASE Raise
    BY <1>1, <2>1, <2>2, Halts
  <2>3. CASE w' = [w EXCEPT !.step = "after"]
    <3>1. w \in Worker(DOMAIN actions) /\ w.next = "none"
      BY <1>1, <2>1, WorkerTyped DEF Acting
    <3>2. /\ w' \in Worker(DOMAIN actions) /\ w'.step = "after"
          /\ w'.phase = w.phase /\ w'.act = w.act /\ w'.target = w.target /\ w'.next = w.next
      BY <2>3, <3>1, StepFields, Names
    <3>3. PendingMatrices' = PendingMatrices /\ \A type : OfType(type)' = OfType(type)
      BY <2>1 DEF PendingMatrices, OfStatus, OfType
    <3>4. Acting'
      BY <1>1, <2>1, <3>1, <3>2, <3>3 DEF Acting
    <3>5. Passed'
      BY <1>1, <3>2, PassedKept, NothingNeeded
    <3> QED
      BY <2>1, <3>2, <3>4, <3>5 DEF Led
  <2> QED
    BY <1>4, <2>2, <2>3 DEF EndTurn
<1>5. CASE Handle \/ PauseForHuman
  <2>1. Finish
    BY <1>5 DEF Handle, PauseForHuman
  <2> QED
    BY <1>1, <2>1, Halts
<1>6. CASE Prepare
  <2>1. \/ MoveTo("PREPARING", "prepare") \/ MoveTo("HONEYDEW_DRAFTING_PROTOCOL", "draft")
        \/ Raise /\ w.step = "begin"
    BY <1>6 DEF Prepare
  <2>2. CASE Raise /\ w.step = "begin"
    BY <1>1, <2>2, Halts
  <2>3. /\ Supports("PREPARING", "none", "prepare")
        /\ Supports("HONEYDEW_DRAFTING_PROTOCOL", "none", "draft")
    BY EarlySupport, Names DEF EarlyStates, AnyPhase
  <2>4. {"PREPARING", "HONEYDEW_DRAFTING_PROTOCOL"} \subseteq RunState
    BY Names DEF EarlyStates
  <2> QED
    BY <1>1, <2>1, <2>2, <2>3, <2>4, Names, MovesOn
<1>7. CASE DraftProtocol
  <2>1. /\ MoveTo("AWAITING_PROTOCOL_APPROVAL", "end")
        /\ actions' = Append(actions, NewAction("approve_protocol", protocol + 1))
    BY <1>7 DEF DraftProtocol
  <2>2. Asked("approve_protocol")'
    <3>1. protocol + 1 \in 0..MaxTurns
      BY <1>7, VersionsFit DEF DraftProtocol, AtTurn
    <3> QED
      BY <1>1, <2>1, <3>1, AppendAsks
  <2>3. Supports("AWAITING_PROTOCOL_APPROVAL", "none", "end")
    <3>1. "AWAITING_PROTOCOL_APPROVAL" \notin PastProtocolGate \cup ResultStates \cup {"COMPLETE"}
      BY Names DEF ResultStates
    <3>2. \A type \in GateTypes : Gate(type) = "AWAITING_PROTOCOL_APPROVAL" => type = "approve_protocol"
      BY Gates DEF GateTypes
    <3>3. {"none", "end"} \cap WorkPhases = {} /\ {"none", "end"} \cap ResultPhases = {}
      BY Names
    <3> QED
      BY <2>2, <3>1, <3>2, <3>3 DEF Supports
  <2> QED
    BY <1>1, <2>1, <2>3, Names, MovesOn
<1>8. CASE RecordAction
  <2>1. w' = w /\ w.step = "after"
        /\ w.phase \in {"draft_contract", "implement", "finalize", "revise", "analyze"}
    BY <1>8 DEF RecordAction
  <2>2. w \in Worker(DOMAIN actions) /\ w.next = "none"
    BY <1>1, <2>1, WorkerTyped DEF Acting
  <2>3. w' \in Worker(DOMAIN actions')
    BY <1>1, <2>1, <2>2, WorkerGrows DEF Grew
  <2>4. Acting'
    BY <2>1, <2>2 DEF Acting
  <2>5. Passed'
    BY <1>1, <2>1, PassedKept, NothingNeeded
  <2> QED
    BY <2>3, <2>4, <2>5 DEF Led
<1>9. CASE RepairTurn
  <2>1. UNCHANGED actions /\ w.step = "after" /\ w.phase \notin {"review", "review_contract"}
        /\ StartTurn(w.act, w.repairs + 1)
    BY <1>9 DEF RepairTurn, data
  <2> DEFINE i == w.act
         k == w.repairs + 1
  <2>2. i \in {0} \cup DOMAIN actions /\ k \in Nat /\ StartTurn(i, k)
    BY <1>1, <2>1, WorkerTyped DEF Worker
  <2> HIDE DEF i, k
  <2> QED
    BY <1>1, <2>1, <2>2, Turns
<1> QED
  BY <1>2, <1>3, <1>4, <1>5, <1>6, <1>7, <1>8, <1>9 DEF Shared

\* The moves between the phases behind the protocol gate.
PlainPhases ==
    {"draft_contract", "plan", "implement", "finalize", "review", "revision", "budget", "repair", "revise"}

\* A transition between the phases behind the protocol gate.
LEMMA PlainMove ==
    ASSUME IInv, RecordStep, Grew, state \in PastProtocolGate \/ w.phase \in WorkPhases,
           NEW t \in PlainStates \ {"NONE"}, NEW n \in PlainPhases, MoveTo(t, n)
    PROVE  Led'
<1>1. n \in Phases /\ n \in AnyPhase \ ResultPhases /\ n \notin {"submit", "promote", "review_contract"}
  BY DEF PlainPhases, AnyPhase, Phases, ResultPhases
<1>2. t \in RunState /\ "none" \in AnyPhase \ ResultPhases
  BY Names
<1>3. Supports(t, "none", n)
  BY <1>1, <1>2, PlainSupport
<1> QED
  BY <1>1, <1>2, <1>3, MovesOn

\* A phase entered without a transition.
LEMMA PlainBegin ==
    ASSUME IInv, RecordStep, Grew, state \in PastProtocolGate \/ w.phase \in WorkPhases,
           NEW p \in PlainPhases, Begin(p)
    PROVE  Led'
<1>1. /\ p \in AnyPhase \ ResultPhases /\ p \in AnyPhase
      /\ p \notin {"submit", "promote", "review_contract"}
  BY DEF PlainPhases, AnyPhase, Phases, ResultPhases
<1>2. "none" \in AnyPhase \ ResultPhases /\ "NONE" \in PlainStates
  BY Names DEF PlainStates
<1>3. Supports("NONE", p, "none")
  BY <1>1, <1>2, PlainSupport
<1> QED
  BY <1>1, <1>3, Begins

\* The moves to the contract and the execution gate.
LEMMA GateMove ==
    ASSUME IInv, RecordStep, Grew, state \in PastProtocolGate \/ w.phase \in WorkPhases,
           NEW type \in {"propose_evaluation_contract", "submit_experiment_matrix"},
           NEW i \in OfType(type), actions[i].status = "PENDING",
           actions' = [actions EXCEPT ![i].honeydew = TRUE], MoveTo(Gate(type), "end")
    PROVE  Led'
<1>1. OfStatus("approve_protocol", "APPROVED")' # {}
  BY SetsGrow DEF IInv, Passed, Reach, Doing
<1>2. Gate(type) \notin ResultStates /\ Gate(type) # "COMPLETE" /\ Gate(type) \in RunState
  BY Gates, Names DEF ResultStates
<1>3. \A u \in GateTypes : Gate(u) = Gate(type) => u = type
  BY Gates DEF GateTypes
<1>4. {"none", "end"} \cap ResultPhases = {}
  BY DEF ResultPhases
<1>5. Asked(type)'
  <2>1. TypeOK /\ i \in DOMAIN actions /\ actions[i].type = type
    BY DEF IInv, OfType
  <2>2. /\ i \in DOMAIN actions' /\ actions'[i].type = type /\ actions'[i].status = "PENDING"
        /\ actions'[i].honeydew
    <3>1. actions[i] \in ActionRecord
      BY <2>1, ActionsTyped
    <3>2. /\ DOMAIN actions' = DOMAIN actions
          /\ actions'[i].status = actions[i].status /\ actions'[i].type = actions[i].type
      BY <2>1, FlagEdit
    <3>3. actions'[i].honeydew
      BY <2>1, <3>1 DEF ActionRecord
    <3> QED
      BY <2>1, <3>2, <3>3
  <2> QED
    BY <2>2 DEF Asked, OfType
<1>6. Supports(Gate(type), "none", "end")
  BY <1>1, <1>2, <1>3, <1>4, <1>5 DEF Supports
<1> QED
  BY <1>2, <1>6, MovesOn

\* The steps of the evaluation contract.
LEMMA LedContract ==
    ASSUME IInv, Next, Contract
    PROVE  Led'
<1>1. RecordStep /\ Grew /\ TypeOK /\ Acting
  BY StepFacts
<1>2. /\ {"BEAKER_PLANNING", "BEAKER_DRAFTING_CONTRACT", "HONEYDEW_REVIEWING_CONTRACT"}
           \subseteq PlainStates \ {"NONE"}
      /\ {"plan", "draft_contract"} \subseteq PlainPhases
  BY DEF PlainStates, PlainPhases
<1>3. CASE BeginDraftContract
  <2>1. w.step = "begin" /\ w.phase = "draft_contract" /\ UNCHANGED actions /\ w.phase \in WorkPhases
    BY <1>3, Names DEF BeginDraftContract
  <2>2. CASE MoveTo("BEAKER_PLANNING", "plan")
    BY <1>1, <1>2, <2>1, <2>2, PlainMove
  <2>3. CASE StartTurn(Len(actions), 0)
    BY <1>1, <2>1, <2>3, NewestNumber, Turns
  <2> QED
    BY <1>3, <2>2, <2>3 DEF BeginDraftContract
<1>4. CASE RecordCandidate
  <2>1. w.step = "after" /\ w.phase = "draft_contract" /\ w.phase \in WorkPhases
    BY <1>4, Names DEF RecordCandidate
  <2>2. CASE Begin("draft_contract")
    BY <1>1, <1>2, <2>1, <2>2, PlainBegin
  <2>3. CASE /\ Cardinality(Requested("propose_evaluation_contract")) = 1
             /\ w' = [w EXCEPT !.step = "seal", !.act = Max(Requested("propose_evaluation_contract"))]
    <3> DEFINE R == Requested("propose_evaluation_contract")
          n == Max(R)
    <3>1. R \in SUBSET DOMAIN actions /\ R # {}
      BY <2>3, FS_EmptySet DEF Requested, OfStatus, OfType
    <3>2. n \in R /\ w' = [w EXCEPT !.step = "seal", !.act = n]
      BY <1>1, <2>3, <3>1, NewestAction
    <3> HIDE DEF n
    <3>3. w \in Worker(DOMAIN actions) /\ w.next = "none" /\ UNCHANGED actions
      BY <1>1, <1>4, <2>1, WorkerTyped DEF Acting, RecordCandidate, data
    <3>4. /\ w' \in Worker(DOMAIN actions') /\ w'.step = "seal" /\ w'.act = n
          /\ w'.phase = w.phase /\ w'.target = w.target /\ w'.next = w.next
          /\ n \in OfStatus("propose_evaluation_contract", "PENDING")'
      <4>1. n \in DOMAIN actions /\ n \in OfStatus("propose_evaluation_contract", "PENDING")
        BY <3>1, <3>2 DEF Requested
      <4>2. n \in OfStatus("propose_evaluation_contract", "PENDING")'
        BY <3>3, <4>1 DEF OfStatus, OfType
      <4> HIDE DEF R
      <4> QED
        BY <3>2, <3>3, <4>1, <4>2, Names DEF Worker
    <3>5. Acting'
      BY <2>1, <3>3, <3>4 DEF Acting
    <3>6. Passed'
      BY <1>1, <3>4, PassedKept, NothingNeeded
    <3> QED
      BY <3>4, <3>5, <3>6 DEF Led
  <2> QED
    BY <1>4, <2>2, <2>3 DEF RecordCandidate
<1>5. CASE SealCandidate
  <2>1. w.act \in OfType("propose_evaluation_contract") /\ w.step = "seal"
    BY <1>1, <1>5 DEF SealCandidate, Acting, OfStatus
  <2>2. w.phase \in WorkPhases
    BY <1>1, <2>1, Names DEF Acting
  <2>3. CASE MoveTo("HONEYDEW_REVIEWING_CONTRACT", "review_contract")
    <3>1. Supports("HONEYDEW_REVIEWING_CONTRACT", "none", "review_contract")
      BY <1>1, <1>2, <2>2, PlainSupport, Names
    <3> QED
      BY <1>1, <1>2, <2>1, <2>3, <3>1, Names, MovesOn
  <2>4. CASE Raise \/ AskHuman
    BY <1>1, <2>1, <2>4, Halts
  <2>5. CASE Begin("draft_contract")
    BY <1>1, <1>2, <2>2, <2>5, PlainBegin
  <2> QED
    BY <1>5, <2>3, <2>4, <2>5 DEF SealCandidate
<1>6. CASE ReviewContract
  <2>1. /\ w.phase \in WorkPhases /\ w.act \in OfType("propose_evaluation_contract")
    BY <1>1, <1>6, Names DEF ReviewContract, Acting
  <2>2. CASE Raise
    BY <1>1, <2>2, Halts
  <2>3. CASE MoveTo("BEAKER_DRAFTING_CONTRACT", "draft_contract")
    BY <1>1, <1>2, <2>1, <2>3, PlainMove
  <2>4. CASE /\ actions[w.act].status = "PENDING" /\ actions' = [actions EXCEPT ![w.act].honeydew = TRUE]
             /\ MoveTo("AWAITING_CONTRACT_PROMOTION", "end")
    <3>1. MoveTo(Gate("propose_evaluation_contract"), "end")
      BY <2>4, Gates
    <3> QED
      BY <1>1, <2>1, <2>4, <3>1, GateMove
  <2> QED
    BY <1>6, <2>2, <2>3, <2>4 DEF ReviewContract
<1>7. CASE PromoteContract
  <2>1. w.phase \in WorkPhases
    BY <1>7, Names DEF PromoteContract
  <2>2. CASE Raise \/ Finish
    BY <1>1, <2>2, Halts
  <2>3. CASE MoveTo("BEAKER_PLANNING", "plan")
    BY <1>1, <1>2, <2>1, <2>3, PlainMove
  <2> QED
    BY <1>7, <2>2, <2>3 DEF PromoteContract
<1> QED
  BY <1>3, <1>4, <1>5, <1>6, <1>7 DEF Contract

\* Plan, implementation, review and revisions.
LEMMA LedMethodology ==
    ASSUME IInv, Next, Methodology
    PROVE  Led'
<1>1. RecordStep /\ Grew /\ TypeOK /\ Acting
  BY StepFacts
<1>2. /\ {"BEAKER_PLANNING", "BEAKER_IMPLEMENTING", "HONEYDEW_REVIEWING", "BEAKER_REVISING"}
           \subseteq PlainStates \ {"NONE"}
      /\ {"plan", "implement", "review", "revision", "budget", "revise"} \subseteq PlainPhases
  BY DEF PlainStates, PlainPhases
<1>3. w.phase \in WorkPhases
  BY Names DEF Methodology, Plan, BeginImplement, ProposeMatrix, BeginReview, Review, CountRevision,
     CheckRevisions
<1>4. CASE Plan
  BY <1>1, <1>2, <1>3, <1>4, PlainMove DEF Plan
<1>5. CASE BeginImplement
  <2>1. w.step = "begin" /\ w.phase \in {"implement", "finalize"} /\ UNCHANGED actions
    BY <1>5 DEF BeginImplement, data
  <2>2. CASE StartTurn(Len(actions), 0)
    BY <1>1, <2>1, <2>2, NewestNumber, Turns
  <2>3. CASE MoveTo("BEAKER_PLANNING", "plan") \/ MoveTo("BEAKER_IMPLEMENTING", "implement")
    BY <1>1, <1>2, <1>3, <2>3, PlainMove
  <2> QED
    BY <1>5, <2>2, <2>3 DEF BeginImplement
<1>6. CASE ProposeMatrix
  <2>1. CASE MoveTo("HONEYDEW_REVIEWING", "review")
    BY <1>1, <1>2, <1>3, <2>1, PlainMove
  <2>2. CASE Begin("revision")
    BY <1>1, <1>2, <1>3, <2>2, PlainBegin
  <2> QED
    BY <1>6, <2>1, <2>2 DEF ProposeMatrix
<1>7. CASE BeginReview
  <2>1. w.step = "begin" /\ w.phase = "review"
    BY <1>7 DEF BeginReview
  <2>2. CASE Raise \/ AskHuman
    BY <1>1, <2>1, <2>2, Halts
  <2>3. CASE Begin("revision")
    BY <1>1, <1>2, <1>3, <2>3, PlainBegin
  <2>4. CASE UNCHANGED actions /\ PendingMatrices # {} /\ StartTurn(Max(PendingMatrices), 0)
    <3> DEFINE m == Max(PendingMatrices)
    <3>1. m \in PendingMatrices /\ m \in DOMAIN actions /\ StartTurn(m, 0)
      BY <1>1, <2>4, PendingMatrix
    <3> HIDE DEF m
    <3> QED
      BY <1>1, <2>1, <2>4, <3>1, Turns
  <2> QED
    BY <1>7, <2>2, <2>3, <2>4 DEF BeginReview
<1>8. CASE Review
  <2>1. CASE Begin("revision")
    BY <1>1, <1>2, <1>3, <2>1, PlainBegin
  <2>2. CASE /\ actions' = [actions EXCEPT ![w.act].honeydew = TRUE]
             /\ MoveTo("AWAITING_EXECUTION_APPROVAL", "end")
    <3>1. w.act \in OfType("submit_experiment_matrix") /\ actions[w.act].status = "PENDING"
      BY <1>1, <1>8 DEF Review, Acting, PendingMatrices, OfStatus
    <3>2. MoveTo(Gate("submit_experiment_matrix"), "end")
      BY <2>2, Gates
    <3> QED
      BY <1>1, <1>3, <2>2, <3>1, <3>2, GateMove
  <2> QED
    BY <1>8, <2>1, <2>2 DEF Review
<1>9. CASE CountRevision
  <2>1. CASE MoveTo("BEAKER_REVISING", "budget")
    BY <1>1, <1>2, <1>3, <2>1, PlainMove
  <2>2. CASE Begin("budget")
    BY <1>1, <1>2, <1>3, <2>2, PlainBegin
  <2> QED
    BY <1>9, <2>1, <2>2 DEF CountRevision
<1>10. CASE CheckRevisions
  <2>1. CASE AskHuman
    BY <1>1, <1>10, <2>1, Halts DEF CheckRevisions
  <2>2. CASE Begin("revise")
    BY <1>1, <1>2, <1>3, <2>2, PlainBegin
  <2> QED
    BY <1>10, <2>1, <2>2 DEF CheckRevisions
<1> QED
  BY <1>4, <1>5, <1>6, <1>7, <1>8, <1>9, <1>10 DEF Methodology

\* The moves between the phases that work on results.
LEMMA ResultMove ==
    ASSUME IInv, RecordStep, Grew, state \in PastProtocolGate \/ w.phase \in WorkPhases,
           state \in ResultStates \/ w.phase \in ResultPhases \/ w.step = "queue",
           NEW t \in ResultStates \ {"AWAITING_FINAL_ACCEPTANCE", "COMPLETE"},
           NEW n \in ResultPhases \cup {"end"}, MoveTo(t, n)
    PROVE  Led'
<1>1. n \in Phases \cup {"end"} /\ n \notin {"submit", "promote", "review_contract"}
  BY DEF Phases, ResultPhases
<1>2. t \in RunState
  BY Names
<1>3. Supports(t, "none", n)
  BY ResultSupport
<1> QED
  BY <1>1, <1>2, <1>3, MovesOn

\* Submission, jobs, analysis, verification and report.
LEMMA LedExecution ==
    ASSUME IInv, Next, Execution
    PROVE  Led'
<1>1. RecordStep /\ Grew /\ TypeOK /\ Acting
  BY StepFacts
<1>2. /\ "BEAKER_REVISING" \in PlainStates \ {"NONE"} /\ {"repair", "revise"} \subseteq PlainPhases
      /\ {"JOB_QUEUED", "JOB_RUNNING", "BEAKER_ANALYZING", "HONEYDEW_VERIFYING", "HONEYDEW_WRITING_REPORT"}
           \subseteq ResultStates \ {"AWAITING_FINAL_ACCEPTANCE", "COMPLETE"}
      /\ ResultPhases = {"jobs", "analyze", "verify", "write_report"}
  BY DEF PlainStates, PlainPhases, ResultStates, ResultPhases
<1>3. CASE SubmitMatrix
  <2>1. w.step = "begin" /\ w.phase = "submit" /\ w.phase \in WorkPhases
    BY <1>3, Names DEF SubmitMatrix
  <2>2. CASE Raise
    BY <1>1, <2>2, Halts
  <2>3. CASE w' = [w EXCEPT !.phase = "repair", !.driver = "repair"]
    <3>1. w \in Worker(DOMAIN actions) /\ w.next = "none"
      BY <1>1, <2>1, WorkerTyped DEF Acting
    <3>2. /\ w' \in Worker(DOMAIN actions) /\ w'.step = "begin" /\ w'.phase = "repair"
          /\ w'.act = w.act /\ w'.target = w.target /\ w'.next = w.next
      BY <2>1, <2>3, <3>1 DEF Worker, Phases, Drivers
    <3>3. w' \in Worker(DOMAIN actions')
      BY <1>1, <3>2, WorkerGrows DEF Grew
    <3>4. Acting'
      BY <3>1, <3>2 DEF Acting
    <3>5. Supports("NONE", "repair", "none")
      BY <1>1, <2>1, PlainSupport, Names DEF PlainStates
    <3>6. Passed'
      BY <1>1, <3>2, <3>5, PassedKept
    <3> QED
      BY <3>3, <3>4, <3>6 DEF Led
  <2>4. CASE w' = [w EXCEPT !.step = "queue"] /\ submitted' = submitted \cup {w.act}
    <3>1. w \in Worker(DOMAIN actions) /\ w.next = "none"
      BY <1>1, <2>1, WorkerTyped DEF Acting
    <3>2. /\ w' \in Worker(DOMAIN actions) /\ w'.step = "queue"
          /\ w'.phase = w.phase /\ w'.act = w.act /\ w'.target = w.target /\ w'.next = w.next
      BY <2>4, <3>1, StepFields, Names
    <3>3. w' \in Worker(DOMAIN actions')
      BY <1>1, <3>2, WorkerGrows DEF Grew
    <3>4. Acting'
      BY <2>1, <3>1, <3>2 DEF Acting
    <3>5. submitted' # {}
      BY <2>4
    <3>6. Passed'
      BY <1>1, <3>2, <3>5, PassedKept, NothingNeeded
    <3> QED
      BY <3>3, <3>4, <3>6 DEF Led
  <2> QED
    BY <1>3, <2>2, <2>3, <2>4 DEF SubmitMatrix
<1>4. CASE RepairMatrix
  <2>1. w.phase \in WorkPhases
    BY <1>4, Names DEF RepairMatrix
  <2>2. CASE Finish
    BY <1>1, <2>2, Halts
  <2>3. CASE MoveTo("BEAKER_REVISING", "revise")
    BY <1>1, <1>2, <2>1, <2>3, PlainMove
  <2> QED
    BY <1>4, <2>2, <2>3 DEF RepairMatrix
<1>5. CASE QueueJobs
  <2>1. CASE Raise
    BY <1>1, <2>1, Halts
  <2>2. CASE state = "AWAITING_EXECUTION_APPROVAL" /\ MoveTo("JOB_QUEUED", "jobs")
    <3>1. state \in PastProtocolGate /\ w.step = "queue"
      BY <1>5, <2>2, Names DEF QueueJobs
    <3> QED
      BY <1>1, <1>2, <2>2, <3>1, ResultMove
  <2> QED
    BY <1>5, <2>1, <2>2 DEF QueueJobs
<1>6. CASE JobsActive \/ JobsOver
  <2>1. w.phase \in WorkPhases /\ w.phase \in ResultPhases
    BY <1>2, <1>6, Names DEF JobsActive, JobsOver
  <2>2. CASE Finish
    BY <1>1, <2>2, Halts
  <2>3. CASE MoveTo("JOB_RUNNING", "end") \/ MoveTo("BEAKER_ANALYZING", "analyze")
    BY <1>1, <1>2, <2>1, <2>3, ResultMove
  <2> QED
    BY <1>6, <2>2, <2>3 DEF JobsActive, JobsOver
<1>7. CASE Analyze \/ Verify
  <2>1. w.phase \in WorkPhases /\ w.phase \in ResultPhases
    BY <1>2, <1>7, Names DEF Analyze, Verify
  <2>2. CASE MoveTo("HONEYDEW_VERIFYING", "verify") \/ MoveTo("HONEYDEW_WRITING_REPORT", "write_report")
    BY <1>1, <1>2, <2>1, <2>2, ResultMove
  <2>3. CASE MoveTo("BEAKER_REVISING", "revise")
    BY <1>1, <1>2, <2>1, <2>3, PlainMove
  <2> QED
    BY <1>7, <2>2, <2>3 DEF Analyze, Verify
<1>8. CASE WriteReport
  <2>1. w.phase \in WorkPhases /\ w.phase \in ResultPhases /\ w.step = "after"
    BY <1>2, <1>8, Names DEF WriteReport
  <2>2. CASE AskHuman
    BY <1>1, <2>1, <2>2, Halts
  <2>3. CASE /\ actions' = Append(actions, NewAction("accept_final_report", report + 1))
             /\ MoveTo("AWAITING_FINAL_ACCEPTANCE", "end")
    <3>1. report + 1 \in 0..MaxTurns
      BY <2>1, VersionsFit DEF AtTurn
    <3>3. Asked("accept_final_report")'
      BY <1>1, <2>3, <3>1, AppendAsks
    <3>4. OfStatus("approve_protocol", "APPROVED")' # {} /\ submitted' # {}
      BY <1>1, <2>1, SetsGrow DEF IInv, Passed, Doing, Grew
    <3>5. \A type \in GateTypes : Gate(type) = "AWAITING_FINAL_ACCEPTANCE" => type = "accept_final_report"
      BY Gates DEF GateTypes
    <3>6. Supports("AWAITING_FINAL_ACCEPTANCE", "none", "end")
      BY <3>3, <3>4, <3>5 DEF Supports
    <3> QED
      BY <1>1, <2>3, <3>6, Names, MovesOn
  <2> QED
    BY <1>8, <2>2, <2>3 DEF WriteReport
<1> QED
  BY <1>3, <1>4, <1>5, <1>6, <1>7, <1>8 DEF Execution

\* A run moves to COMPLETE from the report gate, with an accepted report.
LEMMA Completes ==
    ASSUME IInv, RecordStep, Grew, state = "AWAITING_FINAL_ACCEPTANCE",
           OfStatus("accept_final_report", "APPROVED") # {}, MoveTo("COMPLETE", "end")
    PROVE  Led'
<1>1. state \in PastProtocolGate /\ state \in ResultStates
  BY Names DEF ResultStates
<1>2. OfStatus("approve_protocol", "APPROVED")' # {} /\ submitted' # {}
  BY <1>1, SetsGrow DEF IInv, Passed, Reach, Grew
<1>3. OfStatus("accept_final_report", "APPROVED")' # {}
  BY SetsGrow
<1>4. \A type \in GateTypes : Gate(type) # "COMPLETE"
  BY Gates DEF GateTypes
<1>5. Supports("COMPLETE", "none", "end")
  BY <1>2, <1>3, <1>4 DEF Supports
<1> QED
  BY <1>5, Names, MovesOn

\* The states behind the protocol gate in which a decision or recovery starts.
LEMMA StateNames ==
    /\ {"AWAITING_CONTRACT_PROMOTION", "AWAITING_EXECUTION_APPROVAL", "AWAITING_FINAL_ACCEPTANCE"}
          \cup (PlainStates \ {"NONE"}) \cup ResultStates \subseteq PastProtocolGate
    /\ {"BEAKER_PLANNING", "BEAKER_DRAFTING_CONTRACT", "BEAKER_REVISING", "HONEYDEW_REVIEWING",
        "BEAKER_FINALIZING", "HONEYDEW_REVIEWING_CONTRACT", "BEAKER_IMPLEMENTING"} = PlainStates \ {"NONE"}
    /\ {"plan", "draft_contract", "revise", "review", "finalize", "implement"} \subseteq PlainPhases
    /\ "HONEYDEW_DRAFTING_PROTOCOL" \in EarlyStates /\ "HONEYDEW_DRAFTING_PROTOCOL" \in RunState
    /\ {"JOB_QUEUED", "JOB_RUNNING", "BEAKER_ANALYZING", "HONEYDEW_VERIFYING", "HONEYDEW_WRITING_REPORT"}
          \subseteq ResultStates \ {"AWAITING_FINAL_ACCEPTANCE", "COMPLETE"}
    /\ "NONE" \in PlainStates /\ "NONE" \in EarlyStates
    /\ {"draft", "none"} \subseteq AnyPhase \ WorkPhases
    /\ ResultPhases = {"jobs", "analyze", "verify", "write_report"}
BY Names DEF PlainStates, ResultStates, PlainPhases, EarlyStates, AnyPhase, WorkPhases, ResultPhases, Phases

\* A rejected or interrupted protocol is drafted again.
LEMMA DraftsAgain ==
    ASSUME IInv, RecordStep, Grew, MoveTo("HONEYDEW_DRAFTING_PROTOCOL", "draft")
    PROVE  Led'
<1>1. Supports("HONEYDEW_DRAFTING_PROTOCOL", "none", "draft")
  BY EarlySupport, StateNames
<1> QED
  BY <1>1, MovesOn, StateNames, Names

\* _resume_approved_action and _resume_rejected_action go where the decision
\* allows.
LEMMA LedByDecision ==
    ASSUME IInv, Next, ResumeDecided
    PROVE  Led'
<1>1. RecordStep /\ Grew /\ TypeOK /\ Acting
  BY StepFacts
<1>2. w.step = "decide" /\ UNCHANGED <<actions, submitted>>
  BY DEF ResumeDecided, data
<1> DEFINE type == actions[w.act].type
<1>3. w.act \in DOMAIN actions /\ type \in ActionTypes
  <2>1. w.act \in DOMAIN actions
    BY <1>1, <1>2 DEF Acting
  <2>2. actions[w.act] \in ActionRecord
    BY <1>1, <2>1, ActionsTyped
  <2> QED
    BY <2>1, <2>2 DEF ActionRecord
<1>4. CASE Finish
  BY <1>1, <1>4, Halts
<1>7. state = Gate(type) => type \in GateTypes
  BY <1>1, <1>3, Gates, Resumables DEF TypeOK, ActionTypes
<1>5. CASE state = Gate(type) /\ w.driver # "reject" /\ ActOnApproval(w.act)
  <2>1. actions[w.act].status = "APPROVED"
    BY <1>1, <1>2, <1>5 DEF Acting
  <2>2. CASE type = "approve_protocol"
    <3>1. OfStatus("approve_protocol", "APPROVED")' # {}
      <4>1. w.act \in OfStatus("approve_protocol", "APPROVED")
        BY <1>3, <2>1, <2>2 DEF OfStatus, OfType
      <4> QED
        BY <1>1, <4>1, SetsGrow
    <3>2. \A t \in {"BEAKER_PLANNING", "BEAKER_DRAFTING_CONTRACT"} :
            t \notin ResultStates /\ t # "COMPLETE" /\ \A u \in GateTypes : t # Gate(u)
      BY Gates DEF ResultStates, GateTypes
    <3>3. {"none", "plan", "draft_contract"} \cap ResultPhases = {}
      BY DEF ResultPhases
    <3>4. /\ Supports("BEAKER_PLANNING", "none", "plan")
          /\ Supports("BEAKER_DRAFTING_CONTRACT", "none", "draft_contract")
      BY <3>1, <3>2, <3>3 DEF Supports
    <3>5. MoveTo("BEAKER_PLANNING", "plan") \/ MoveTo("BEAKER_DRAFTING_CONTRACT", "draft_contract")
      BY <1>5, <2>2 DEF ActOnApproval
    <3>6. {"BEAKER_PLANNING", "BEAKER_DRAFTING_CONTRACT"} \subseteq RunState
      BY Names, StateNames
    <3> QED
      BY <1>1, <3>4, <3>5, <3>6, Names, MovesOn
  <2>3. CASE type = "propose_evaluation_contract"
    <3>1. BeginOn("promote", w.act) /\ state \in PastProtocolGate
      BY <1>5, <2>3, Gates, Names DEF ActOnApproval
    <3>2. Supports("NONE", "promote", "none")
      BY <1>1, <3>1, PlainSupport, StateNames, Names
    <3> QED
      BY <1>1, <1>2, <1>3, <2>3, <3>1, <3>2, BeginsOn, Names
  <2>4. CASE type = "submit_experiment_matrix"
    <3>1. BeginOn("submit", w.act) /\ state \in PastProtocolGate
      BY <1>5, <2>4, Gates, Names DEF ActOnApproval
    <3>2. Supports("NONE", "submit", "none")
      BY <1>1, <3>1, PlainSupport, StateNames, Names
    <3> QED
      BY <1>1, <1>2, <1>3, <2>1, <2>4, <3>1, <3>2, BeginsOn, Names
  <2>5. CASE type = "accept_final_report"
    <3>1. MoveTo("COMPLETE", "end") /\ state = "AWAITING_FINAL_ACCEPTANCE"
      BY <1>5, <2>5, Gates DEF ActOnApproval
    <3>2. w.act \in OfStatus("accept_final_report", "APPROVED")
      BY <1>3, <2>1, <2>5 DEF OfStatus, OfType
    <3> QED
      BY <1>1, <3>1, <3>2, Completes
  <2> QED
    BY <1>5, <1>7, <2>2, <2>3, <2>4, <2>5 DEF GateTypes
<1>6. CASE state = Gate(type) /\ ActOnRejection(w.act)
  <2>1. CASE type = "approve_protocol"
    BY <1>1, <1>6, <2>1, DraftsAgain DEF ActOnRejection
  <2>2. CASE type = "propose_evaluation_contract"
    <3>1. MoveTo("BEAKER_DRAFTING_CONTRACT", "draft_contract") /\ state \in PastProtocolGate
      BY <1>6, <2>2, Gates, Names DEF ActOnRejection
    <3> QED
      BY <1>1, <3>1, PlainMove, StateNames
  <2>3. CASE type = "submit_experiment_matrix"
    <3>1. MoveTo("BEAKER_REVISING", "revise") /\ state \in PastProtocolGate
      BY <1>6, <2>3, Gates, Names DEF ActOnRejection
    <3> QED
      BY <1>1, <3>1, PlainMove, StateNames
  <2>4. CASE type = "accept_final_report"
    <3>1. /\ MoveTo("HONEYDEW_WRITING_REPORT", "write_report")
          /\ state \in PastProtocolGate /\ state \in ResultStates
      BY <1>6, <2>4, Gates, Names DEF ActOnRejection, ResultStates
    <3> QED
      BY <1>1, <3>1, ResultMove, StateNames
  <2> QED
    BY <1>6, <1>7, <2>1, <2>2, <2>3, <2>4 DEF GateTypes
<1> QED
  BY <1>4, <1>5, <1>6 DEF ResumeDecided, ActOnApproval, ActOnRejection

\* _recover_run enters no phase whose gate the run had not passed.
LEMMA LedByRecovery ==
    ASSUME IInv, Next, RecoverRun
    PROVE  Led'
<1>1. RecordStep /\ Grew /\ TypeOK /\ Acting
  BY StepFacts
<1>2. w.step = "recover"
  BY DEF RecoverRun
<1>3. CASE state \in ContractSensitive /\ MoveTo("BEAKER_DRAFTING_CONTRACT", "draft_contract")
  <2>1. state \in PastProtocolGate
    BY <1>3, Names, StateNames DEF ContractSensitive
  <2> QED
    BY <1>1, <1>3, <2>1, PlainMove, StateNames
<1>4. CASE UNCHANGED actions /\ Reenter
  <2>1. CASE Finish
    BY <1>1, <2>1, Halts
  <2>2. CASE state \in DOMAIN PhaseOf /\ Begin(PhaseOf[state])
    <3>1. CASE state = "HONEYDEW_DRAFTING_PROTOCOL"
      <4>1. Begin("draft")
        BY <2>2, <3>1 DEF PhaseOf
      <4>2. Supports("NONE", "draft", "none")
        BY EarlySupport, StateNames
      <4> QED
        BY <1>1, <4>1, <4>2, Begins, StateNames
    <3>2. CASE state \in {"BEAKER_DRAFTING_CONTRACT", "BEAKER_PLANNING", "BEAKER_FINALIZING", "BEAKER_REVISING"}
      <4>1. Begin("draft_contract") \/ Begin("plan") \/ Begin("finalize") \/ Begin("revise")
        BY <2>2, <3>2 DEF PhaseOf
      <4>2. state \in PastProtocolGate
        BY <3>2, StateNames
      <4> QED
        BY <1>1, <4>1, <4>2, PlainBegin, StateNames
    <3>3. CASE state \in {"JOB_QUEUED", "JOB_RUNNING", "BEAKER_ANALYZING", "HONEYDEW_VERIFYING",
                          "HONEYDEW_WRITING_REPORT"}
      <4>1. Begin("jobs") \/ Begin("analyze") \/ Begin("verify") \/ Begin("write_report")
        BY <2>2, <3>3 DEF PhaseOf
      <4>2. state \in PastProtocolGate /\ state \in ResultStates
        BY <3>3, StateNames
      <4>3. \A p \in ResultPhases : Supports("NONE", p, "none")
        BY <1>1, <4>2, ResultSupport, StateNames
      <4>4. \A p \in ResultPhases : p \in AnyPhase /\ p \notin {"submit", "promote", "review_contract"}
        BY DEF ResultPhases, AnyPhase, Phases
      <4> QED
        BY <1>1, <4>1, <4>3, <4>4, Begins, StateNames
    <3> QED
      BY <2>2, <3>1, <3>2, <3>3 DEF PhaseOf
  <2>3. CASE MoveTo("HONEYDEW_DRAFTING_PROTOCOL", "draft")
    BY <1>1, <2>3, DraftsAgain
  <2>4. CASE state = "HONEYDEW_REVIEWING_CONTRACT"
    <3>1. state \in PastProtocolGate /\ state \notin DOMAIN PhaseOf /\ state # "PREPARING"
      BY <2>4, StateNames DEF PhaseOf
    <3>2. CASE MoveTo("BEAKER_DRAFTING_CONTRACT", "draft_contract")
      BY <1>1, <3>1, <3>2, PlainMove, StateNames
    <3>3. CASE Sealed # {} /\ BeginOn("review_contract", Max(Sealed))
      <4> DEFINE i == Max(Sealed)
      <4>1. Sealed \in SUBSET DOMAIN actions
        BY DEF Sealed, OfType
      <4>2. i \in Sealed /\ BeginOn("review_contract", i)
        BY <1>1, <3>3, <4>1, NewestAction
      <4> HIDE DEF i
      <4>3. i \in DOMAIN actions /\ actions[i].type = "propose_evaluation_contract"
        BY <4>2 DEF Sealed, OfType
      <4>4. Supports("NONE", "review_contract", "none")
        BY <1>1, <3>1, PlainSupport, StateNames, Names
      <4> QED
        BY <1>1, <1>2, <1>4, <4>2, <4>3, <4>4, BeginsOn, Names
    <3> QED
      BY <1>4, <2>4, <3>1, <3>2, <3>3 DEF Reenter
  <2>5. CASE state = "AWAITING_CONTRACT_PROMOTION"
    <3>1. state \in PastProtocolGate /\ state \notin DOMAIN PhaseOf
      BY <2>5, StateNames DEF PhaseOf
    <3> DEFINE A == OfStatus("propose_evaluation_contract", "APPROVED")
    <3>2. CASE A # {} /\ BeginOn("promote", Max(A))
      <4> DEFINE i == Max(A)
      <4>1. A \in SUBSET DOMAIN actions
        BY DEF OfStatus, OfType
      <4>2. i \in A /\ BeginOn("promote", i)
        BY <1>1, <3>2, <4>1, NewestAction
      <4> HIDE DEF i
      <4>3. i \in DOMAIN actions /\ actions[i].type = "propose_evaluation_contract"
        BY <4>2 DEF OfStatus, OfType
      <4>4. Supports("NONE", "promote", "none")
        BY <1>1, <3>1, PlainSupport, StateNames, Names
      <4> QED
        BY <1>1, <1>2, <1>4, <4>2, <4>3, <4>4, BeginsOn, Names
    <3>3. Finish \/ (A # {} /\ BeginOn("promote", Max(A)))
      BY <1>4, <2>5, <3>1 DEF Reenter
    <3> QED
      BY <2>1, <3>2, <3>3
  <2>6. CASE state \in {"BEAKER_IMPLEMENTING", "HONEYDEW_REVIEWING"}
    <3>1. state \in PastProtocolGate /\ state \notin DOMAIN PhaseOf
      BY <2>6, StateNames DEF PhaseOf
    <3>2. CASE \/ MoveTo("HONEYDEW_REVIEWING", "review") \/ MoveTo("BEAKER_FINALIZING", "finalize")
               \/ MoveTo("BEAKER_REVISING", "revise")
      BY <1>1, <3>1, <3>2, PlainMove, StateNames
    <3>3. CASE Begin("implement") \/ Begin("review")
      BY <1>1, <3>1, <3>3, PlainBegin, StateNames
    <3> QED
      BY <1>4, <2>6, <3>1, <3>2, <3>3 DEF Reenter
  <2>7. CASE state = "AWAITING_EXECUTION_APPROVAL"
    <3>1. state \in PastProtocolGate /\ state \notin DOMAIN PhaseOf
      BY <2>7, StateNames DEF PhaseOf
    <3> DEFINE M == OfType("submit_experiment_matrix")
    <3>2. CASE M # {} /\ actions[Max(M)].status = "APPROVED" /\ BeginOn("submit", Max(M))
      <4> DEFINE i == Max(M)
      <4>1. M \in SUBSET DOMAIN actions
        BY DEF OfType
      <4>2. i \in M /\ BeginOn("submit", i) /\ actions[i].status = "APPROVED"
        BY <1>1, <3>2, <4>1, NewestAction
      <4> HIDE DEF i
      <4>3. i \in DOMAIN actions /\ actions[i].type = "submit_experiment_matrix"
        BY <4>2 DEF OfType
      <4>4. Supports("NONE", "submit", "none")
        BY <1>1, <3>1, PlainSupport, StateNames, Names
      <4> QED
        BY <1>1, <1>2, <1>4, <4>2, <4>3, <4>4, BeginsOn, Names
    <3>3. Finish \/ (M # {} /\ actions[Max(M)].status = "APPROVED" /\ BeginOn("submit", Max(M)))
      BY <1>4, <2>7, <3>1 DEF Reenter
    <3> QED
      BY <2>1, <3>2, <3>3
  <2>8. CASE state = "AWAITING_FINAL_ACCEPTANCE"
    <3>1. state \notin DOMAIN PhaseOf
      BY <2>8 DEF PhaseOf
    <3>2. Finish \/ (OfStatus("accept_final_report", "APPROVED") # {} /\ MoveTo("COMPLETE", "end"))
      BY <1>4, <2>8, <3>1 DEF Reenter
    <3> QED
      BY <1>1, <2>1, <2>8, <3>2, Completes
  <2> QED
    BY <1>4, <2>1, <2>2, <2>3, <2>4, <2>5, <2>6, <2>7, <2>8 DEF Reenter
<1> QED
  BY <1>3, <1>4 DEF RecoverRun

\* approve_action and reject_action hand the worker a decided action.
LEMMA LedByHuman ==
    ASSUME IInv, Next, NEW i \in DOMAIN actions, approve_action(i) \/ reject_action(i)
    PROVE  Led'
<1>1. RecordStep /\ Grew /\ TypeOK /\ Acting
  BY StepFacts
<1>2. ASSUME NEW d \in {"approve", "reapprove", "reject"}, Decide(i, d),
             d # "reject" => actions'[i].status = "APPROVED"
      PROVE  Led'
  <2>1. Idle \in Worker({}) /\ Idle.target = "NONE" /\ Idle.next = "none" /\ Idle.phase = "none"
    BY IdleFields
  <2>2. /\ w' \in Worker(DOMAIN actions) /\ w'.step = "decide" /\ w'.act = i /\ w'.driver = d
        /\ w'.phase = "none" /\ w'.target = "NONE" /\ w'.next = "none"
    BY <1>2, <2>1 DEF Decide, Worker, Steps, Drivers
  <2> QED
    BY <1>1, <1>2, <2>2, Enters, NothingNeeded
<1>3. CASE reject_action(i)
  BY <1>2, <1>3 DEF reject_action
<1>4. CASE approve_action(i)
  <2>1. CASE actions[i].status = "APPROVED" /\ Decide(i, "reapprove") /\ UNCHANGED actions
    BY <1>2, <2>1
  <2>2. CASE SetStatus(i, "APPROVED") /\ Decide(i, "approve")
    <3>1. actions'[i].status = "APPROVED"
      BY <1>1, <2>2, StatusEdit DEF ApprovalStatus
    <3> QED
      BY <1>2, <2>2, <3>1
  <2> QED
    BY <1>4, <2>1, <2>2 DEF approve_action
<1> QED
  BY <1>3, <1>4

\* The watcher, pauses, resumes, cancels, crashes and recovery.
LEMMA LedOutside ==
    ASSUME IInv, Next, Outside
    PROVE  Led'
<1>1. RecordStep /\ Grew /\ TypeOK /\ Acting
  BY StepFacts
<1>2. Idle \in Worker({}) /\ Idle.target = "NONE" /\ Idle.next = "none" /\ Idle.phase = "none" /\ Idle.act = 0
  BY IdleFields
<1>3. CASE UNCHANGED <<w, actions, submitted>>
  BY <1>1, <1>3, Waits
<1>4. CASE Finish
  BY <1>1, <1>4, Halts
<1>5. ASSUME NEW d \in {"resume", "recover"}, w' = [Idle EXCEPT !.step = "recover", !.driver = d]
      PROVE  Led'
  <2>1. /\ w' \in Worker(DOMAIN actions) /\ w'.step = "recover"
        /\ w'.phase = "none" /\ w'.target = "NONE" /\ w'.next = "none"
    BY <1>2, <1>5 DEF Worker, Steps, Drivers
  <2> QED
    BY <1>1, <2>1, Enters, NothingNeeded
<1>6. CASE Reconcile
  <2>1. /\ state \in {"JOB_QUEUED", "JOB_RUNNING"}
        /\ w' = [Idle EXCEPT !.step = "begin", !.phase = "jobs", !.driver = "watcher"]
    BY <1>6 DEF Reconcile
  <2>2. /\ w' \in Worker(DOMAIN actions) /\ w'.step = "begin"
        /\ w'.phase = "jobs" /\ w'.target = "NONE" /\ w'.next = "none"
    BY <1>2, <2>1 DEF Worker, Steps, Drivers, Phases
  <2>3. state \in PastProtocolGate /\ state \in ResultStates
    BY <2>1, StateNames
  <2>4. Supports("NONE", "jobs", "none")
    BY <1>1, <2>3, ResultSupport, StateNames
  <2> QED
    BY <1>1, <2>2, <2>4, Enters
<1>7. CASE PauseRead \/ CancelRequest \/ PauseWrite \/ cancel_run
  BY <1>3, <1>7 DEF PauseRead, CancelRequest, PauseWrite, cancel_run, data
<1>8. CASE resume_run
  BY <1>3, <1>5, <1>8 DEF resume_run, data
<1>9. CASE Crash
  BY <1>4, <1>9 DEF Crash
<1>10. CASE recover
  BY <1>3, <1>4, <1>5, <1>10 DEF recover, Finish, data
<1> QED
  BY <1>6, <1>7, <1>8, <1>9, <1>10 DEF Outside

----------------------------------------------------------------------------
(* The inductive invariant.                                                *)

\* A new run is behind no gate.
LEMMA InitIInv ==
    ASSUME Init
    PROVE  IInv
<1>1. Idle \in Worker({}) /\ Idle.target = "NONE" /\ Idle.next = "none" /\ Idle.act = 0
  BY IdleFields
<1>2. /\ w \in Worker({}) /\ w.step = "begin" /\ w.phase = "prepare"
      /\ w.target = "NONE" /\ w.next = "none" /\ w.act = 0
  BY <1>1 DEF Init, Worker, Steps, Phases, Drivers
<1>3. actions \in Seq(ActionRecord) /\ DOMAIN actions = {}
  <2>1. actions = << >>
    BY DEF Init
  <2>2. << >> \in Seq(ActionRecord) /\ DOMAIN << >> = {}
    BY EmptySeq
  <2> QED
    BY <2>1, <2>2
<1>4. w \in Worker(DOMAIN actions)
  BY <1>2, <1>3
<1>5. TypeOK
  <2>1. /\ protocol \in 0..MaxTurns /\ report \in 0..MaxTurns /\ turns \in 0..MaxTurns
        /\ revisions \in Nat /\ redrafts \in Nat
        /\ faults \in 0..MaxFaults /\ crashes \in 0..MaxCrashes /\ calls \in 0..MaxCalls
    BY LifecycleAssumption DEF Init
  <2>2. compatible \in BOOLEAN
    BY DEF Init
  <2>3. cancelling \in BOOLEAN
    BY DEF Init
  <2>4. recovering \in BOOLEAN
    BY DEF Init
  <2>6. left \in BOOLEAN
    BY DEF Init
  <2>5. /\ state \in RunState /\ resume \in WorkStates \cup HUMAN_WAIT_STATES \cup {"NONE"}
        /\ pausing \in RunState \cup {"NONE"} /\ submitted \in SUBSET DOMAIN actions
    BY DEF Init, RunState, WorkStates
  <2> QED
    BY <1>3, <1>4, <2>1, <2>2, <2>3, <2>4, <2>5, <2>6 DEF TypeOK, Worker
<1>6. Pausing /\ Budget /\ Decisions
  BY <1>2, <1>3 DEF Init, Pausing, Budget, Decisions
<1>7. Acting
  BY <1>2 DEF Acting
<1>8. Passed
  <2>1. state = "CREATED" /\ resume = "NONE" /\ pausing = "NONE"
    BY DEF Init
  <2>2. {"CREATED", "NONE"} \cap PastProtocolGate = {} /\ {"CREATED", "NONE"} \cap ResultStates = {}
    BY DEF PastProtocolGate, ResultStates, RunState, WorkStates, HUMAN_WAIT_STATES, TERMINAL_STATES
  <2>3. {"prepare", "none"} \cap WorkPhases = {} /\ {"prepare", "none"} \cap ResultPhases = {}
    BY DEF WorkPhases, ResultPhases, Phases
  <2>4. \A type \in GateTypes : Gate(type) \notin {"CREATED", "NONE"}
    BY Gates DEF GateTypes
  <2> QED
    BY <1>2, <2>1, <2>2, <2>3, <2>4 DEF Passed, Reach, Doing
<1> QED
  BY <1>5, <1>6, <1>7, <1>8 DEF IInv

\* Every step keeps the inductive invariant.
LEMMA NextIInv ==
    ASSUME IInv, Next
    PROVE  IInv'
<1>1. RecordStep /\ TypeOK /\ Pausing /\ Budget /\ Acting
  BY StepFacts DEF IInv
<1>2. Led'
  BY NextSplits, LedShared, LedContract, LedMethodology, LedExecution, LedByDecision, LedByRecovery,
     LedByHuman, LedOutside DEF Deciding
<1>3. History
  BY HistoryKept
<1>4. Others'
  BY <1>1, OthersKept
<1>5. /\ state' \in RunState /\ resume' \in WorkStates \cup HUMAN_WAIT_STATES \cup {"NONE"}
      /\ Pausing' /\ pausing' \in RunState \cup {"NONE"}
  BY <1>1, RecordKept
<1>6. /\ Budget' /\ protocol' \in 0..MaxTurns /\ report' \in 0..MaxTurns /\ turns' \in 0..MaxTurns
  BY <1>1, TurnsMove, TurnsKept
<1>7. TypeOK'
  BY <1>2, <1>3, <1>4, <1>5, <1>6 DEF TypeOK, Others, History, Led, Worker
<1> QED
  BY <1>2, <1>3, <1>5, <1>6, <1>7 DEF IInv, Led, History

\* So does a step that leaves the run alone.
LEMMA StutterIInv ==
    ASSUME IInv, UNCHANGED vars
    PROVE  IInv'
<1>1. UNCHANGED <<state, resume, actions, protocol, report, compatible, submitted, turns, revisions,
                  redrafts, w, pausing, cancelling, recovering, left, faults, crashes, calls>>
  BY DEF vars, record, data, counts, callers, bounds
<1>2. TypeOK' /\ Pausing' /\ Budget'
  BY <1>1 DEF IInv, TypeOK, Pausing, Budget
<1>3. Decisions' /\ Acting'
  BY <1>1 DEF IInv, Decisions, Acting, NeedsHoneydew, PendingMatrices, OfStatus, OfType
<1>4. Passed'
  BY <1>1 DEF IInv, Passed, Reach, Doing, Asked, NeedsHoneydew, OfStatus, OfType
<1> QED
  BY <1>2, <1>3, <1>4 DEF IInv

\* The inductive invariant holds of every reachable state (all of engine.py's
\* phases, decisions, pauses, cancellation and recovery).
THEOREM Invariance == Spec => []IInv
<1>1. Init => IInv
  BY InitIInv
<1>2. IInv /\ [Next]_vars => IInv'
  BY NextIInv, StutterIInv
<1> QED
  BY <1>1, <1>2, PTL DEF Spec

\* Every step of the workflow keeps its records well formed: the state and the
\* saved state are states of the graph, a worker only deals with an action that
\* exists, and no turn past the budget is ever charged (_check_turn_budget).
THEOREM TypeCorrect == Spec => []TypeOK
<1>1. IInv => TypeOK
  BY DEF IInv
<1> QED
  BY <1>1, Invariance, PTL

\* Whatever interleaves, crashes or is retried, jobs exist only for matrices
\* that both Honeydew and a human approved (_submit_matrix, approve_action).
THEOREM JobsAreApproved == Spec => []JobsNeedBothApprovals
<1>1. IInv => JobsNeedBothApprovals
  <2> SUFFICES ASSUME IInv, NEW i \in submitted
               PROVE  /\ actions[i].type = "submit_experiment_matrix"
                      /\ actions[i].honeydew
                      /\ actions[i].status = "APPROVED"
    BY DEF JobsNeedBothApprovals
  <2>1. i \in DOMAIN actions
    BY DEF IInv, TypeOK
  <2> QED
    BY <2>1 DEF IInv, Decisions, NeedsHoneydew
<1> QED
  BY <1>1, Invariance, PTL

\* No run is behind the protocol gate, or is paused in a state behind it,
\* unless a human approved a protocol (_resume_approved_action, pause_run,
\* resume_run, _recover_run).
THEOREM NothingPassesTheProtocolGate == Spec => []ProtocolGateHolds
<1>1. IInv => ProtocolGateHolds
  BY DEF IInv, Passed, Reach, ProtocolGateHolds
<1> QED
  BY <1>1, Invariance, PTL

\* A run is COMPLETE only after a human accepted a report and some wave of
\* jobs was created (_resume_approved_action, _submit_matrix).
THEOREM CompletionIsEarned == Spec => []CompleteIsEarned
<1>1. IInv => CompleteIsEarned
  <2>1. "COMPLETE" \in ResultStates
    BY DEF ResultStates
  <2> QED
    BY <2>1 DEF IInv, Passed, Reach, CompleteIsEarned
<1> QED
  BY <1>1, Invariance, PTL

\* A run that waits at a gate has an action a human can decide on, except where
\* a rejection or a failed execution was recorded and not acted on before a pause
\* or a crash, and something newer hides it (approve_action, reject_action,
\* _record_requested_actions, _handle_approved_action_failure).
THEOREM GatesStayDecidable == Spec => []GatesAreDecidable
<1>1. IInv => GatesAreDecidable
  <2> SUFFICES ASSUME IInv PROVE GatesAreDecidable
    OBVIOUS
  <2>1. TypeOK /\ Decisions
    BY DEF IInv
  <2>2. ASSUME NEW type \in GateTypes, ~Decidable(type)
        PROVE  type # "approve_protocol" /\ Spent(type)
    <3>1. state = Gate(type)
      BY <2>2 DEF Decidable
    <3>2. PICK a \in OfType(type) :
             actions[a].status # "DENIED" /\ (NeedsHoneydew(actions[a]) => actions[a].honeydew)
      BY <3>1 DEF IInv, Passed, Reach, Asked
    <3>3. /\ OfType(type) \in SUBSET DOMAIN actions
          /\ \A i \in OfType(type) :
                actions[i].type = type /\ actions[i].status \in {"REJECTED", "DENIED", "EXECUTION_FAILED"}
      <4>1. \A i \in OfType(type) : i \in DOMAIN actions /\ actions[i].type = type
        BY DEF OfType
      <4>2. \A i \in OfType(type) : actions[i].status \in ApprovalStatus
        BY <2>1, <4>1, ActionsTyped DEF ActionRecord
      <4>3. \A i \in OfType(type) : actions[i].status \notin {"PENDING", "APPROVED"}
        BY <2>2 DEF Decidable
      <4> QED
        BY <4>1, <4>2, <4>3 DEF ApprovalStatus
    <3> DEFINE m == Max(OfType(type))
    <3>4. m \in OfType(type) /\ \A i \in OfType(type) : i <= m
      BY <2>1, <3>2, <3>3, NewestAction
    <3>5. actions[m].status \in {"DENIED", "EXECUTION_FAILED"}
      BY <2>2, <3>3, <3>4 DEF Decidable
    <3> HIDE DEF m
    <3>6. type # "approve_protocol"
      <4>1. SUFFICES ASSUME type = "approve_protocol" PROVE FALSE
        OBVIOUS
      <4>2. OfStatus("approve_protocol", "APPROVED") # {}
        BY <2>1, <3>3, <3>4, <3>5, <4>1 DEF Decisions
      <4> QED
        BY <3>3, <4>1, <4>2 DEF OfStatus
    <3>7. CASE actions[m].status = "EXECUTION_FAILED"
      <4>1. m \in OfStatus(type, "EXECUTION_FAILED")
        BY <3>4, <3>7 DEF OfStatus
      <4>2. \A j \in OfType(type) : ~(j > m)
        <5>1. m \in Nat /\ \A j \in OfType(type) : j \in Nat
          BY <2>1, <3>3, <3>4, ActionsTyped
        <5> QED
          BY <3>4, <5>1
      <4> QED
        BY <3>6, <4>1, <4>2 DEF Spent
    <3>8. CASE actions[m].status = "DENIED"
      <4>1. m \in OfStatus(type, "DENIED")
        BY <3>4, <3>8 DEF OfStatus
      <4>2. ASSUME NEW i \in OfType(type), actions[i].status = "REJECTED",
                   NeedsHoneydew(actions[i]) => actions[i].honeydew
            PROVE  Spent(type)
        <5>1. i \in OfStatus(type, "REJECTED")
          BY <4>2 DEF OfStatus
        <5> QED
          BY <3>4, <4>1, <4>2, <5>1 DEF Spent
      <4>3. CASE actions[a].status = "REJECTED"
        BY <3>2, <3>6, <4>2, <4>3
      <4>4. CASE actions[a].status = "EXECUTION_FAILED"
        <5> DEFINE H == {i \in OfType(type) : actions[i].honeydew}
              h == Max(H)
        <5>1. a \in H /\ H \in SUBSET DOMAIN actions
          BY <2>1, <3>2, <3>3, <4>4 DEF Decisions
        <5>2. h \in H /\ \A i \in H : i <= h
          BY <2>1, <5>1, NewestAction
        <5> HIDE DEF h
        <5>3. h \in OfType(type) /\ actions[h].honeydew
          BY <5>2
        <5>4. CASE actions[h].status = "REJECTED"
          BY <3>6, <4>2, <5>3, <5>4
        <5>5. CASE actions[h].status = "EXECUTION_FAILED"
          <6>1. h \in OfStatus(type, "EXECUTION_FAILED")
            BY <5>3, <5>5 DEF OfStatus
          <6>2. \A j \in OfType(type) : j > h => ~actions[j].honeydew
            <7>1. h \in Nat /\ \A j \in OfType(type) : j \in Nat
              BY <2>1, <3>3, <5>3, ActionsTyped
            <7> QED
              BY <5>2, <7>1
          <6> QED
            BY <3>6, <6>1, <6>2 DEF Spent
        <5>6. actions[h].status # "DENIED"
          BY <2>1, <3>3, <5>3 DEF Decisions
        <5> QED
          BY <3>3, <5>3, <5>4, <5>5, <5>6
      <4> QED
        BY <3>2, <3>3, <4>3, <4>4
    <3> QED
      BY <3>5, <3>7, <3>8
  <2> QED
    BY <2>2 DEF GatesAreDecidable, GateTypes
<1> QED
  BY <1>1, Invariance, PTL
=============================================================================
