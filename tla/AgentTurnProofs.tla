-------------------------- MODULE AgentTurnProofs --------------------------
(***************************************************************************)
(* The properties of AgentTurn, for every budget and every limit on        *)
(* retries, automatic resumes, rotations, faults, restarts and pauses.     *)
(*                                                                         *)
(* The argument comes in three layers.  What the worker's step says about  *)
(* the turn count gives the types, the ledger and the spacing of           *)
(* rotations.  Who may still end a running row gives the ownership of the  *)
(* turns table.  Where a poisoned session may still be attached, and who   *)
(* is going to clear it, gives the freshness of the model's session.       *)
(***************************************************************************)
EXTENDS AgentTurn, TLAPS, FiniteSetTheorems, SequenceTheorems, NumberSets

\* The steps of a call that has charged nothing yet.
Uncharged ==
    \/ w.pc \in {"begin", "history", "count", "escalate", "session", "charge",
                 "unpause"}
    \/ w.pc = "rotate" /\ w.why # "failure"

\* The steps between the budget check and the charge.
Admitted ==
    \/ w.pc \in {"history", "count", "session", "charge"}
    \/ w.pc = "rotate" /\ w.why = "history"

\* Every step knows how far the call has come: nothing charged, one turn
\* charged, or an exception from either side of the charge.
TurnCount ==
    /\ Uncharged => turn_number = w.start
    /\ Open \/ w.pc \in {"finish", "return"} => turn_number = w.start + 1
    /\ w.pc = "raise" => turn_number \in {w.start, w.start + 1}
    /\ Admitted => turn_number < MaxTurns
    /\ w.pc = "rotate" => w.why # "none"

\* Completed turns are paid for, and so is the one in progress.
PaidFor == completed <= turn_number /\ (Open => completed < turn_number)

\* A rotation about to be counted passed the floor and the churn limit, and
\* the call it belongs to started no earlier than the last one was marked.
RotationDue ==
    /\ w.pc = "count" \/ (w.pc = "rotate" /\ w.why = "history") =>
          /\ MaxRotations > 0 => rotations < MaxRotations
          /\ rotations = 0 \/ turn_number - marked >= MinTurns
    /\ w.pc # "idle" => marked <= w.start
    /\ marked <= turn_number

\* A paused run knows where to go back to, and only a paused run is resumed.
Resumable ==
    /\ state = "PAUSED" => resume \in Phase
    /\ w.pc = "unpause" \/ (w.pc = "rotate" /\ w.why = "resume") => state = "PAUSED"

Counters == TurnCount /\ PaidFor /\ RotationDue /\ Resumable

Core == TypeOK /\ Counters

----------------------------------------------------------------------------
(* Layer 1: types, the turn count, the ledger and the rotations.           *)

\* The type of the worker.
Call ==
    [pc : Steps, sid : 0..created, row : 0..Len(rows),
     failure : Failures \cup {"none"}, why : Reasons \cup {"none"},
     repaired : BOOLEAN, resumes : 0..MaxResumes,
     corrected : BOOLEAN, start : 0..MaxTurns, raced : BOOLEAN,
     driver : Drivers]

\* The lock holder is a call, and calls keep their type while no row or
\* session is added.
LEMMA CallFacts ==
    ASSUME TypeOK
    PROVE  w \in Call /\ (UNCHANGED <<created, rows>> => Call' = Call) /\ 0 \in 0..created
<1>1. w \in Call
  BY DEF TypeOK, Call
<1>2. UNCHANGED <<created, rows>> => Call' = Call
  BY DEF Call
<1>3. 0 \in 0..created
  BY DEF TypeOK
<1> QED
  BY <1>1, <1>2, <1>3

\* The type of the recovery thread.
Recovery ==
    [pc : {"off", "boot", "scan", "list", "mark", "rotate", "lock"},
     seen : SUBSET DOMAIN rows, listed : SUBSET DOMAIN rows, raced : BOOLEAN,
     overtaken : BOOLEAN, left : SUBSET DOMAIN rows]

\* A write of the run row only marks the sweep as raced.
LEMMA BumpFacts ==
    ASSUME TypeOK, Bump, UNCHANGED rows
    PROVE  /\ r' \in Recovery'
           /\ r'.pc = r.pc /\ r'.seen = r.seen /\ r'.listed = r.listed
           /\ r'.overtaken = r.overtaken /\ r'.left = r.left
BY DEF TypeOK, Bump, Recovery

\* The phase of a run at work is one a pause may go back to.
LEMMA HereIsAPhase ==
    ASSUME TypeOK, state \in Working
    PROVE  Here \in Phase /\ Here # NoPhase /\ Here.state = state /\ Here.agent = agent
BY DEF TypeOK, Here, Phase, NoPhase, Working

\* A failure is counted within its bound.
LEMMA FaultFacts ==
    ASSUME TypeOK, faults' = faults \/ Fault
    PROVE  faults' \in 0..MaxFaults
BY TurnAssumption DEF TypeOK, Fault

\* An exception leaves only who called and at which turn.
LEMMA RaiseFacts ==
    ASSUME TypeOK, Raise, created' \in Nat, Len(rows') \in Nat
    PROVE  /\ w' \in Call'
           /\ w'.pc = "raise" /\ w'.start = w.start /\ w'.why = "none"
           /\ w'.sid = 0 /\ w'.row = 0
<1>1. w.start \in 0..MaxTurns /\ w.driver \in Drivers
  BY DEF TypeOK
<1>2. w' = [pc |-> "raise", sid |-> 0, row |-> 0, failure |-> "none", why |-> "none",
     repaired |-> FALSE, resumes |-> 0, corrected |-> FALSE,
     start |-> w.start, raced |-> FALSE, driver |-> w.driver]
  BY DEF Raise, Idle
<1>3. /\ "raise" \in Steps /\ "none" \in Failures \cup {"none"}
      /\ "none" \in Reasons \cup {"none"}
  BY DEF Steps
<1>4. 0 \in 0..created' /\ 0 \in 0..Len(rows') /\ 0 \in 0..MaxResumes
  BY TurnAssumption
<1> QED
  BY <1>1, <1>2, <1>3, <1>4, Zenon DEF Call

\* A step that leaves the run record and the counts of turns alone keeps the
\* types if its worker and its recovery thread have theirs.
LEMMA KeepsTypes ==
    ASSUME TypeOK, w' \in Call', r' = r \/ Bump,
           UNCHANGED <<record, rows, pausing, created, completed>>,
           exposed' \in BOOLEAN, faults' = faults \/ Fault,
           UNCHANGED <<crashes, calls>>
    PROVE  TypeOK'
<1>1. faults' \in 0..MaxFaults
  BY TurnAssumption DEF TypeOK, Fault
<1>2. UNCHANGED <<state, resume, agent, turn_number, session, rotations, marked>>
  BY DEF record
<1>3. r' \in Recovery'
  BY BumpFacts DEF TypeOK, Recovery
<1> QED
  BY <1>1, <1>2, <1>3 DEF TypeOK, Call, Recovery

\* An exception that changes nothing else, from either side of the charge.
LEMMA RaiseKeeps ==
    ASSUME Core, Raise, w.pc # "idle", w.pc # "unpause", r' = r \/ Bump,
           UNCHANGED <<record, rows, pausing, created, completed>>,
           exposed' \in BOOLEAN, faults' = faults \/ Fault,
           UNCHANGED <<crashes, calls>>
    PROVE  Core'
<1>1. TypeOK /\ Counters
  BY DEF Core
<1>2. w' \in Call' /\ w'.pc = "raise" /\ w'.start = w.start
  BY <1>1, RaiseFacts DEF TypeOK
<1>3. TypeOK'
  BY <1>1, <1>2, KeepsTypes
<1>4. UNCHANGED <<state, resume, turn_number, rotations, marked>>
  BY DEF record
<1>5. Counters'
  BY <1>1, <1>2, <1>4, TurnAssumption
    DEF TypeOK, Counters, TurnCount, Uncharged, Open, Charged, Admitted, PaidFor,
        RotationDue, Resumable, Working, Stopped, Over, Steps
<1> QED
  BY <1>3, <1>5 DEF Core

\* The budget check admits a turn only below the budget.
LEMMA CheckTurnBudgetCore ==
    ASSUME Core, CheckTurnBudget
    PROVE  Core'
<1>t. TypeOK /\ Counters /\ w.pc = "begin"
  BY DEF Core, CheckTurnBudget
<1>u. UNCHANGED <<resume, agent, turn_number, session, rotations, marked, rows,
                   pausing, created, completed, exposed, faults, crashes, calls>>
  BY DEF CheckTurnBudget, history, bounds
<1>a. CASE Raise /\ state' = (IF state = "WORKING" THEN "TIMED_OUT" ELSE state) /\ Bump
  <2>1. w' \in Call' /\ w'.pc = "raise" /\ w'.start = w.start
    BY <1>a, <1>t, <1>u, RaiseFacts DEF TypeOK
  <2>2. TypeOK'
    BY <1>a, <1>t, <1>u, <2>1 DEF TypeOK, Call, Bump, Working, Stopped, Over
  <2>3. Counters'
    BY <1>a, <1>t, <1>u, <2>1, TurnAssumption
    DEF TypeOK, Counters, TurnCount, Uncharged, Open, Charged, Admitted, PaidFor, RotationDue,
        Resumable, Working, Stopped, Over
  <2> QED
    BY <2>2, <2>3 DEF Core
<1>b. CASE /\ turn_number < MaxTurns
          /\ w' = [w EXCEPT !.pc = "history", !.raced = FALSE, !.sid = session[agent]]
          /\ UNCHANGED <<state, r>>
  <2>1. w' \in Call' /\ w'.pc = "history" /\ w'.start = w.start
    BY <1>b, <1>t, <1>u DEF TypeOK, Call, Steps
  <2>2. TypeOK'
    BY <1>b, <1>t, <1>u, <2>1 DEF TypeOK, Call
  <2>3. Counters'
    BY <1>b, <1>t, <1>u, <2>1, TurnAssumption
    DEF TypeOK, Counters, TurnCount, Uncharged, Open, Charged, Admitted, PaidFor, RotationDue,
        Resumable, Working, Stopped, Over
  <2> QED
    BY <2>2, <2>3 DEF Core
<1> QED
  BY <1>a, <1>b DEF CheckTurnBudget

\* A size rotation is asked for only past the floor and the churn limit.
LEMMA MaybeRotateTurnHistoryCore ==
    ASSUME Core, MaybeRotateTurnHistory
    PROVE  Core'
<1>1. TypeOK /\ Counters /\ w.pc = "history"
  BY DEF Core, MaybeRotateTurnHistory
<1>2. UNCHANGED <<rows, pausing, created, completed, exposed, faults, crashes, calls>>
  BY DEF MaybeRotateTurnHistory, history, bounds
<1>3. exposed' \in BOOLEAN
  BY <1>1, <1>2 DEF TypeOK
<1>4. CASE Go("session") /\ UNCHANGED <<record, r>>
  <2>1. w' \in Call' /\ w'.pc = "session" /\ w'.start = w.start
    BY <1>1, <1>2, <1>4 DEF TypeOK, Call, Go, Steps
  <2>2. TypeOK'
    BY <1>1, <1>2, <1>3, <1>4, <2>1, KeepsTypes
  <2>3. UNCHANGED <<state, resume, turn_number, rotations, marked>>
    BY <1>4 DEF record
  <2>4. Counters'
    BY <1>1, <1>2, <2>1, <2>3, TurnAssumption
    DEF TypeOK, Counters, TurnCount, Uncharged, Open, Charged, Admitted, PaidFor,
        RotationDue, Resumable, Working, Stopped, Over
  <2> QED
    BY <2>2, <2>4 DEF Core
<1>5. CASE /\ rotations' = 0 /\ Go("session") /\ Bump
           /\ UNCHANGED <<state, resume, agent, turn_number, session, marked>>
  <2>1. w' \in Call' /\ w'.pc = "session" /\ w'.start = w.start
    BY <1>1, <1>2, <1>5 DEF TypeOK, Call, Go, Steps
  <2>2. TypeOK'
    BY <1>1, <1>2, <1>5, <2>1, BumpFacts, TurnAssumption DEF TypeOK, Call, Recovery
  <2>3. Counters'
    BY <1>1, <1>2, <1>5, <2>1, TurnAssumption
    DEF TypeOK, Counters, TurnCount, Uncharged, Open, Charged, Admitted, PaidFor,
        RotationDue, Resumable, Working, Stopped, Over
  <2> QED
    BY <2>2, <2>3 DEF Core
<1>6. CASE Conflict
  BY <1>1, <1>2, <1>3, <1>6, RaiseKeeps DEF Conflict
<1>7. ASSUME NEW why \in {"history", "churn"},
             w' = [w EXCEPT !.pc = "rotate", !.why = why, !.raced = FALSE],
             UNCHANGED <<record, r>>,
             why = "history" => /\ MaxRotations > 0 => rotations < MaxRotations
                                /\ rotations = 0 \/ turn_number - marked >= MinTurns
      PROVE  Core'
  <2>1. w' \in Call' /\ w'.pc = "rotate" /\ w'.start = w.start /\ w'.why = why
    BY <1>1, <1>2, <1>7 DEF TypeOK, Call, Steps, Reasons
  <2>2. TypeOK'
    BY <1>1, <1>2, <1>3, <1>7, <2>1, KeepsTypes
  <2>3. UNCHANGED <<state, resume, turn_number, rotations, marked>>
    BY <1>7 DEF record
  <2>4. Counters'
    BY <1>1, <1>2, <1>7, <2>1, <2>3, TurnAssumption
    DEF TypeOK, Counters, TurnCount, Uncharged, Open, Charged, Admitted, PaidFor,
        RotationDue, Resumable, Working, Stopped, Over
  <2> QED
    BY <2>2, <2>4 DEF Core
<1>8. CASE /\ Churned \/ ~TooSoon
           /\ w' = [w EXCEPT !.pc = "rotate", !.raced = FALSE,
                      !.why = IF Churned THEN "churn" ELSE "history"]
           /\ UNCHANGED <<record, r>>
  <2>1. /\ rotations \in Nat /\ turn_number \in Nat /\ marked \in Nat
        /\ marked <= turn_number /\ MaxRotations \in Nat /\ MinTurns \in Nat
    BY <1>1, TurnAssumption DEF TypeOK, Counters, RotationDue
  <2>2. CASE Churned
    BY <1>7, <1>8, <2>2
  <2>3. CASE ~Churned
    <3>1. MaxRotations > 0 => rotations < MaxRotations
      BY <2>1, <2>3 DEF Churned
    <3>2. rotations = 0 \/ turn_number - marked >= MinTurns
      BY <1>8, <2>1, <2>3 DEF TooSoon
    <3> QED
      BY <1>7, <1>8, <2>3, <3>1, <3>2
  <2> QED
    BY <2>2, <2>3
<1> QED
  BY <1>4, <1>5, <1>6, <1>8 DEF MaybeRotateTurnHistory

\* Detaching a session moves no count.
LEMMA RotateAgentSessionCore ==
    ASSUME Core, RotateAgentSession
    PROVE  Core'
<1>1. TypeOK /\ Counters /\ w.pc = "rotate"
  BY DEF Core, RotateAgentSession
<1>2. UNCHANGED <<rows, pausing, created, completed, exposed, crashes, calls>>
  BY DEF RotateAgentSession, history
<1>3. exposed' \in BOOLEAN
  BY <1>1, <1>2 DEF TypeOK
<1>4. CASE Conflict /\ UNCHANGED faults
  BY <1>1, <1>2, <1>3, <1>4, RaiseKeeps DEF Conflict
<1>5. ASSUME session' = [session EXCEPT ![agent] = 0], Bump, ~(Conflict /\ UNCHANGED faults),
             UNCHANGED <<state, resume, agent, turn_number, rotations, marked>>
      PROVE  Core'
  <2>1. w.why \in Reasons
    BY <1>1 DEF TypeOK, Counters, TurnCount
  <2>2. session' \in [Agents -> 0..created']
    BY <1>1, <1>2, <1>5 DEF TypeOK
  <2>3. CASE /\ w' = [w EXCEPT !.raced = FALSE, !.sid = 0, !.why = "none",
                           !.pc = CASE w.why = "failure" -> "decide"
                                    [] w.why = "history" -> "count"
                                    [] w.why = "churn" -> "escalate"
                                    [] w.why = "resume" -> "unpause"]
             /\ UNCHANGED faults
    <3> DEFINE next == CASE w.why = "failure" -> "decide"
                         [] w.why = "history" -> "count"
                         [] w.why = "churn" -> "escalate"
                         [] w.why = "resume" -> "unpause"
    <3>1. /\ w.why = "failure" => next = "decide"
          /\ w.why = "history" => next = "count"
          /\ w.why = "churn" => next = "escalate"
          /\ w.why = "resume" => next = "unpause"
      OBVIOUS
    <3>2. w' = [w EXCEPT !.raced = FALSE, !.sid = 0, !.why = "none", !.pc = next]
      BY <2>3
    <3> HIDE DEF next
    <3>a. next \in Steps
      BY <2>1, <3>1 DEF Steps, Reasons
    <3>b. w' \in Call' /\ w'.start = w.start /\ w'.pc = next
      <4>1. w \in Call /\ Call' = Call /\ 0 \in 0..created
        BY <1>1, <1>2, CallFacts
      <4> QED
        BY <3>2, <3>a, <4>1 DEF Call
    <3>3. TypeOK'
      <4>1. UNCHANGED faults
        BY <2>3
      <4> QED
        BY <1>1, <1>2, <1>5, <2>2, <3>b, <4>1, BumpFacts DEF TypeOK, Call, Recovery
    <3>4. Counters'
      BY <1>1, <1>2, <1>5, <2>1, <3>1, <3>b, TurnAssumption
      DEF TypeOK, Counters, TurnCount, Uncharged, Open, Charged, Admitted, PaidFor,
        RotationDue, Resumable, Working, Stopped, Over, Reasons
    <3> QED
      BY <3>3, <3>4 DEF Core
  <2>4. CASE Fault /\ Raise
    <3>1. w' \in Call' /\ w'.pc = "raise" /\ w'.start = w.start
      BY <1>1, <1>2, <2>4, RaiseFacts DEF TypeOK
    <3>2. TypeOK'
      BY <1>1, <1>2, <1>5, <2>2, <2>4, <3>1, BumpFacts, TurnAssumption
      DEF TypeOK, Call, Recovery, Fault
    <3>3. Counters'
      BY <1>1, <1>2, <1>5, <3>1, TurnAssumption
      DEF TypeOK, Counters, TurnCount, Uncharged, Open, Charged, Admitted, PaidFor,
        RotationDue, Resumable, Working, Stopped, Over
    <3> QED
      BY <3>2, <3>3 DEF Core
  <2> QED
    BY <2>3, <2>4, <1>5 DEF RotateAgentSession
<1> QED
  BY <1>4, <1>5 DEF RotateAgentSession

\* Counting a rotation charges nothing.
LEMMA CountRotationCore ==
    ASSUME Core, CountRotation
    PROVE  Core'
<1>1. TypeOK /\ Counters /\ w.pc = "count"
  BY DEF Core, CountRotation
<1>2. UNCHANGED <<rows, pausing, created, completed, exposed, faults, crashes, calls>>
  BY DEF CountRotation, history, bounds
<1>3. exposed' \in BOOLEAN
  BY <1>1, <1>2 DEF TypeOK
<1>4. CASE Conflict
  BY <1>1, <1>2, <1>3, <1>4, RaiseKeeps DEF Conflict
<1>5. CASE /\ rotations' = rotations + 1 /\ marked' = turn_number
           /\ Go("session") /\ Bump
           /\ UNCHANGED <<state, resume, agent, turn_number, session>>
  <2>1. w' \in Call' /\ w'.pc = "session" /\ w'.start = w.start
    BY <1>1, <1>2, <1>5 DEF TypeOK, Call, Go, Steps
  <2>2. TypeOK'
    BY <1>1, <1>2, <1>5, <2>1, BumpFacts, TurnAssumption
    DEF TypeOK, Call, Recovery, Counters, RotationDue
  <2>4. TurnCount' /\ PaidFor' /\ RotationDue' /\ Resumable'
    BY <1>1, <1>2, <1>5, <2>1, TurnAssumption
    DEF TypeOK, Counters, TurnCount, Uncharged, Open, Charged, Admitted, PaidFor,
        RotationDue, Resumable, Working, Stopped, Over
  <2> QED
    BY <2>2, <2>4 DEF Core, Counters
<1> QED
  BY <1>4, <1>5 DEF CountRotation

\* The churn escalation ends the call without a charge.
LEMMA EscalateChurnCore ==
    ASSUME Core, EscalateChurn
    PROVE  Core'
<1>1. TypeOK /\ Counters /\ w.pc = "escalate"
  BY DEF Core, EscalateChurn
<1>2. UNCHANGED <<agent, turn_number, session, rotations, marked, rows, pausing,
                  created, completed, exposed, faults, crashes, calls>>
  BY DEF EscalateChurn, history, bounds
<1>3. /\ \/ state' = "PAUSED" /\ resume' \in Phase
         \/ UNCHANGED <<state, resume>>
      /\ Raise /\ Bump
  BY <1>1, HereIsAPhase DEF EscalateChurn, Working
<1>4. w' \in Call' /\ w'.pc = "raise" /\ w'.start = w.start
  BY <1>1, <1>2, <1>3, RaiseFacts DEF TypeOK
<1>5. TypeOK'
  BY <1>1, <1>2, <1>3, <1>4, BumpFacts DEF TypeOK, Call, Recovery, Working, Stopped
<1>6. Counters'
  BY <1>1, <1>2, <1>3, <1>4, TurnAssumption
    DEF TypeOK, Counters, TurnCount, Uncharged, Open, Charged, Admitted, PaidFor,
        RotationDue, Resumable, Working, Stopped, Over
<1> QED
  BY <1>5, <1>6 DEF Core

\* A new session is the newest one.
LEMMA EnsureSessionCore ==
    ASSUME Core, EnsureSession
    PROVE  Core'
<1>1. TypeOK /\ Counters /\ w.pc = "session"
  BY DEF Core, EnsureSession
<1>2. UNCHANGED <<record, rows, r, pausing, completed, exposed, crashes, calls>>
  BY DEF EnsureSession
<1>3. UNCHANGED <<state, resume, agent, turn_number, session, rotations, marked>>
  BY <1>2 DEF record
<1>4. CASE Fault /\ Raise /\ UNCHANGED created
  BY <1>1, <1>2, <1>4, RaiseKeeps DEF TypeOK
<1>5. CASE /\ created' = (IF w.sid = 0 THEN created + 1 ELSE created)
           /\ w' = [w EXCEPT !.pc = "charge", !.raced = FALSE,
                            !.sid = IF w.sid = 0 THEN created + 1 ELSE w.sid]
           /\ UNCHANGED faults
  <2>1. created' \in Nat /\ created <= created' /\ created \in Nat
    BY <1>1, <1>5 DEF TypeOK
  <2> DEFINE s == IF w.sid = 0 THEN created + 1 ELSE w.sid
  <2>2. s \in 0..created' /\ w' = [w EXCEPT !.pc = "charge", !.raced = FALSE, !.sid = s]
    <3>1. w.sid \in 0..created
      BY <1>1 DEF TypeOK
    <3> QED
      BY <1>5, <2>1, <3>1
  <2> HIDE DEF s
  <2>3. w' \in Call' /\ w'.pc = "charge" /\ w'.start = w.start
    <3>1. w \in Call /\ "charge" \in Steps /\ UNCHANGED rows
      BY <1>1, <1>2, CallFacts DEF Steps
    <3> QED
      BY <2>2, <3>1 DEF Call
  <2>4. session' \in [Agents -> 0..created']
    <3>1. 0..created \subseteq 0..created'
      BY <2>1
    <3> QED
      BY <1>1, <1>3, <3>1 DEF TypeOK
  <2>5. TypeOK'
    BY <1>1, <1>2, <1>3, <1>5, <2>1, <2>3, <2>4 DEF TypeOK, Call
  <2>6. Counters'
    BY <1>1, <1>2, <1>3, <2>3, TurnAssumption
    DEF TypeOK, Counters, TurnCount, Uncharged, Open, Charged, Admitted, PaidFor,
        RotationDue, Resumable, Working, Stopped, Over
  <2> QED
    BY <2>5, <2>6 DEF Core
<1> QED
  BY <1>4, <1>5 DEF EnsureSession

\* The charge is the only step that moves the turn count up.
LEMMA ChargeTurnCore ==
    ASSUME Core, ChargeTurn
    PROVE  Core'
<1>1. TypeOK /\ Counters /\ w.pc = "charge"
  BY DEF Core, ChargeTurn
<1>2. UNCHANGED <<rows, pausing, created, completed, exposed, faults, crashes, calls>>
  BY DEF ChargeTurn, history, bounds
<1>3. exposed' \in BOOLEAN
  BY <1>1, <1>2 DEF TypeOK
<1>4. CASE Conflict
  BY <1>1, <1>2, <1>3, <1>4, RaiseKeeps DEF Conflict
<1>5. CASE /\ turn_number' = turn_number + 1
           /\ session' = [session EXCEPT ![agent] = w.sid]
           /\ Go("row") /\ Bump
           /\ UNCHANGED <<state, resume, agent, rotations, marked>>
  <2>1. w' \in Call' /\ w'.pc = "row" /\ w'.start = w.start
    BY <1>1, <1>2, <1>5 DEF TypeOK, Call, Go, Steps
  <2>2. turn_number' \in 0..MaxTurns /\ session' \in [Agents -> 0..created']
    BY <1>1, <1>2, <1>5, TurnAssumption DEF TypeOK, Counters, TurnCount, Admitted
  <2>3. TypeOK'
    BY <1>1, <1>2, <1>5, <2>1, <2>2, BumpFacts DEF TypeOK, Call, Recovery
  <2>4. Counters'
    BY <1>1, <1>2, <1>5, <2>1, TurnAssumption
    DEF TypeOK, Counters, TurnCount, Uncharged, Open, Charged, Admitted, PaidFor,
        RotationDue, Resumable, Working, Stopped, Over
  <2> QED
    BY <2>3, <2>4 DEF Core
<1> QED
  BY <1>4, <1>5 DEF ChargeTurn

\* Rewriting the status or the error of a row keeps the table's shape.
LEMMA RowRewritten ==
    ASSUME TypeOK, NEW i, NEW e, i \in DOMAIN rows => e \in Row,
           rows' = [rows EXCEPT ![i] = e]
    PROVE  rows' \in Seq(Row) /\ Len(rows') = Len(rows) /\ DOMAIN rows' = DOMAIN rows
<1>1. rows \in Seq(Row)
  BY DEF TypeOK
<1>2. CASE i \in DOMAIN rows
  <2>1. i \in 1..Len(rows) /\ e \in Row
    BY <1>1, <1>2
  <2> QED
    BY <1>1, <2>1, ExceptSeq
<1>3. CASE i \notin DOMAIN rows
  <2>1. rows' = rows
    BY <1>1, <1>3
  <2> QED
    BY <1>1, <2>1
<1> QED
  BY <1>2, <1>3

\* Adding one keeps the rows that are there.
LEMMA RowAdded ==
    ASSUME TypeOK, NEW e \in Row, rows' = Append(rows, e)
    PROVE  /\ rows' \in Seq(Row) /\ Len(rows') = Len(rows) + 1 /\ Len(rows) \in Nat
           /\ DOMAIN rows' = DOMAIN rows \cup {Len(rows) + 1}
           /\ rows'[Len(rows) + 1] = e
           /\ \A i \in DOMAIN rows : rows'[i] = rows[i] /\ i <= Len(rows)
<1>1. rows \in Seq(Row)
  BY DEF TypeOK
<1> QED
  BY <1>1, AppendProperties

\* The running row is appended while the charge stands.
LEMMA SaveRunningTurnCore ==
    ASSUME Core, SaveRunningTurn
    PROVE  Core'
<1>1. TypeOK /\ Counters /\ w.pc = "row"
  BY DEF Core, SaveRunningTurn
<1>2. UNCHANGED <<record, r, pausing, created, completed, exposed, faults, crashes, calls>>
  BY DEF SaveRunningTurn, history, bounds
<1>3. UNCHANGED <<state, resume, agent, turn_number, session, rotations, marked>>
  BY <1>2 DEF record
<1> DEFINE new == [agent |-> agent, session |-> w.sid, status |-> "running",
                   error |-> "none"]
<1>4. new \in Row
  BY <1>1 DEF TypeOK, Row
<1>5. rows' = Append(rows, new) /\ w' = [w EXCEPT !.pc = "guard", !.raced = FALSE, !.row = Len(rows) + 1]
  BY DEF SaveRunningTurn
<1>6. /\ rows' \in Seq(Row) /\ Len(rows') = Len(rows) + 1 /\ Len(rows) \in Nat
      /\ DOMAIN rows' = DOMAIN rows \cup {Len(rows) + 1}
  <2> HIDE DEF new
  <2> QED
    BY <1>1, <1>4, <1>5, RowAdded
<1>7. w' \in Call' /\ w'.pc = "guard" /\ w'.start = w.start
  <2>1. w \in Call /\ "guard" \in Steps /\ UNCHANGED created /\ Len(rows) + 1 \in 0..Len(rows')
    BY <1>1, <1>2, <1>6, CallFacts DEF Steps
  <2> QED
    BY <1>5, <2>1 DEF Call
<1>8. r' \in Recovery'
  BY <1>1, <1>2, <1>6 DEF TypeOK, Recovery
<1>9. TypeOK'
  BY <1>1, <1>2, <1>3, <1>6, <1>7, <1>8 DEF TypeOK, Call, Recovery
<1>10. Counters'
  BY <1>1, <1>2, <1>3, <1>7, TurnAssumption
    DEF TypeOK, Counters, TurnCount, Uncharged, Open, Charged, Admitted, PaidFor,
        RotationDue, Resumable, Working, Stopped, Over
<1> QED
  BY <1>9, <1>10 DEF Core

\* The pause guard raises or lets the model run.
LEMMA GuardCore ==
    ASSUME Core, Guard
    PROVE  Core'
<1>1. TypeOK /\ Counters /\ w.pc = "guard"
  BY DEF Core, Guard
<1>2. /\ UNCHANGED <<record, rows, r, pausing, created, completed, exposed, crashes, calls>>
      /\ faults' = faults \/ Fault
  BY DEF Guard, history
<1>3. UNCHANGED <<state, resume, agent, turn_number, session, rotations, marked>>
  BY <1>2 DEF record
<1>4. w' \in Call' /\ w'.pc \in {"model", "fail"} /\ w'.start = w.start
  <2>1. w \in Call /\ Call' = Call
    BY <1>1, <1>2, CallFacts
  <2>2. CASE Go("model")
    BY <2>1, <2>2 DEF Go, Call, Steps
  <2>3. ASSUME NEW f \in {"retryable", "other"},
               w' = [w EXCEPT !.pc = "fail", !.raced = FALSE, !.failure = f]
        PROVE  w' \in Call' /\ w'.pc = "fail" /\ w'.start = w.start
    BY <2>1, <2>3 DEF Call, Steps, Failures
  <2> QED
    BY <2>2, <2>3, Zenon DEF Guard, Go
<1>5. TypeOK'
  BY <1>1, <1>2, <1>4, KeepsTypes DEF TypeOK
<1>6. Counters'
  BY <1>1, <1>2, <1>3, <1>4, TurnAssumption
    DEF TypeOK, Counters, TurnCount, Uncharged, Open, Charged, Admitted, PaidFor,
        RotationDue, Resumable, Working, Stopped, Over
<1> QED
  BY <1>5, <1>6 DEF Core

\* The model call moves no count.
LEMMA RunModelCore ==
    ASSUME Core, RunModel
    PROVE  Core'
<1>1. TypeOK /\ Counters /\ w.pc = "model"
  BY DEF Core, RunModel
<1>2. /\ UNCHANGED <<record, rows, r, pausing, created, completed, exposed, crashes, calls>>
      /\ faults' = faults \/ Fault
  BY DEF RunModel, history
<1>3. UNCHANGED <<state, resume, agent, turn_number, session, rotations, marked>>
  BY <1>2 DEF record
<1>4. w' \in Call' /\ w'.pc \in {"save", "model", "fail"} /\ w'.start = w.start
  <2>1. w \in Call /\ Call' = Call
    BY <1>1, <1>2, CallFacts
  <2>2. CASE w' = [w EXCEPT !.pc = "save", !.corrected = FALSE]
    BY <2>1, <2>2 DEF Call, Steps
  <2>3. CASE w' = [w EXCEPT !.corrected = TRUE, !.raced = FALSE]
    BY <1>1, <2>1, <2>3 DEF Call, Steps
  <2>4. ASSUME NEW f \in Failures,
               w' = [w EXCEPT !.pc = "fail", !.failure = f, !.corrected = FALSE]
        PROVE  w' \in Call' /\ w'.pc = "fail" /\ w'.start = w.start
    BY <2>1, <2>4 DEF Call, Steps
  <2> QED
    BY <2>2, <2>3, <2>4 DEF RunModel
<1>5. TypeOK'
  BY <1>1, <1>2, <1>4, KeepsTypes DEF TypeOK
<1>6. Counters'
  BY <1>1, <1>2, <1>3, <1>4, TurnAssumption
    DEF TypeOK, Counters, TurnCount, Uncharged, Open, Charged, Admitted, PaidFor,
        RotationDue, Resumable, Working, Stopped, Over
<1> QED
  BY <1>5, <1>6 DEF Core

\* Saving a completed turn closes the one charge that paid for it.
LEMMA SaveCompletedTurnCore ==
    ASSUME Core, SaveCompletedTurn
    PROVE  Core'
<1>1. TypeOK /\ Counters /\ w.pc = "save"
  BY DEF Core, SaveCompletedTurn
<1>2. /\ UNCHANGED <<record, r, pausing, created, exposed, faults, crashes, calls>>
      /\ completed' = completed + 1
  BY DEF SaveCompletedTurn, bounds
<1>3. UNCHANGED <<state, resume, agent, turn_number, session, rotations, marked>>
  BY <1>2 DEF record
<1>4. rows' \in Seq(Row) /\ Len(rows') = Len(rows) /\ DOMAIN rows' = DOMAIN rows
  <2> DEFINE e == [rows[w.row] EXCEPT !.status = "completed"]
  <2>1. w.row \in DOMAIN rows => e \in Row
    <3>1. rows \in Seq(Row)
      BY <1>1 DEF TypeOK
    <3>2. w.row \in DOMAIN rows => rows[w.row] \in Row
      BY <3>1
    <3> QED
      BY <3>2 DEF Row
  <2>2. rows' = [rows EXCEPT ![w.row] = e]
    BY DEF SaveCompletedTurn
  <2> HIDE DEF e
  <2> QED
    BY <1>1, <2>1, <2>2, RowRewritten
<1>5. w' \in Call' /\ w'.pc = "finish" /\ w'.start = w.start
  <2>1. w \in Call /\ w' = [w EXCEPT !.pc = "finish", !.raced = FALSE] /\ UNCHANGED created
    BY <1>1, <1>2, CallFacts DEF SaveCompletedTurn, Go
  <2> QED
    BY <1>4, <2>1 DEF Call, Steps
<1>6. completed' \in 0..MaxTurns
  BY <1>1, <1>2, TurnAssumption DEF TypeOK, Counters, PaidFor, Open, Charged
<1>7. TypeOK'
  BY <1>1, <1>2, <1>3, <1>4, <1>5, <1>6 DEF TypeOK, Call
<1>8. Counters'
  BY <1>1, <1>2, <1>3, <1>5, TurnAssumption
    DEF TypeOK, Counters, TurnCount, Uncharged, Open, Charged, Admitted, PaidFor,
        RotationDue, Resumable, Working, Stopped, Over
<1> QED
  BY <1>7, <1>8 DEF Core

\* Finishing moves no count.
LEMMA FinishTurnCore ==
    ASSUME Core, FinishTurn
    PROVE  Core'
<1>1. TypeOK /\ Counters /\ w.pc = "finish"
  BY DEF Core, FinishTurn
<1>2. UNCHANGED <<rows, pausing, created, completed, exposed, faults, crashes, calls>>
  BY DEF FinishTurn, history, bounds
<1>3. exposed' \in BOOLEAN
  BY <1>1, <1>2 DEF TypeOK
<1>4. CASE Conflict \/ (Raise /\ UNCHANGED <<record, r>>)
  BY <1>1, <1>2, <1>3, <1>4, RaiseKeeps DEF Conflict
<1>5. CASE Go("return") /\ Bump /\ UNCHANGED record
  <2>1. w' \in Call' /\ w'.pc = "return" /\ w'.start = w.start
    BY <1>1, <1>2, <1>5, CallFacts DEF Call, Go, Steps
  <2>2. TypeOK'
    BY <1>1, <1>2, <1>3, <1>5, <2>1, KeepsTypes
  <2>3. UNCHANGED <<state, resume, turn_number, rotations, marked>>
    BY <1>5 DEF record
  <2>4. Counters'
    BY <1>1, <1>2, <2>1, <2>3, TurnAssumption
    DEF TypeOK, Counters, TurnCount, Uncharged, Open, Charged, Admitted, PaidFor,
        RotationDue, Resumable, Working, Stopped, Over
  <2> QED
    BY <2>2, <2>4 DEF Core
<1> QED
  BY <1>4, <1>5 DEF FinishTurn

\* A released lock has no call.
LEMMA IdleFacts ==
    ASSUME TypeOK, w' = Idle, created' \in Nat, Len(rows') \in Nat
    PROVE  w' \in Call' /\ w'.pc = "idle" /\ w'.why = "none" /\ w'.sid = 0 /\ w'.row = 0
<1>1. w' = [pc |-> "idle", sid |-> 0, row |-> 0, failure |-> "none", why |-> "none",
            repaired |-> FALSE, resumes |-> 0, corrected |-> FALSE,
            start |-> 0, raced |-> FALSE, driver |-> "none"]
  BY DEF Idle
<1>2. /\ "idle" \in Steps /\ "none" \in Failures \cup {"none"}
      /\ "none" \in Reasons \cup {"none"} /\ "none" \in Drivers
  BY DEF Steps, Drivers
<1>3. /\ 0 \in 0..created' /\ 0 \in 0..Len(rows') /\ 0 \in 0..MaxResumes
      /\ 0 \in 0..MaxTurns
  BY TurnAssumption
<1> QED
  BY <1>1, <1>2, <1>3 DEF Call

\* A new call starts at the present turn count.
LEMMA NewCallFacts ==
    ASSUME TypeOK, NEW d \in Drivers, w' = NewCall(d), created' \in Nat, Len(rows') \in Nat
    PROVE  /\ w' \in Call' /\ w'.pc = "begin" /\ w'.start = turn_number
           /\ w'.why = "none" /\ w'.sid = 0 /\ w'.row = 0
<1>1. w' = [pc |-> "begin", sid |-> 0, row |-> 0, failure |-> "none", why |-> "none",
            repaired |-> FALSE, resumes |-> 0, corrected |-> FALSE,
            start |-> turn_number, raced |-> FALSE, driver |-> d]
  BY DEF NewCall, Idle
<1>2. /\ "begin" \in Steps /\ "none" \in Failures \cup {"none"}
      /\ "none" \in Reasons \cup {"none"}
  BY DEF Steps
<1>3. /\ 0 \in 0..created' /\ 0 \in 0..Len(rows') /\ 0 \in 0..MaxResumes
      /\ turn_number \in 0..MaxTurns
  BY TurnAssumption DEF TypeOK
<1> QED
  BY <1>1, <1>2, <1>3 DEF Call

\* The next call starts at the turn count as it is.
LEMMA ReturnTurnCore ==
    ASSUME Core, ReturnTurn
    PROVE  Core'
<1>1. TypeOK /\ Counters /\ w.pc = "return"
  BY DEF Core, ReturnTurn
<1>2. UNCHANGED <<rows, pausing, created, completed, exposed, faults, crashes, calls>>
  BY DEF ReturnTurn, history, bounds
<1>3. exposed' \in BOOLEAN /\ created' \in Nat /\ Len(rows') \in Nat /\ w.driver \in Drivers
  BY <1>1, <1>2 DEF TypeOK
<1>4. CASE Raise /\ UNCHANGED <<record, r>>
  BY <1>1, <1>2, <1>3, <1>4, RaiseKeeps
<1>5. CASE /\ state \notin Stopped
           /\ agent' \in Agents
           /\ \/ w' = NewCall(w.driver) /\ state' = state
              \/ w' = Idle /\ state' = "GATE"
           /\ Bump
           /\ UNCHANGED <<resume, turn_number, session, rotations, marked>>
  <2>1. w' \in Call' /\ (w'.pc = "idle" \/ (w'.pc = "begin" /\ w'.start = turn_number))
    <3>1. CASE w' = Idle
      BY <1>1, <1>2, <3>1, IdleFacts DEF TypeOK
    <3>2. CASE w' = NewCall(w.driver)
      BY <1>1, <1>3, <3>2, NewCallFacts
    <3> QED
      BY <1>5, <3>1, <3>2
  <2>2. /\ state' \in {state, "GATE"} /\ state # "PAUSED"
        /\ UNCHANGED <<resume, turn_number, session, rotations, marked>>
    BY <1>5 DEF Stopped
  <2>3. r' \in Recovery'
    BY <1>1, <1>2, <1>5, BumpFacts
  <2>4. TypeOK'
    BY <1>1, <1>2, <1>5, <2>1, <2>2, <2>3 DEF TypeOK, Call, Recovery, Working
  <2>5. Counters'
    BY <1>1, <1>2, <2>1, <2>2, TurnAssumption
    DEF TypeOK, Counters, TurnCount, Uncharged, Open, Charged, Admitted, PaidFor,
        RotationDue, Resumable, Working, Stopped, Over
  <2> QED
    BY <2>4, <2>5 DEF Core
<1> QED
  BY <1>4, <1>5 DEF ReturnTurn

\* Saving the failed row keeps the charge.
LEMMA FailTurnCore ==
    ASSUME Core, FailTurn
    PROVE  Core'
<1>1. TypeOK /\ Counters /\ w.pc = "fail"
  BY DEF Core, FailTurn
<1>2. UNCHANGED <<record, r, pausing, created, completed, exposed, faults, crashes, calls>>
  BY DEF FailTurn, history, bounds
<1>3. UNCHANGED <<state, resume, agent, turn_number, session, rotations, marked>>
  BY <1>2 DEF record
<1>4. rows' \in Seq(Row) /\ Len(rows') = Len(rows) /\ DOMAIN rows' = DOMAIN rows
  <2> DEFINE e == [rows[w.row] EXCEPT !.status = "failed", !.error = w.failure]
  <2>1. w.row \in DOMAIN rows => e \in Row
    <3>1. rows \in Seq(Row) /\ w.failure \in Failures \cup {"none"}
      BY <1>1 DEF TypeOK
    <3>2. w.row \in DOMAIN rows => rows[w.row] \in Row
      BY <3>1
    <3> QED
      BY <3>1, <3>2 DEF Row
  <2>2. rows' = [rows EXCEPT ![w.row] = e]
    BY <1>1 DEF FailTurn, TypeOK
  <2> HIDE DEF e
  <2> QED
    BY <1>1, <2>1, <2>2, RowRewritten
<1> DEFINE next == IF w.failure = "dependency" THEN "repair" ELSE "rotate"
<1>5. w' = [w EXCEPT !.raced = FALSE, !.why = "failure", !.pc = next]
  BY DEF FailTurn
<1>6. next \in {"repair", "rotate"}
  OBVIOUS
<1> HIDE DEF next
<1>7. w' \in Call' /\ w'.pc \in {"repair", "rotate"} /\ w'.start = w.start /\ w'.why = "failure"
  <2>1. w \in Call /\ UNCHANGED created /\ next \in Steps /\ "failure" \in Reasons
    BY <1>1, <1>2, <1>6, CallFacts DEF Steps, Reasons
  <2> QED
    BY <1>4, <1>5, <1>6, <2>1 DEF Call
<1>8. TypeOK'
  BY <1>1, <1>2, <1>3, <1>4, <1>7 DEF TypeOK, Call
<1>9. Counters'
  BY <1>1, <1>2, <1>3, <1>7, TurnAssumption
    DEF TypeOK, Counters, TurnCount, Uncharged, Open, Charged, Admitted, PaidFor,
        RotationDue, Resumable, Working, Stopped, Over
<1> QED
  BY <1>8, <1>9 DEF Core

\* A repair leaves the charge for the retry or the rollback to take back.
LEMMA RepairDependenciesCore ==
    ASSUME Core, RepairDependencies
    PROVE  Core'
<1>1. TypeOK /\ Counters /\ w.pc = "repair"
  BY DEF Core, RepairDependencies
<1>2. UNCHANGED <<record, rows, r, pausing, created, completed, exposed, faults, crashes, calls>>
  BY DEF RepairDependencies, history, bounds
<1>3. UNCHANGED <<state, resume, agent, turn_number, session, rotations, marked>>
  BY <1>2 DEF record
<1>4. w' \in Call' /\ w'.pc \in {"retry", "rollback"} /\ w'.start = w.start
  <2>1. w \in Call /\ Call' = Call /\ 0 \in 0..MaxResumes
    BY <1>1, <1>2, CallFacts, TurnAssumption
  <2>2. CASE w' = [w EXCEPT !.pc = "retry", !.raced = FALSE, !.repaired = TRUE, !.resumes = 0]
    BY <2>1, <2>2 DEF Call, Steps
  <2>3. CASE Go("rollback")
    BY <2>1, <2>3 DEF Go, Call, Steps
  <2> QED
    BY <2>2, <2>3 DEF RepairDependencies
<1>5. TypeOK'
  BY <1>1, <1>2, <1>4, KeepsTypes DEF TypeOK
<1>6. Counters'
  BY <1>1, <1>2, <1>3, <1>4, TurnAssumption
    DEF TypeOK, Counters, TurnCount, Uncharged, Open, Charged, Admitted, PaidFor,
        RotationDue, Resumable, Working, Stopped, Over
<1> QED
  BY <1>5, <1>6 DEF Core

\* The rollback takes back exactly the charge of this call.
LEMMA RollbackTurnNumberCore ==
    ASSUME Core, RollbackTurnNumber
    PROVE  Core'
<1>1. TypeOK /\ Counters /\ w.pc = "rollback"
  BY DEF Core, RollbackTurnNumber
<1>2. UNCHANGED <<rows, pausing, created, completed, exposed, faults, crashes, calls>>
  BY DEF RollbackTurnNumber, history, bounds
<1>3. exposed' \in BOOLEAN
  BY <1>1, <1>2 DEF TypeOK
<1>4. CASE Conflict \/ (Raise /\ UNCHANGED <<record, r>>)
  BY <1>1, <1>2, <1>3, <1>4, RaiseKeeps DEF Conflict
<1>5. CASE /\ turn_number' = turn_number - 1 /\ Raise /\ Bump
           /\ UNCHANGED <<state, resume, agent, session, rotations, marked>>
  <2>1. w' \in Call' /\ w'.pc = "raise" /\ w'.start = w.start
    BY <1>1, <1>2, <1>5, RaiseFacts DEF TypeOK
  <2>2. turn_number' \in 0..MaxTurns
    BY <1>1, <1>5, TurnAssumption DEF TypeOK, Counters, TurnCount, Open, Charged
  <2>3. TypeOK'
    BY <1>1, <1>2, <1>5, <2>1, <2>2, BumpFacts DEF TypeOK, Call, Recovery
  <2>4. Counters'
    BY <1>1, <1>2, <1>5, <2>1, TurnAssumption
    DEF TypeOK, Counters, TurnCount, Uncharged, Open, Charged, Admitted, PaidFor,
        RotationDue, Resumable, Working, Stopped, Over
  <2> QED
    BY <2>3, <2>4 DEF Core
<1> QED
  BY <1>4, <1>5 DEF RollbackTurnNumber

\* The decision after a failure moves no count.
LEMMA DecideRetryCore ==
    ASSUME Core, DecideRetry
    PROVE  Core'
<1>1. TypeOK /\ Counters /\ w.pc = "decide"
  BY DEF Core, DecideRetry
<1>2. UNCHANGED <<record, rows, r, pausing, created, completed, exposed, faults, crashes, calls>>
  BY DEF DecideRetry, history, bounds
<1>3. UNCHANGED <<state, resume, agent, turn_number, session, rotations, marked>>
  BY <1>2 DEF record
<1>4. exposed' \in BOOLEAN
  BY <1>1, <1>2 DEF TypeOK
<1>5. CASE Raise
  BY <1>1, <1>2, <1>4, <1>5, RaiseKeeps
<1>6. ASSUME NEW n \in 0..MaxResumes,
             w' = [w EXCEPT !.pc = "retry", !.raced = FALSE, !.repaired = FALSE, !.resumes = n]
      PROVE  Core'
  <2>1. w' \in Call' /\ w'.pc = "retry" /\ w'.start = w.start
    BY <1>1, <1>2, <1>6, CallFacts DEF Call, Steps
  <2>2. TypeOK'
    BY <1>1, <1>2, <1>4, <2>1, KeepsTypes
  <2>3. Counters'
    BY <1>1, <1>2, <1>3, <2>1, TurnAssumption
    DEF TypeOK, Counters, TurnCount, Uncharged, Open, Charged, Admitted, PaidFor,
        RotationDue, Resumable, Working, Stopped, Over
  <2> QED
    BY <2>2, <2>3 DEF Core
<1>7. CASE /\ w.resumes < MaxResumes
           /\ w' = [w EXCEPT !.pc = "retry", !.raced = FALSE, !.repaired = FALSE,
                             !.resumes = @ + 1]
  <2>1. w.resumes + 1 \in 0..MaxResumes
    <3>1. w.resumes \in 0..MaxResumes /\ w.resumes < MaxResumes
      BY <1>1, <1>7 DEF TypeOK
    <3> QED
      BY <3>1, TurnAssumption
  <2>2. w' = [w EXCEPT !.pc = "retry", !.raced = FALSE, !.repaired = FALSE,
                       !.resumes = w.resumes + 1]
    BY <1>1, <1>7, CallFacts DEF Call
  <2> QED
    BY <1>6, <2>1, <2>2
<1>8. CASE w' = [w EXCEPT !.pc = "retry", !.raced = FALSE, !.repaired = FALSE]
  <2>1. w.resumes \in 0..MaxResumes
    BY <1>1 DEF TypeOK
  <2>2. w' = [w EXCEPT !.pc = "retry", !.raced = FALSE, !.repaired = FALSE,
                       !.resumes = w.resumes]
    BY <1>1, <1>8, CallFacts DEF Call
  <2> QED
    BY <1>6, <2>1, <2>2
<1> QED
  BY <1>5, <1>7, <1>8 DEF DecideRetry

\* A retry enters the same call again with nothing charged.
LEMMA RetryTurnCore ==
    ASSUME Core, RetryTurn
    PROVE  Core'
<1>1. TypeOK /\ Counters /\ w.pc = "retry"
  BY DEF Core, RetryTurn
<1>2. UNCHANGED <<rows, pausing, created, completed, exposed, faults, crashes, calls>>
  BY DEF RetryTurn, history, bounds
<1>3. exposed' \in BOOLEAN
  BY <1>1, <1>2 DEF TypeOK
<1>4. CASE Conflict \/ (Raise /\ UNCHANGED <<record, r>>)
  BY <1>1, <1>2, <1>3, <1>4, RaiseKeeps DEF Conflict
<1>5. CASE /\ turn_number' = turn_number - 1
           /\ w' = [w EXCEPT !.pc = "begin", !.raced = FALSE, !.sid = 0, !.row = 0,
                            !.failure = "none", !.why = "none"]
           /\ Bump
           /\ UNCHANGED <<state, resume, agent, session, rotations, marked>>
  <2>1. w' \in Call' /\ w'.pc = "begin" /\ w'.start = w.start
    <3>1. w \in Call /\ Call' = Call /\ 0 \in 0..created /\ 0 \in 0..Len(rows) /\ "begin" \in Steps
      BY <1>1, <1>2, CallFacts DEF TypeOK, Steps
    <3>2. w' = [w EXCEPT !.pc = "begin", !.raced = FALSE, !.sid = 0, !.row = 0,
                            !.failure = "none", !.why = "none"]
      BY <1>5
    <3>3. w' = [pc |-> "begin", sid |-> 0, row |-> 0, failure |-> "none", why |-> "none",
                repaired |-> w.repaired, resumes |-> w.resumes, corrected |-> w.corrected,
                start |-> w.start, raced |-> FALSE, driver |-> w.driver]
      BY <3>1, <3>2 DEF Call
    <3>4. /\ w.repaired \in BOOLEAN /\ w.resumes \in 0..MaxResumes /\ w.corrected \in BOOLEAN
          /\ w.start \in 0..MaxTurns /\ w.driver \in Drivers
      BY <3>1 DEF Call
    <3> QED
      BY <3>1, <3>3, <3>4, Zenon DEF Call
  <2>2. turn_number' = turn_number - 1 /\ UNCHANGED <<state, resume, agent, session, rotations, marked>>
    BY <1>5
  <2>3. turn_number' \in 0..MaxTurns
    BY <1>1, <2>2, TurnAssumption DEF TypeOK, Counters, TurnCount, Open, Charged
  <2>4. r' \in Recovery'
    BY <1>1, <1>2, <1>5, BumpFacts
  <2>5. TypeOK'
    BY <1>1, <1>2, <2>1, <2>2, <2>3, <2>4 DEF TypeOK, Call, Recovery
  <2>6. Counters'
    BY <1>1, <1>2, <2>1, <2>2, TurnAssumption
    DEF TypeOK, Counters, TurnCount, Uncharged, Open, Charged, Admitted, PaidFor,
        RotationDue, Resumable, Working, Stopped, Over
  <2> QED
    BY <2>5, <2>6 DEF Core
<1> QED
  BY <1>4, <1>5 DEF RetryTurn

\* The caller that catches the exception pauses the run or leaves it.
LEMMA CallerHandlesCore ==
    ASSUME Core, CallerHandles
    PROVE  Core'
<1>1. TypeOK /\ Counters /\ w.pc = "raise"
  BY DEF Core, CallerHandles
<1>2. UNCHANGED <<agent, turn_number, session, rotations, marked, rows, pausing,
                  created, completed, exposed, crashes, calls>>
  BY DEF CallerHandles, history
<1>3. /\ \/ state' = "PAUSED" /\ resume' \in Phase
         \/ UNCHANGED <<state, resume>>
      /\ r' = r \/ Bump
      /\ faults' = faults \/ Fault
      /\ w' = Idle
  BY <1>1, HereIsAPhase DEF CallerHandles, Working
<1>4. w' \in Call' /\ w'.pc = "idle"
  BY <1>1, <1>2, <1>3, IdleFacts DEF TypeOK
<1>5. r' \in Recovery'
  BY <1>1, <1>2, <1>3, BumpFacts DEF TypeOK, Recovery
<1>6. faults' \in 0..MaxFaults
  BY <1>1, <1>3, TurnAssumption DEF TypeOK, Fault
<1>7. TypeOK'
  BY <1>1, <1>2, <1>3, <1>4, <1>5, <1>6 DEF TypeOK, Call, Recovery, Working, Stopped
<1>8. Counters'
  BY <1>1, <1>2, <1>3, <1>4, TurnAssumption
    DEF TypeOK, Counters, TurnCount, Uncharged, Open, Charged, Admitted, PaidFor,
        RotationDue, Resumable, Working, Stopped, Over
<1> QED
  BY <1>7, <1>8 DEF Core

\* A decision at a gate starts a call.
LEMMA EnterFromGateCore ==
    ASSUME Core, EnterFromGate
    PROVE  Core'
<1>1. TypeOK /\ Counters
  BY DEF Core
<1>2. /\ UNCHANGED <<resume, turn_number, session, rotations, marked, rows, pausing,
                     created, completed, faults, crashes, calls>>
      /\ state' = "WORKING" /\ agent' \in Agents /\ exposed' \in BOOLEAN
      /\ r' = [r EXCEPT !.raced = r.pc = "rotate", !.overtaken = Sweeping]
  BY DEF EnterFromGate, bounds
<1>3. w' \in Call' /\ w'.pc = "begin" /\ w'.start = turn_number
  <2>1. PICK d \in {"pauses", "leaves"} : w' = NewCall(d)
    BY DEF EnterFromGate
  <2>2. d \in Drivers /\ created' \in Nat /\ Len(rows') \in Nat
    BY <1>1, <1>2 DEF Drivers, TypeOK
  <2> QED
    BY <1>1, <2>1, <2>2, NewCallFacts
<1>r. r' \in Recovery'
  <2>1. Sweeping \in BOOLEAN /\ (r.pc = "rotate") \in BOOLEAN
    BY DEF Sweeping
  <2>2. r \in Recovery /\ Recovery' = Recovery
    BY <1>1, <1>2 DEF TypeOK, Recovery
  <2> QED
    BY <1>2, <2>1, <2>2 DEF Recovery
<1>4. TypeOK'
  BY <1>1, <1>2, <1>3, <1>r DEF TypeOK, Call, Recovery, Working
<1>5. Counters'
  BY <1>1, <1>2, <1>3, TurnAssumption
    DEF TypeOK, Counters, TurnCount, Uncharged, Open, Charged, Admitted, PaidFor,
        RotationDue, Resumable, Working, Stopped, Over
<1> QED
  BY <1>4, <1>5 DEF Core

\* A pause reads the state.
LEMMA PauseRunCore ==
    ASSUME Core, PauseRun
    PROVE  Core'
<1>1. TypeOK /\ Counters
  BY DEF Core
<1>2. /\ UNCHANGED <<record, rows, w, r, created, completed, exposed, faults, crashes>>
      /\ pausing' = Here /\ state \in Working
      /\ calls' = calls + 1 /\ calls < MaxCalls
  BY DEF PauseRun, history
<1>3. UNCHANGED <<state, resume, agent, turn_number, session, rotations, marked>>
  BY <1>2 DEF record
<1>p. pausing' \in Phase
  BY <1>1, <1>2, HereIsAPhase
<1>4. TypeOK'
  BY <1>1, <1>2, <1>3, <1>p, TurnAssumption DEF TypeOK
<1>5. Counters'
  BY <1>1, <1>2, <1>3, TurnAssumption
    DEF TypeOK, Counters, TurnCount, Uncharged, Open, Charged, Admitted, PaidFor,
        RotationDue, Resumable, Working, Stopped, Over
<1> QED
  BY <1>4, <1>5 DEF Core

\* A pause writes the state and no count.
LEMMA PauseCommitsCore ==
    ASSUME Core, PauseCommits
    PROVE  Core'
<1>1. TypeOK /\ Counters
  BY DEF Core
<1>2. /\ UNCHANGED <<agent, turn_number, session, rotations, marked, rows, created,
                     completed, crashes, calls>>
      /\ pausing # NoPhase /\ pausing' = NoPhase
  BY DEF PauseCommits
<1>3. /\ \/ state' = "PAUSED" /\ resume' = pausing
            /\ state \in Working /\ w' = [w EXCEPT !.raced = w.pc \in Writing]
         \/ UNCHANGED <<state, resume, w>>
      /\ r' = r \/ Bump
      /\ faults' = faults \/ Fault
  BY DEF PauseCommits
<1>4. exposed' \in BOOLEAN
  <2>1. exposed \in BOOLEAN
    BY <1>1 DEF TypeOK
  <2>2. \/ exposed' = \/ exposed
                      \/ pausing.state # state
                      \/ state = "WORKING" /\ pausing.agent # agent
        \/ exposed' = exposed
    BY DEF PauseCommits
  <2> QED
    BY <2>1, <2>2, Zenon
<1>5. w' \in Call' /\ w'.pc = w.pc /\ w'.why = w.why /\ w'.start = w.start
  <2>1. w \in Call /\ Call' = Call
    BY <1>1, <1>2, CallFacts
  <2>2. w' = [w EXCEPT !.raced = w.pc \in Writing] \/ w' = w
    BY <1>3
  <2>3. (w.pc \in Writing) \in BOOLEAN
    OBVIOUS
  <2> QED
    BY <2>1, <2>2, <2>3 DEF Call
<1>6. r' \in Recovery'
  BY <1>1, <1>2, <1>3, BumpFacts DEF TypeOK, Recovery
<1>7. faults' \in 0..MaxFaults
  BY <1>1, <1>3, FaultFacts
<1>8. /\ \/ state' = "PAUSED" /\ resume' \in Phase /\ state \in Working
         \/ UNCHANGED <<state, resume>>
  BY <1>1, <1>2, <1>3 DEF TypeOK
<1>9. TypeOK'
  BY <1>1, <1>2, <1>4, <1>5, <1>6, <1>7, <1>8 DEF TypeOK, Call, Recovery, Working, Stopped
<1>10. Counters'
  BY <1>1, <1>2, <1>5, <1>8, TurnAssumption
    DEF TypeOK, Counters, TurnCount, Uncharged, Open, Charged, Admitted, PaidFor,
        RotationDue, Resumable, Working, Stopped, Over
<1> QED
  BY <1>9, <1>10 DEF Core

\* A resume starts a call that still has to leave the pause.
LEMMA ResumeRunCore ==
    ASSUME Core, ResumeRun
    PROVE  Core'
<1>1. TypeOK /\ Counters /\ state = "PAUSED"
  BY DEF Core, ResumeRun
<1>2. /\ UNCHANGED <<rows, pausing, created, completed, faults, crashes, calls>>
      /\ exposed' \in BOOLEAN /\ agent' = resume.agent
      /\ r' = [r EXCEPT !.overtaken = Sweeping]
  BY DEF ResumeRun, bounds
<1>3. UNCHANGED <<state, resume, turn_number, session, rotations, marked>>
  BY DEF ResumeRun
<1>4. /\ w' \in Call' /\ w'.start = turn_number
      /\ (w'.pc = "rotate" /\ w'.why = "resume") \/ w'.pc = "unpause"
  <2>1. \E p \in {"rotate", "unpause"} :
           w' = [Idle EXCEPT !.driver = "leaves", !.start = turn_number,
                   !.pc = p, !.why = IF p = "rotate" THEN "resume" ELSE "none"]
    BY DEF ResumeRun
  <2>2. PICK p \in {"rotate", "unpause"} :
           w' = [Idle EXCEPT !.driver = "leaves", !.start = turn_number,
                   !.pc = p, !.why = IF p = "rotate" THEN "resume" ELSE "none"]
    BY <2>1
  <2> DEFINE why == IF p = "rotate" THEN "resume" ELSE "none"
  <2>3. w' = [pc |-> p, sid |-> 0, row |-> 0, failure |-> "none", why |-> why,
              repaired |-> FALSE, resumes |-> 0, corrected |-> FALSE,
              start |-> turn_number, raced |-> FALSE, driver |-> "leaves"]
    BY <2>2 DEF Idle
  <2>4. /\ p \in Steps /\ "none" \in Failures \cup {"none"}
        /\ why \in Reasons \cup {"none"} /\ "leaves" \in Drivers
        /\ (p = "rotate" /\ why = "resume") \/ p = "unpause"
    BY DEF Steps, Drivers, Reasons
  <2>5. /\ 0 \in 0..created' /\ 0 \in 0..Len(rows') /\ 0 \in 0..MaxResumes
        /\ turn_number \in 0..MaxTurns
    BY <1>1, <1>2, TurnAssumption DEF TypeOK
  <2> HIDE DEF why
  <2>6. w' \in Call'
    BY <2>3, <2>4, <2>5, Zenon DEF Call
  <2> QED
    BY <2>3, <2>4, <2>6
<1>a. agent' \in Agents
  BY <1>1, <1>2 DEF Counters, Resumable, Phase
<1>r. r' \in Recovery'
  <2>1. Sweeping \in BOOLEAN /\ (r.pc = "rotate") \in BOOLEAN
    BY DEF Sweeping
  <2>2. r \in Recovery /\ Recovery' = Recovery
    BY <1>1, <1>2 DEF TypeOK, Recovery
  <2> QED
    BY <1>2, <2>1, <2>2 DEF Recovery
<1>5. TypeOK'
  BY <1>1, <1>2, <1>3, <1>4, <1>a, <1>r DEF TypeOK, Call, Recovery
<1>6. Counters'
  BY <1>1, <1>2, <1>3, <1>4, TurnAssumption
    DEF TypeOK, Counters, TurnCount, Uncharged, Open, Charged, Admitted, PaidFor,
        RotationDue, Resumable, Working, Stopped, Over
<1> QED
  BY <1>5, <1>6 DEF Core

\* Leaving the pause charges nothing.
LEMMA UnpauseCore ==
    ASSUME Core, Unpause
    PROVE  Core'
<1>1. TypeOK /\ Counters /\ w.pc = "unpause"
  BY DEF Core, Unpause
<1>2. /\ UNCHANGED <<agent, turn_number, session, marked, rows, pausing,
                     created, completed, exposed, crashes, calls>>
      /\ state' = resume.state /\ resume' = NoPhase /\ rotations' = 0 /\ Bump
      /\ faults' = faults \/ Fault
  BY DEF Unpause, history
<1>3. w' \in Call' /\ (w'.pc = "idle" \/ (w'.pc = "begin" /\ w'.start = turn_number))
  <2>1. "pauses" \in Drivers /\ created' \in Nat /\ Len(rows') \in Nat
    BY <1>1, <1>2 DEF TypeOK, Drivers
  <2>2. CASE w' = Idle
    BY <1>1, <2>1, <2>2, IdleFacts
  <2>3. CASE w' = NewCall("pauses")
    BY <1>1, <2>1, <2>3, NewCallFacts
  <2> QED
    BY <2>2, <2>3 DEF Unpause
<1>4. resume.state \in Working
  BY <1>1 DEF Counters, Resumable, Phase
<1>5. faults' \in 0..MaxFaults /\ r' \in Recovery'
  BY <1>1, <1>2, BumpFacts, TurnAssumption DEF TypeOK, Fault
<1>6. TypeOK'
  BY <1>1, <1>2, <1>3, <1>4, <1>5, TurnAssumption DEF TypeOK, Call, Recovery, Working
<1>7. Counters'
  BY <1>1, <1>2, <1>3, <1>4, TurnAssumption
    DEF TypeOK, Counters, TurnCount, Uncharged, Open, Charged, Admitted, PaidFor,
        RotationDue, Resumable, Working, Stopped, Over
<1> QED
  BY <1>6, <1>7 DEF Core

\* A cancel ends the run and no count moves.
LEMMA CancelRunCore ==
    ASSUME Core, CancelRun
    PROVE  Core'
<1>1. TypeOK /\ Counters /\ w.pc = "idle"
  BY DEF Core, CancelRun
<1>2. /\ UNCHANGED <<resume, agent, turn_number, session, rotations, marked, rows, w,
                     pausing, created, completed, exposed, faults, crashes>>
      /\ state' = "CANCELLED" /\ calls < MaxCalls /\ calls' = calls + 1 /\ Bump
  BY DEF CancelRun, history
<1>3. TypeOK'
  BY <1>1, <1>2, BumpFacts, TurnAssumption DEF TypeOK, Recovery, Stopped, Over
<1>4. Counters'
  BY <1>1, <1>2, TurnAssumption
    DEF TypeOK, Counters, TurnCount, Uncharged, Open, Charged, Admitted, PaidFor,
        RotationDue, Resumable, Working, Stopped, Over
<1> QED
  BY <1>3, <1>4 DEF Core

\* A crash drops the call and keeps what was stored.
LEMMA CrashCore ==
    ASSUME Core, Crash
    PROVE  Core'
<1>1. TypeOK /\ Counters
  BY DEF Core
<1>2. /\ UNCHANGED <<record, rows, created, completed, faults, calls>>
      /\ crashes < MaxCrashes /\ crashes' = crashes + 1
      /\ w' = Idle /\ pausing' = NoPhase /\ exposed' \in BOOLEAN
      /\ r' = [NoRecovery EXCEPT !.pc = "boot"]
  BY DEF Crash
<1>3. UNCHANGED <<state, resume, agent, turn_number, session, rotations, marked>>
  BY <1>2 DEF record
<1>4. w' \in Call' /\ w'.pc = "idle"
  BY <1>1, <1>2, IdleFacts DEF TypeOK
<1>5. r' \in Recovery'
  BY <1>2 DEF Recovery, NoRecovery
<1>6. crashes' \in 0..MaxCrashes
  <2>1. crashes \in 0..MaxCrashes /\ crashes < MaxCrashes /\ crashes' = crashes + 1
    BY <1>1, <1>2 DEF TypeOK
  <2> QED
    BY <2>1, TurnAssumption
<1>7. TypeOK'
  BY <1>1, <1>2, <1>3, <1>4, <1>5, <1>6 DEF TypeOK, Call, Recovery
<1>8. Counters'
  BY <1>1, <1>2, <1>3, <1>4, TurnAssumption
    DEF TypeOK, Counters, TurnCount, Uncharged, Open, Charged, Admitted, PaidFor,
        RotationDue, Resumable, Working, Stopped, Over
<1> QED
  BY <1>7, <1>8 DEF Core

\* The sweep writes neither the turn count nor the worker's step.
LEMMA SweepKeeps ==
    ASSUME Core, r' \in Recovery', rows' \in Seq(Row), Len(rows') = Len(rows),
           session' \in [Agents -> 0..created], w' \in Call',
           w'.pc = w.pc, w'.why = w.why, w'.start = w.start,
           UNCHANGED <<state, resume, agent, turn_number, rotations, marked, pausing,
                       created, completed, crashes, calls>>,
           exposed' \in BOOLEAN, faults' = faults \/ Fault
    PROVE  Core'
<1>1. TypeOK /\ Counters
  BY DEF Core
<1>f. faults' \in 0..MaxFaults
  BY <1>1, FaultFacts
<1>2. TypeOK'
  BY <1>1, <1>f DEF TypeOK, Call, Recovery
<1>3. Counters'
  BY <1>1 DEF Counters, TurnCount, Uncharged, Open, Charged, Admitted, PaidFor,
        RotationDue, Resumable
<1> QED
  BY <1>2, <1>3 DEF Core

\* The reads of the recovery sweep keep the counts.
LEMMA SweepReads ==
    ASSUME Core, RecoverBoot \/ RecoverDies \/ RecoverScan \/ RecoverList
    PROVE  Core'
<1>1. TypeOK /\ Counters
  BY DEF Core
<1>2. /\ UNCHANGED <<state, resume, agent, turn_number, session, rotations, marked, rows,
                     w, pausing, created, completed, crashes, calls>>
      /\ faults' = faults \/ Fault
  BY DEF RecoverBoot, RecoverDies, RecoverScan, RecoverList, record, history, bounds
<1>e. exposed' \in BOOLEAN
  BY <1>1 DEF TypeOK, RecoverBoot, RecoverDies, RecoverScan, RecoverList, history
<1>3. r \in Recovery /\ Recovery' = Recovery /\ Running \subseteq DOMAIN rows
  BY <1>1, <1>2 DEF TypeOK, Recovery, Running
<1>4. r' \in Recovery'
  <2>1. CASE RecoverBoot
    BY <1>3, <2>1 DEF RecoverBoot, Recovery, NoRecovery
  <2>2. CASE RecoverScan
    BY <1>3, <2>2 DEF RecoverScan, Recovery
  <2>3. CASE RecoverList
    BY <1>3, <2>3 DEF RecoverList, Recovery, NoRecovery
  <2>4. CASE RecoverDies
    BY <1>3, <2>4 DEF RecoverDies, Recovery, NoRecovery
  <2> QED
    BY <2>1, <2>2, <2>3, <2>4
<1>5. w' \in Call' /\ rows' \in Seq(Row) /\ session' \in [Agents -> 0..created]
  BY <1>1, <1>2, CallFacts DEF TypeOK
<1> QED
  BY <1>2, <1>4, <1>5, <1>e, SweepKeeps

\* Marking an interrupted row moves no count.
LEMMA RecoverMarkCore ==
    ASSUME Core, RecoverMark
    PROVE  Core'
<1>1. TypeOK
  BY DEF Core
<1>2. UNCHANGED <<state, resume, agent, turn_number, session, rotations, marked, w,
                  pausing, created, completed, exposed, faults, crashes, calls>>
  BY DEF RecoverMark, record, history, bounds
<1> DEFINE i == Min(r.listed)
           rest == r.listed \ {i}
           e == [rows[i] EXCEPT !.status = "failed", !.error = "restart"]
           next == CASE rest # {} -> "mark"
                     [] rest = {} /\ r.seen # {} -> "rotate"
                     [] OTHER -> "lock"
<1>3. rows' = [rows EXCEPT ![i] = e]
  BY <1>1 DEF RecoverMark, TypeOK
<1>4. r' = [r EXCEPT !.listed = rest, !.pc = next]
  BY DEF RecoverMark
<1>5. next \in {"mark", "rotate", "lock"}
  OBVIOUS
<1>6. rest \subseteq r.listed
  OBVIOUS
<1>7. i \in DOMAIN rows => e \in Row
  <2>1. i \in DOMAIN rows => rows[i] \in Row
    BY <1>1 DEF TypeOK
  <2> HIDE DEF i
  <2> QED
    BY <2>1 DEF Row
<1> HIDE DEF i, rest, e, next
<1>8. rows' \in Seq(Row) /\ Len(rows') = Len(rows) /\ DOMAIN rows' = DOMAIN rows
  BY <1>1, <1>3, <1>7, RowRewritten
<1>9. r' \in Recovery'
  BY <1>1, <1>4, <1>5, <1>6, <1>8 DEF TypeOK, Recovery
<1>10. w' \in Call' /\ session' \in [Agents -> 0..created]
  BY <1>1, <1>2, <1>8, CallFacts DEF TypeOK, Call
<1> QED
  BY <1>1, <1>2, <1>8, <1>9, <1>10, SweepKeeps DEF TypeOK

\* The rotation of the sweep refunds nothing.
LEMMA RecoverRotateCore ==
    ASSUME Core, RecoverRotate
    PROVE  Core'
<1>1. TypeOK
  BY DEF Core
<1>2. /\ UNCHANGED <<state, resume, agent, turn_number, rotations, marked, rows,
                     pausing, created, completed, exposed, crashes, calls>>
      /\ faults' = faults \/ Fault
  BY DEF RecoverRotate, history
<1>3. r \in Recovery /\ Recovery' = Recovery /\ w \in Call /\ Call' = Call
  BY <1>1, <1>2, CallFacts DEF TypeOK, Recovery
<1> DEFINE i == Min(r.seen)
           rest == r.seen \ {i}
           next == IF rest = {} THEN "lock" ELSE "rotate"
<1>4. /\ \/ session' = [session EXCEPT ![rows[i].agent] = 0]
         \/ session' = session
      /\ \/ r' = [r EXCEPT !.seen = rest, !.raced = FALSE, !.pc = next]
         \/ r' = NoRecovery
      /\ \/ w' = [w EXCEPT !.raced = w.pc \in Writing]
         \/ w' = w
  BY DEF RecoverRotate
<1>5. next \in {"lock", "rotate"} /\ rest \subseteq r.seen
  OBVIOUS
<1> HIDE DEF i, rest, next
<1>6. session' \in [Agents -> 0..created]
  <2>1. session \in [Agents -> 0..created] /\ 0 \in 0..created
    BY <1>1 DEF TypeOK
  <2>2. CASE session' = [session EXCEPT ![rows[i].agent] = 0]
    BY <2>1, <2>2, Zenon
  <2> QED
    BY <1>4, <2>1, <2>2
<1>7. r' \in Recovery'
  BY <1>3, <1>4, <1>5 DEF Recovery, NoRecovery
<1>8. w' \in Call' /\ w'.pc = w.pc /\ w'.why = w.why /\ w'.start = w.start
  <2>1. (w.pc \in Writing) \in BOOLEAN
    OBVIOUS
  <2> QED
    BY <1>3, <1>4, <2>1 DEF Call
<1> QED
  BY <1>1, <1>2, <1>6, <1>7, <1>8, SweepKeeps DEF TypeOK

\* Recovery starts a call once the sweep has passed the run.
LEMMA RecoverEnterCore ==
    ASSUME Core, RecoverEnter
    PROVE  Core'
<1>1. TypeOK /\ Counters /\ w.pc = "idle"
  BY DEF Core, RecoverEnter
<1>2. /\ UNCHANGED <<state, resume, agent, turn_number, session, rotations, marked, rows,
                     pausing, created, completed, exposed, faults, crashes, calls>>
      /\ r' = NoRecovery
      /\ w' = NewCall("pauses") \/ w' = w
  BY DEF RecoverEnter, record, history, bounds
<1>3. w' \in Call' /\ (w'.pc = "idle" \/ (w'.pc = "begin" /\ w'.start = turn_number))
  <2>1. "pauses" \in Drivers /\ created' \in Nat /\ Len(rows') \in Nat
    BY <1>1, <1>2 DEF TypeOK, Drivers
  <2>2. CASE w' = w
    BY <1>1, <1>2, <2>2, CallFacts
  <2>3. CASE w' = NewCall("pauses")
    BY <1>1, <2>1, <2>3, NewCallFacts
  <2> QED
    BY <1>2, <2>2, <2>3
<1>4. r' \in Recovery'
  BY <1>2 DEF Recovery, NoRecovery
<1>5. TypeOK'
  BY <1>1, <1>2, <1>3, <1>4 DEF TypeOK, Call, Recovery
<1>6. Counters'
  BY <1>1, <1>2, <1>3, TurnAssumption
    DEF TypeOK, Counters, TurnCount, Uncharged, Open, Charged, Admitted, PaidFor,
        RotationDue, Resumable, Working, Stopped, Over
<1> QED
  BY <1>5, <1>6 DEF Core

\* The counts agree when the run is created.
LEMMA InitCore ==
    ASSUME Init
    PROVE  Core
<1>1. w = [pc |-> "begin", sid |-> 0, row |-> 0, failure |-> "none", why |-> "none",
           repaired |-> FALSE, resumes |-> 0, corrected |-> FALSE,
           start |-> 0, raced |-> FALSE, driver |-> "leaves"]
  BY DEF Init, NewCall, Idle
<1>2. w \in Call
  <2>1. /\ "begin" \in Steps /\ "none" \in Failures \cup {"none"}
        /\ "none" \in Reasons \cup {"none"} /\ "leaves" \in Drivers
    BY DEF Steps, Drivers
  <2>2. /\ 0 \in 0..created /\ 0 \in 0..Len(rows) /\ 0 \in 0..MaxResumes
        /\ 0 \in 0..MaxTurns
    BY TurnAssumption DEF Init
  <2> QED
    BY <1>1, <2>1, <2>2, Zenon DEF Call
<1>3. r \in Recovery
  BY DEF Init, NoRecovery, Recovery
<1>4. rows \in Seq(Row) /\ session \in [Agents -> 0..created]
  BY DEF Init
<1>5. TypeOK
  <2>1. /\ state = "WORKING" /\ agent \in Agents /\ resume = NoPhase /\ turn_number = 0
        /\ rotations = 0 /\ marked = 0 /\ pausing = NoPhase /\ created = 0
        /\ completed = 0 /\ exposed = FALSE /\ faults = 0 /\ crashes = 0 /\ calls = 0
    BY DEF Init
  <2>2. exposed \in BOOLEAN /\ state \in Working \cup Stopped
    BY <2>1 DEF Working
  <2> QED
    BY <1>2, <1>3, <1>4, <2>1, <2>2, TurnAssumption DEF TypeOK, Call, Recovery
<1>6. w.pc = "begin" /\ w.start = 0
  BY <1>1
<1>7. Counters
  BY <1>6, TurnAssumption
  DEF Init, Counters, TurnCount, Uncharged, Open, Charged, Admitted, PaidFor,
      RotationDue, Resumable
<1> QED
  BY <1>5, <1>7 DEF Core

\* Every step keeps the types and the counts.
LEMMA StepCore ==
    ASSUME Core, [Next]_vars
    PROVE  Core'
<1>1. CASE Worker
  BY <1>1, CheckTurnBudgetCore, MaybeRotateTurnHistoryCore, RotateAgentSessionCore,
     CountRotationCore, EscalateChurnCore, EnsureSessionCore, ChargeTurnCore,
     SaveRunningTurnCore, GuardCore, RunModelCore, SaveCompletedTurnCore, FinishTurnCore,
     ReturnTurnCore, FailTurnCore, RepairDependenciesCore, RollbackTurnNumberCore,
     DecideRetryCore, RetryTurnCore, CallerHandlesCore, UnpauseCore
  DEF Worker
<1>2. CASE Sweep \/ RecoverEnter
  BY <1>2, SweepReads, RecoverMarkCore, RecoverRotateCore, RecoverEnterCore DEF Sweep
<1>3. CASE Environment
  BY <1>3, EnterFromGateCore, PauseRunCore, PauseCommitsCore, ResumeRunCore,
     CancelRunCore, CrashCore
  DEF Environment
<1>4. CASE UNCHANGED vars
  BY <1>4 DEF vars, record, threads, history, bounds, Core, TypeOK, Counters, TurnCount,
     Uncharged, Open, Charged, Admitted, PaidFor, RotationDue, Resumable
<1> QED
  BY <1>1, <1>2, <1>3, <1>4 DEF Next

\* The first layer holds of every reachable state.
LEMMA CoreInvariance == Spec => []Core
<1>1. Init => Core
  BY InitCore
<1>2. Core /\ [Next]_vars => Core'
  BY StepCore
<1> QED
  BY <1>1, <1>2, PTL DEF Spec

\* Every variable keeps its type in every behaviour; in particular the turn
\* count never leaves the budget although it is moved back (_run_agent_turn).
THEOREM TypeCorrect == Spec => []TypeOK
<1>1. Core => TypeOK
  BY DEF Core
<1> QED
  BY <1>1, CoreInvariance, PTL

\* Whatever mixture of retries, automatic resumes, repairs, pauses and
\* crashes a call meets, it spends at most one turn of the budget
\* (_run_agent_turn, _retry_agent_turn, _rollback_unconsumed_turn_number).
THEOREM OneTurnPerCall == Spec => []CallSpendsOneTurn
<1>1. Core => CallSpendsOneTurn
  <2> SUFFICES ASSUME Core PROVE CallSpendsOneTurn
    OBVIOUS
  <2>1. TypeOK /\ TurnCount /\ PaidFor
    BY DEF Core, Counters
  <2>2. w.pc # "idle" => turn_number \in {w.start, w.start + 1}
    BY <2>1 DEF TypeOK, Steps, TurnCount, Uncharged, Open, Charged
  <2>3. turn_number \in Nat /\ w.start \in Nat
    BY <2>1 DEF TypeOK
  <2> QED
    BY <2>1, <2>2, <2>3 DEF CallSpendsOneTurn, PaidFor
<1> QED
  BY <1>1, CoreInvariance, PTL

\* Only the counting of a rotation raises the count, and it has passed the
\* floor.
LEMMA StepSpaced ==
    ASSUME Core, [Next]_vars, rotations > 0, rotations' > rotations
    PROVE  marked' - marked >= MinTurns
<1>1. /\ rotations \in Nat /\ MinTurns \in Nat /\ turn_number \in Nat /\ marked \in Nat
  BY TurnAssumption DEF Core, TypeOK
<1>2. CASE CountRotation
  <2>1. marked' = turn_number
    BY <1>1, <1>2 DEF CountRotation, Conflict, record
  <2>2. turn_number - marked >= MinTurns
    BY <1>1, <1>2 DEF CountRotation, Core, Counters, RotationDue
  <2> QED
    BY <2>1, <2>2
<1>3. CASE MaybeRotateTurnHistory
  <2>1. rotations' = rotations \/ rotations' = 0
    BY <1>3 DEF MaybeRotateTurnHistory, Conflict, record
  <2> QED
    BY <1>1, <2>1
<1>4. CASE Unpause
  <2>1. rotations' = 0
    BY <1>4 DEF Unpause
  <2> QED
    BY <1>1, <2>1
<1>5. CASE ~(CountRotation \/ MaybeRotateTurnHistory \/ Unpause)
  <2>1. UNCHANGED rotations
    BY <1>5 DEF Next, Worker, Sweep, Environment, vars, record, Conflict, CheckTurnBudget,
       RotateAgentSession, EscalateChurn, EnsureSession, ChargeTurn, SaveRunningTurn,
       Guard, RunModel, SaveCompletedTurn, FinishTurn, ReturnTurn, FailTurn,
       RepairDependencies, RollbackTurnNumber, DecideRetry, RetryTurn, CallerHandles,
       RecoverBoot, RecoverDies, RecoverScan, RecoverList, RecoverMark, RecoverRotate,
       RecoverEnter, EnterFromGate, PauseRun, PauseCommits, ResumeRun, CancelRun, Crash
  <2> QED
    BY <1>1, <2>1
<1> QED
  BY <1>2, <1>3, <1>4, <1>5

\* Of two rotations for size in a row the second comes at least the floor
\* after the first although turn numbers are taken back, whether or not there
\* is a churn limit (_maybe_rotate_turn_history).
THEOREM RotationsKeepTheirDistance == Spec => RotationsAreSpaced
<1>1. Core /\ [Next]_vars =>
         [rotations > 0 /\ rotations' > rotations => marked' - marked >= MinTurns]_vars
  BY StepSpaced
<1> QED
  BY <1>1, CoreInvariance, PTL DEF Spec, RotationsAreSpaced

----------------------------------------------------------------------------
(* The budget is a ledger.                                                 *)

\* What a step may do to the ledger: nothing but giving the open turn up, or
\* one of its three bookings.
Booking ==
    \/ UNCHANGED <<turn_number, completed>> /\ (Open' => Open)
    \/ /\ ~Open /\ Open' /\ turn_number < MaxTurns
       /\ turn_number' = turn_number + 1 /\ UNCHANGED completed
    \/ Open /\ ~Open' /\ completed' = completed + 1 /\ UNCHANGED turn_number
    \/ Open /\ ~Open' /\ turn_number' = turn_number - 1 /\ UNCHANGED completed

\* A call that raises, ends or starts has no turn open.
LEMMA RaiseCloses ==
    ASSUME Raise \/ w' = Idle \/ (\E d \in Drivers : w' = NewCall(d))
    PROVE  ~Open'
<1>1. CASE Raise
  BY <1>1 DEF Raise, Idle, Open, Charged
<1>2. CASE w' = Idle
  BY <1>2 DEF Idle, Open, Charged
<1>3. CASE \E d \in Drivers : w' = NewCall(d)
  BY <1>3 DEF NewCall, Idle, Open, Charged
<1> QED
  BY <1>1, <1>2, <1>3

\* Every step of the lock holder is a step of the ledger or none.
LEMMA WorkerBooks ==
    ASSUME Core, Worker
    PROVE  Booking
<1>1. TypeOK /\ Counters
  BY DEF Core
<1>2. w \in Call
  BY <1>1, CallFacts
<1> USE <1>1, <1>2, RaiseCloses DEF Booking, history, record, Go, Conflict
<1>3. CASE CheckTurnBudget
  BY <1>3 DEF CheckTurnBudget, Open, Charged, Call
<1>4. CASE MaybeRotateTurnHistory
  BY <1>4 DEF MaybeRotateTurnHistory, Open, Charged, Call
<1>5. CASE RotateAgentSession
  <2>1. CASE Raise
    BY <1>5, <2>1 DEF RotateAgentSession
  <2>2. CASE w.why = "failure"
    BY <1>5, <2>2 DEF RotateAgentSession, Open
  <2>3. CASE w.why # "failure" /\ ~Raise
    <3>1. w'.pc \in {"count", "escalate", "unpause"}
      BY <1>5, <2>3 DEF RotateAgentSession, Call, Reasons, Counters, TurnCount
    <3> QED
      BY <1>5, <3>1 DEF RotateAgentSession, Open, Charged
  <2> QED
    BY <2>1, <2>2, <2>3
<1>6. CASE CountRotation
  BY <1>6 DEF CountRotation, Open, Charged, Call
<1>7. CASE EscalateChurn
  BY <1>7 DEF EscalateChurn
<1>8. CASE EnsureSession
  BY <1>8 DEF EnsureSession, Open, Charged, Call
<1>9. CASE ChargeTurn
  BY <1>9 DEF ChargeTurn, Open, Charged, Call, Counters, TurnCount, Admitted
<1>10. CASE SaveRunningTurn
  BY <1>10 DEF SaveRunningTurn, Open, Charged
<1>11. CASE Guard
  BY <1>11 DEF Guard, Open, Charged
<1>12. CASE RunModel
  BY <1>12 DEF RunModel, Open, Charged
<1>13. CASE SaveCompletedTurn
  BY <1>13 DEF SaveCompletedTurn, Open, Charged, Call
<1>14. CASE FinishTurn
  BY <1>14 DEF FinishTurn, Open, Charged, Call
<1>15. CASE ReturnTurn
  BY <1>15 DEF ReturnTurn, Call
<1>16. CASE FailTurn
  BY <1>16 DEF FailTurn, Open, Charged
<1>17. CASE RepairDependencies
  BY <1>17 DEF RepairDependencies, Open, Charged
<1>18. CASE RollbackTurnNumber
  BY <1>18 DEF RollbackTurnNumber, Open, Charged
<1>19. CASE DecideRetry
  BY <1>19 DEF DecideRetry, Open, Charged
<1>20. CASE RetryTurn
  BY <1>20 DEF RetryTurn, Open, Charged, Call
<1>21. CASE CallerHandles
  BY <1>21 DEF CallerHandles
<1>22. CASE Unpause
  BY <1>22 DEF Unpause, Drivers
<1> QED
  BY <1>3, <1>4, <1>5, <1>6, <1>7, <1>8, <1>9, <1>10, <1>11, <1>12, <1>13, <1>14, <1>15,
     <1>16, <1>17, <1>18, <1>19, <1>20, <1>21, <1>22
  DEF Worker

\* Nobody else moves the ledger.
LEMMA OthersBook ==
    ASSUME Core, Sweep \/ RecoverEnter \/ Environment \/ UNCHANGED vars
    PROVE  Booking
<1>1. TypeOK /\ Counters
  BY DEF Core
<1>2. w \in Call
  BY <1>1, CallFacts
<1> USE <1>1, <1>2, RaiseCloses DEF Booking, history, record, Open, Call
<1>3. CASE Sweep
  BY <1>3 DEF Sweep, RecoverBoot, RecoverDies, RecoverScan, RecoverList, RecoverMark, RecoverRotate
<1>4. CASE RecoverEnter
  BY <1>4 DEF RecoverEnter, Drivers
<1>5. CASE EnterFromGate
  BY <1>5 DEF EnterFromGate, Drivers
<1>6. CASE PauseRun \/ PauseCommits
  BY <1>6 DEF PauseRun, PauseCommits
<1>7. CASE ResumeRun
  <2>1. w'.pc = "unpause" \/ (w'.pc = "rotate" /\ w'.why = "resume")
    BY <1>7 DEF ResumeRun, Idle
  <2> QED
    BY <1>7, <2>1 DEF ResumeRun, Charged
<1>8. CASE CancelRun
  BY <1>8 DEF CancelRun
<1>9. CASE Crash
  BY <1>9 DEF Crash
<1>10. CASE UNCHANGED vars
  BY <1>10 DEF vars, threads
<1> QED
  BY <1>3, <1>4, <1>5, <1>6, <1>7, <1>8, <1>9, <1>10 DEF Environment

\* _run_agent_turn with everything around it implements the ledger of turns:
\* a charge is booked once, completed, taken back or lost, and nothing else
\* ever moves the turn count.
THEOREM TurnsAreALedger == Spec => BudgetIsALedger
<1>1. Init => Ledger!LedgerInit
  <2> SUFFICES ASSUME Init PROVE Ledger!LedgerInit
    OBVIOUS
  <2>1. ~Open
    BY DEF Init, NewCall, Idle, Open, Charged
  <2> QED
    BY <2>1 DEF Init, Ledger!LedgerInit
<1>2. Core /\ [Next]_vars => [Ledger!LedgerNext]_(Ledger!ledger)
  <2> SUFFICES ASSUME Core, [Next]_vars PROVE [Ledger!LedgerNext]_(Ledger!ledger)
    OBVIOUS
  <2>1. Booking
    BY WorkerBooks, OthersBook DEF Next
  <2>2. Open \in BOOLEAN /\ Open' \in BOOLEAN
    BY DEF Open
  <2>3. CASE UNCHANGED <<turn_number, completed>> /\ (Open' => Open)
    <3>1. CASE Open /\ ~Open'
      BY <2>3, <3>1 DEF Ledger!LedgerNext, Ledger!Lose
    <3>2. CASE Open' = Open
      BY <2>3, <3>2 DEF Ledger!ledger
    <3> QED
      BY <2>2, <2>3, <3>1, <3>2
  <2>4. CASE /\ ~Open /\ Open' /\ turn_number < MaxTurns
             /\ turn_number' = turn_number + 1 /\ UNCHANGED completed
    BY <2>2, <2>4 DEF Ledger!LedgerNext, Ledger!Spend
  <2>5. CASE Open /\ ~Open' /\ completed' = completed + 1 /\ UNCHANGED turn_number
    BY <2>2, <2>5 DEF Ledger!LedgerNext, Ledger!Complete
  <2>6. CASE Open /\ ~Open' /\ turn_number' = turn_number - 1 /\ UNCHANGED completed
    BY <2>2, <2>6 DEF Ledger!LedgerNext, Ledger!Refund
  <2> QED
    BY <2>1, <2>3, <2>4, <2>5, <2>6 DEF Booking
<1> QED
  BY <1>1, <1>2, CoreInvariance, PTL DEF Spec, BudgetIsALedger, Ledger!LedgerSpec

----------------------------------------------------------------------------
(* Layer 2: the turns table.                                               *)

\* The worker's row is the newest and not completed, not even by a sweep.
MyRow ==
    w.pc \in Attempt =>
       /\ w.row = Len(rows) /\ w.row \in DOMAIN rows
       /\ rows[w.row].status # "completed"
       /\ rows[w.row].agent = agent /\ rows[w.row].session = w.sid

\* RunningTurnsAreOwned, with the step of the sweep.
Owned ==
    /\ \/ state \in Over
       \/ Running \ r.left \subseteq Mine \cup r.listed
       \/ r.pc \in {"boot", "scan", "list"}
    /\ (r.pc = "mark") <=> (r.listed # {})
    /\ r.pc # "off" => r.left = {}
    /\ state \in Over => w.pc \in {"idle", "raise"}

\* Unless a call overtook the sweep nobody works while it is under way, so
\* what it has listed is not completed behind its back.
Kept ==
    ~r.overtaken =>
       /\ Sweeping => w.pc = "idle"
       /\ \A i \in r.listed : rows[i].status # "completed"

\* Then, and if no sweep died, it finds at most the turn that the crash
\* interrupted, the newest.
Quiet ==
    ~exposed =>
       /\ Sweeping => w.pc = "idle"
       /\ Running \subseteq {Len(rows)}
       /\ r.pc \in {"list", "mark"} => r.seen = Running
       /\ r.pc = "mark" => r.listed = Running
       /\ r.pc = "rotate" => r.seen = {Len(rows)}
       /\ r.left = {}

Tables == MyRow /\ Owned /\ Kept /\ Quiet

\* A step that leaves the table, the sweep and the worker's row alone.
LEMMA TableFrame ==
    ASSUME Tables, UNCHANGED rows,
           r'.pc = r.pc, r'.seen = r.seen, r'.listed = r.listed, r'.left = r.left,
           Sweeping /\ r.overtaken => r'.overtaken,
           exposed => exposed',
           (w'.pc \in Attempt) <=> (w.pc \in Attempt),
           w.pc \in Attempt => w'.row = w.row /\ w'.sid = w.sid /\ agent' = agent,
           ~exposed' /\ Sweeping => w'.pc = "idle",
           ~r'.overtaken /\ Sweeping => w'.pc = "idle",
           state \in Over => state' \in Over,
           state' \in Over => w'.pc \in {"idle", "raise"}
    PROVE  Tables'
<1>1. UNCHANGED <<Running, Mine, Sweeping>>
  BY DEF Running, Mine, Sweeping
<1>2. MyRow'
  BY DEF Tables, MyRow
<1>3. Owned'
  BY <1>1 DEF Tables, Owned
<1>4. Quiet'
  BY <1>1 DEF Tables, Quiet
<1>5. Kept'
  <2>1. r.listed # {} => Sweeping
    BY DEF Tables, Owned, Sweeping
  <2> QED
    BY <1>1, <2>1 DEF Tables, Kept
<1> QED
  BY <1>2, <1>3, <1>4, <1>5 DEF Tables

\* The same for a step of the worker: it is not idle, so no sweep is under
\* way, or it has been overtaken.
LEMMA WorkerFrame ==
    ASSUME Tables, UNCHANGED <<rows, exposed>>, w.pc # "idle",
           TypeOK, r' = r \/ Bump,
           (w'.pc \in Attempt) <=> (w.pc \in Attempt),
           w.pc \in Attempt => w'.row = w.row /\ w'.sid = w.sid /\ agent' = agent,
           state \in Over => state' \in Over,
           w.pc = "raise" => w'.pc = "idle",
           state' \in Over => state \in Over \/ w'.pc = "raise"
    PROVE  Tables'
<1>1. /\ r'.pc = r.pc /\ r'.seen = r.seen /\ r'.listed = r.listed /\ r'.left = r.left
      /\ r'.overtaken = r.overtaken
  BY BumpFacts
<1>2. (~exposed' => ~Sweeping) /\ (~r'.overtaken => ~Sweeping)
  BY <1>1 DEF Tables, Quiet, Kept
<1>3. state' \in Over => w'.pc \in {"idle", "raise"}
  BY DEF Tables, Owned
<1> QED
  BY <1>1, <1>2, <1>3, TableFrame

\* Steps that save no turn leave the table and its owners alone.
LEMMA TablesWorker ==
    ASSUME Core, Tables, Worker,
           ~(SaveRunningTurn \/ SaveCompletedTurn \/ FailTurn)
    PROVE  Tables'
<1>1. TypeOK /\ Counters
  BY DEF Core
<1>2. w \in Call
  BY <1>1, CallFacts
<1>3. ASSUME Raise PROVE w'.pc = "raise"
  BY <1>3 DEF Raise, Idle
<1>4. ASSUME w' = Idle PROVE w'.pc = "idle"
  BY <1>4 DEF Idle
<1>5. ASSUME NEW d, w' = NewCall(d) PROVE w'.pc = "begin"
  BY <1>5 DEF NewCall, Idle
<1> USE <1>1, <1>2, WorkerFrame DEF history, bounds, record, Attempt
<1>6. CASE CheckTurnBudget
  <2>1. w'.pc \in {"raise", "history"} /\ w.pc = "begin"
    BY <1>3, <1>6 DEF CheckTurnBudget, Call
  <2>2. state' = state \/ (state = "WORKING" /\ w'.pc = "raise")
    BY <1>3, <1>6 DEF CheckTurnBudget
  <2> QED
    BY <1>6, <2>1, <2>2 DEF CheckTurnBudget, Over
<1>7. CASE MaybeRotateTurnHistory
  <2>1. w'.pc \in {"raise", "session", "rotate"} /\ w.pc = "history"
    BY <1>3, <1>7 DEF MaybeRotateTurnHistory, Call, Go, Conflict
  <2> QED
    BY <1>7, <2>1 DEF MaybeRotateTurnHistory, Conflict
<1>8. CASE RotateAgentSession
  <2>1. w'.pc \in {"raise", "decide", "count", "escalate", "unpause"} /\ w.pc = "rotate"
    BY <1>3, <1>8 DEF RotateAgentSession, Call, Conflict, Counters, TurnCount, Reasons
  <2> QED
    BY <1>8, <2>1 DEF RotateAgentSession, Conflict
<1>9. CASE CountRotation
  <2>1. w'.pc \in {"raise", "session"} /\ w.pc = "count"
    BY <1>3, <1>9 DEF CountRotation, Call, Go, Conflict
  <2> QED
    BY <1>9, <2>1 DEF CountRotation, Conflict
<1>10. CASE EscalateChurn
  BY <1>3, <1>10 DEF EscalateChurn, Over
<1>11. CASE EnsureSession
  <2>1. w'.pc \in {"raise", "charge"} /\ w.pc = "session"
    BY <1>3, <1>11 DEF EnsureSession, Call
  <2> QED
    BY <1>11, <2>1 DEF EnsureSession
<1>12. CASE ChargeTurn
  <2>1. w'.pc \in {"raise", "row"} /\ w.pc = "charge"
    BY <1>3, <1>12 DEF ChargeTurn, Call, Go, Conflict
  <2> QED
    BY <1>12, <2>1 DEF ChargeTurn, Conflict
<1>13. CASE Guard
  <2>1. w'.pc \in {"model", "fail"} /\ w.pc = "guard" /\ w'.row = w.row /\ w'.sid = w.sid
    BY <1>13 DEF Guard, Go, Call
  <2> QED
    BY <1>13, <2>1 DEF Guard
<1>14. CASE RunModel
  <2>1. w'.pc \in {"save", "model", "fail"} /\ w.pc = "model" /\ w'.row = w.row /\ w'.sid = w.sid
    BY <1>14 DEF RunModel, Call
  <2> QED
    BY <1>14, <2>1 DEF RunModel
<1>15. CASE FinishTurn
  <2>1. w'.pc \in {"raise", "return"} /\ w.pc = "finish"
    BY <1>3, <1>15 DEF FinishTurn, Call, Go, Conflict
  <2> QED
    BY <1>15, <2>1 DEF FinishTurn, Conflict
<1>16. CASE ReturnTurn
  <2>1. w'.pc \in {"raise", "idle", "begin"} /\ w.pc = "return"
    BY <1>3, <1>4, <1>5, <1>16 DEF ReturnTurn
  <2> QED
    BY <1>16, <2>1 DEF ReturnTurn, Stopped, Over
<1>17. CASE RepairDependencies
  <2>1. w'.pc \in {"retry", "rollback"} /\ w.pc = "repair"
    BY <1>17 DEF RepairDependencies, Go, Call
  <2> QED
    BY <1>17, <2>1 DEF RepairDependencies
<1>18. CASE RollbackTurnNumber
  <2>1. w'.pc = "raise" /\ w.pc = "rollback"
    BY <1>3, <1>18 DEF RollbackTurnNumber, Conflict
  <2> QED
    BY <1>18, <2>1 DEF RollbackTurnNumber, Conflict
<1>19. CASE DecideRetry
  <2>1. w'.pc \in {"retry", "raise"} /\ w.pc = "decide"
    BY <1>3, <1>19 DEF DecideRetry, Call
  <2> QED
    BY <1>19, <2>1 DEF DecideRetry
<1>20. CASE RetryTurn
  <2>1. w'.pc \in {"begin", "raise"} /\ w.pc = "retry"
    BY <1>3, <1>20 DEF RetryTurn, Conflict, Call
  <2> QED
    BY <1>20, <2>1 DEF RetryTurn, Conflict
<1>21. CASE CallerHandles
  BY <1>4, <1>21 DEF CallerHandles, Over
<1>22. CASE Unpause
  <2>1. w'.pc \in {"begin", "idle"} /\ w.pc = "unpause"
    BY <1>4, <1>5, <1>22 DEF Unpause
  <2> QED
    BY <1>22, <2>1 DEF Unpause, Counters, Resumable, Phase, Over, Working
<1> QED
  BY <1>6, <1>7, <1>8, <1>9, <1>10, <1>11, <1>12, <1>13, <1>14, <1>15,
     <1>16, <1>17, <1>18, <1>19, <1>20, <1>21, <1>22
  DEF Worker

\* A new running row is the worker's own.
LEMMA TablesSaveRunning ==
    ASSUME Core, Tables, SaveRunningTurn
    PROVE  Tables'
<1>1. TypeOK /\ w.pc = "row"
  BY DEF Core, SaveRunningTurn
<1>2. UNCHANGED <<state, agent, r, exposed>>
  BY DEF SaveRunningTurn, record, history
<1> DEFINE new == [agent |-> agent, session |-> w.sid, status |-> "running",
                   error |-> "none"]
<1>3. new \in Row
  BY <1>1 DEF TypeOK, Row
<1>4. rows' = Append(rows, new) /\ w' = [w EXCEPT !.pc = "guard", !.raced = FALSE, !.row = Len(rows) + 1]
  BY DEF SaveRunningTurn
<1>5. new.agent = agent /\ new.session = w.sid /\ new.status = "running"
  OBVIOUS
<1> HIDE DEF new
<1>6. /\ Len(rows') = Len(rows) + 1 /\ Len(rows) \in Nat
      /\ DOMAIN rows' = DOMAIN rows \cup {Len(rows) + 1}
      /\ rows'[Len(rows) + 1] = new
      /\ \A i \in DOMAIN rows : rows'[i] = rows[i] /\ i <= Len(rows)
  BY <1>1, <1>3, <1>4, RowAdded
<1>7. w'.pc = "guard" /\ w'.row = Len(rows') /\ w'.sid = w.sid
  BY <1>1, <1>4, <1>6, CallFacts DEF Call
<1>8. Running' = Running \cup {Len(rows')}
  BY <1>5, <1>6 DEF Running
<1>9. MyRow'
  BY <1>2, <1>5, <1>6, <1>7 DEF MyRow
<1>10. /\ Mine = {} /\ Mine' = {Len(rows')}
  BY <1>1, <1>7 DEF Mine, Attempt
<1>11. Owned'
  BY <1>1, <1>2, <1>8, <1>10 DEF Tables, Owned
<1>12. Quiet'
  <2> SUFFICES ASSUME ~exposed PROVE Quiet'
    BY <1>2 DEF Quiet
  <2>1. ~Sweeping /\ ~Sweeping'
    BY <1>1, <1>2 DEF Tables, Quiet, Sweeping
  <2>2. Running = {}
    BY <1>1, <1>10, <2>1 DEF Tables, Owned, Quiet, Sweeping
  <2> QED
    BY <1>2, <1>8, <2>1, <2>2 DEF Tables, Quiet, Sweeping
<1>13. Kept'
  <2>1. r.overtaken \/ (~Sweeping /\ r.listed = {})
    BY <1>1 DEF Tables, Owned, Kept, Sweeping
  <2> QED
    BY <1>2, <2>1 DEF Tables, Kept, Sweeping
<1> QED
  BY <1>9, <1>11, <1>12, <1>13 DEF Tables

\* What a rewritten row means for the set of running turns.
LEMMA Rewriting ==
    ASSUME TypeOK, NEW i \in DOMAIN rows, NEW e, rows' = [rows EXCEPT ![i] = e],
           e.status # "running"
    PROVE  /\ Running' = Running \ {i}
           /\ DOMAIN rows' = DOMAIN rows /\ rows'[i] = e
           /\ \A j \in DOMAIN rows : j # i => rows'[j] = rows[j]
<1>1. rows \in Seq(Row) /\ DOMAIN rows = 1..Len(rows)
  BY DEF TypeOK
<1>2. /\ DOMAIN rows' = DOMAIN rows /\ rows'[i] = e
      /\ \A j \in DOMAIN rows : j # i => rows'[j] = rows[j]
  BY <1>1
<1> QED
  BY <1>2 DEF Running

\* A worker with a turn in its hands has overtaken the sweep, or there is none.
LEMMA NobodySweeps ==
    ASSUME Tables, w.pc # "idle", w'.pc # "idle", UNCHANGED r
    PROVE  Kept'
<1>1. r.overtaken \/ (~Sweeping /\ r.listed = {})
  BY DEF Tables, Owned, Kept, Sweeping
<1> QED
  BY <1>1 DEF Kept, Sweeping

\* The worker completes its own row.
LEMMA TablesSaveCompleted ==
    ASSUME Core, Tables, SaveCompletedTurn
    PROVE  Tables'
<1>1. TypeOK /\ w.pc = "save"
  BY DEF Core, SaveCompletedTurn
<1>2. UNCHANGED <<state, agent, r, exposed>> /\ w'.pc = "finish"
  BY <1>1, CallFacts DEF SaveCompletedTurn, record, Go, Call
<1>3. /\ w.row = Len(rows) /\ w.row \in DOMAIN rows /\ rows[w.row].status # "completed"
  BY <1>1 DEF Tables, MyRow, Attempt
<1> DEFINE e == [rows[w.row] EXCEPT !.status = "completed"]
<1>4. rows' = [rows EXCEPT ![w.row] = e]
  BY DEF SaveCompletedTurn
<1>5. e.status = "completed" /\ e \in Row
  <2>1. rows[w.row] \in Row
    BY <1>1, <1>3 DEF TypeOK
  <2> QED
    BY <2>1 DEF Row
<1> HIDE DEF e
<1>6. /\ Running' = Running \ {w.row}
      /\ Len(rows') = Len(rows)
  BY <1>1, <1>3, <1>4, <1>5, Rewriting, RowRewritten
<1>7. MyRow'
  BY <1>2 DEF MyRow, Attempt
<1>8. Owned'
  BY <1>1, <1>2, <1>6 DEF Tables, Owned, Mine, Attempt
<1>9. Kept'
  BY <1>1, <1>2, NobodySweeps
<1>10. Quiet'
  BY <1>1, <1>2, <1>6 DEF Tables, Quiet, Sweeping
<1> QED
  BY <1>7, <1>8, <1>9, <1>10 DEF Tables

\* The worker fails its own row.
LEMMA TablesFail ==
    ASSUME Core, Tables, FailTurn
    PROVE  Tables'
<1>1. TypeOK /\ w.pc = "fail"
  BY DEF Core, FailTurn
<1>2. UNCHANGED <<state, agent, r, exposed>> /\ w'.pc \in {"repair", "rotate"}
  BY <1>1, CallFacts DEF FailTurn, record, history, Call
<1>3. /\ w.row = Len(rows) /\ w.row \in DOMAIN rows /\ rows[w.row].status # "completed"
  BY <1>1 DEF Tables, MyRow, Attempt
<1> DEFINE e == [rows[w.row] EXCEPT !.status = "failed", !.error = w.failure]
<1>4. rows' = [rows EXCEPT ![w.row] = e]
  BY <1>1 DEF FailTurn, TypeOK
<1>5. e.status = "failed" /\ e \in Row
  <2>1. rows[w.row] \in Row /\ w.failure \in Failures \cup {"none"}
    BY <1>1, <1>3 DEF TypeOK
  <2> QED
    BY <2>1 DEF Row
<1> HIDE DEF e
<1>6. /\ Running' = Running \ {w.row}
      /\ Len(rows') = Len(rows)
  BY <1>1, <1>3, <1>4, <1>5, Rewriting, RowRewritten
<1>7. Kept'
  BY <1>1, <1>2, NobodySweeps
<1>8. MyRow'
  BY <1>2 DEF MyRow, Attempt
<1>9. Owned'
  BY <1>1, <1>2, <1>6 DEF Tables, Owned, Mine, Attempt
<1>10. Quiet'
  BY <1>1, <1>2, <1>6 DEF Tables, Quiet, Sweeping
<1> QED
  BY <1>7, <1>8, <1>9, <1>10 DEF Tables

\* Pauses, cancels and crashes leave a running row to the sweep.
LEMMA TablesEnvironment ==
    ASSUME Core, Tables, Environment
    PROVE  Tables'
<1>1. TypeOK /\ Counters
  BY DEF Core
<1>2. w \in Call
  BY <1>1, CallFacts
<1> USE <1>1, <1>2
<1>3. CASE EnterFromGate
  <2>1. w'.pc = "begin" /\ w.pc = "idle"
    BY <1>3 DEF EnterFromGate, NewCall, Idle
  <2>2. UNCHANGED rows /\ exposed' = (exposed \/ Sweeping)
        /\ state' = "WORKING" /\ state = "GATE"
    BY <1>3 DEF EnterFromGate
  <2>3. /\ r'.pc = r.pc /\ r'.seen = r.seen /\ r'.listed = r.listed /\ r'.left = r.left
        /\ r'.overtaken = Sweeping
    BY <1>3 DEF EnterFromGate, TypeOK
  <2> QED
    BY <2>1, <2>2, <2>3, TableFrame DEF Attempt, Over
<1>4. CASE PauseRun
  BY <1>4, TableFrame DEF PauseRun, record, history, Tables, Owned, Quiet, Kept
<1>5. CASE PauseCommits
  <2>1. w'.pc = w.pc /\ w'.row = w.row /\ w'.sid = w.sid /\ UNCHANGED <<rows, agent>>
    BY <1>5 DEF PauseCommits, Call
  <2>2. exposed => exposed'
    BY <1>5 DEF PauseCommits
  <2>3. r' = r \/ Bump
    BY <1>5 DEF PauseCommits
  <2>4. /\ r'.pc = r.pc /\ r'.seen = r.seen /\ r'.listed = r.listed /\ r'.left = r.left
        /\ r'.overtaken = r.overtaken
    BY <2>1, <2>3, BumpFacts
  <2>5. (state \in Over <=> state' \in Over) /\ (state' \in Over => state' = state)
    BY <1>5 DEF PauseCommits, Working, Over
  <2> QED
    BY <2>1, <2>2, <2>4, <2>5, TableFrame DEF Tables, Owned, Quiet, Kept
<1>6. CASE ResumeRun
  <2>1. w'.pc \in {"rotate", "unpause"} /\ w.pc = "idle"
    BY <1>6 DEF ResumeRun, Idle
  <2>2. UNCHANGED <<rows, state>> /\ exposed' = (exposed \/ Sweeping)
        /\ state = "PAUSED"
    BY <1>6 DEF ResumeRun
  <2>3. /\ r'.pc = r.pc /\ r'.seen = r.seen /\ r'.listed = r.listed /\ r'.left = r.left
        /\ r'.overtaken = Sweeping
    BY <1>6 DEF ResumeRun, TypeOK
  <2> QED
    BY <2>1, <2>2, <2>3, TableFrame DEF Attempt, Over
<1>7. CASE CancelRun
  <2>1. UNCHANGED <<rows, w, exposed>> /\ Bump /\ w.pc = "idle" /\ state' \in Over
    BY <1>7 DEF CancelRun, history, Over
  <2>2. /\ r'.pc = r.pc /\ r'.seen = r.seen /\ r'.listed = r.listed /\ r'.left = r.left
        /\ r'.overtaken = r.overtaken
    BY <2>1, BumpFacts
  <2> QED
    BY <2>1, <2>2, TableFrame DEF Attempt
<1>8. CASE Crash
  <2>1. /\ w' = Idle /\ r' = [NoRecovery EXCEPT !.pc = "boot"]
        /\ UNCHANGED <<rows, state>> /\ (exposed => exposed')
    BY <1>8 DEF Crash, record
  <2>2. w'.pc = "idle" /\ r'.pc = "boot" /\ r'.listed = {} /\ r'.left = {}
    BY <2>1 DEF Idle, NoRecovery
  <2>3. Running' = Running
    BY <2>1 DEF Running
  <2> QED
    BY <2>1, <2>2, <2>3 DEF Tables, MyRow, Owned, Quiet, Kept, Attempt
<1> QED
  BY <1>3, <1>4, <1>5, <1>6, <1>7, <1>8 DEF Environment

\* The least element of a singleton.
LEMMA SingleMin ==
    ASSUME NEW n \in Int
    PROVE  Min({n}) = n
BY DEF Min

\* What the sweep has listed covers the rows it has to end.
LEMMA TablesSweepReads ==
    ASSUME Core, Tables, RecoverBoot \/ RecoverScan \/ RecoverList \/ RecoverEnter
    PROVE  Tables'
<1>1. TypeOK /\ UNCHANGED <<rows, state, agent, exposed>>
  BY DEF Core, RecoverBoot, RecoverScan, RecoverList, RecoverEnter, record, history
<1>2. Running' = Running
  BY <1>1 DEF Running
<1>3. r.pc # "mark" /\ r.listed = {}
  BY DEF Tables, Owned, RecoverBoot, RecoverScan, RecoverList, RecoverEnter
<1>4. CASE RecoverBoot
  <2>1. /\ w' = w /\ r.pc = "boot"
        /\ \/ state \in Over /\ r'.pc = "off" /\ r'.listed = {} /\ r'.left = {}
           \/ /\ r'.pc = "scan" /\ r'.listed = {} /\ r'.left = r.left
              /\ r'.overtaken = r.overtaken
    BY <1>1, <1>3, <1>4 DEF RecoverBoot, NoRecovery, TypeOK
  <2> QED
    BY <1>1, <1>2, <2>1 DEF Tables, MyRow, Owned, Quiet, Kept, Sweeping
<1>5. CASE RecoverScan
  <2>1. w' = w /\ r.pc = "scan" /\ r'.pc = "list" /\ r'.listed = {} /\ r'.seen = Running
        /\ r'.left = r.left /\ r'.overtaken = r.overtaken
    BY <1>1, <1>3, <1>5 DEF RecoverScan, TypeOK
  <2> QED
    BY <1>1, <1>2, <2>1 DEF Tables, MyRow, Owned, Quiet, Kept, Sweeping
<1>6. CASE RecoverList
  <2>1. /\ w' = w /\ r.pc = "list"
        /\ \/ Running = {} /\ r'.pc = "lock" /\ r'.listed = {}
           \/ /\ Running # {} /\ r'.pc = "mark" /\ r'.listed = Running /\ r'.seen = r.seen
              /\ r'.overtaken = r.overtaken
        /\ r'.left = r.left \/ r'.left = {}
    BY <1>1, <1>3, <1>6 DEF RecoverList, NoRecovery, TypeOK
  <2> QED
    BY <1>1, <1>2, <2>1 DEF Tables, MyRow, Owned, Quiet, Kept, Sweeping, Mine, Running
<1>7. CASE RecoverEnter
  <2>1. /\ w.pc = "idle" /\ r.pc = "lock" /\ r'.pc = "off" /\ r'.listed = {} /\ r'.left = {}
        /\ w' = w \/ (w'.pc = "begin" /\ state = "WORKING")
    BY <1>7 DEF RecoverEnter, NewCall, Idle, NoRecovery
  <2> QED
    BY <1>1, <1>2, <1>3, <2>1 DEF Tables, MyRow, Owned, Quiet, Kept, Sweeping, Mine, Attempt, Over
<1> QED
  BY <1>4, <1>5, <1>6, <1>7

\* The rows of a sweep that dies before it lists them are left, and known.
LEMMA TablesDies ==
    ASSUME Core, Tables, RecoverDies
    PROVE  Tables'
<1>1. /\ UNCHANGED <<rows, w, state, agent>> /\ r.pc \in {"boot", "scan"}
      /\ exposed' = (exposed \/ Running \ Mine # {})
  BY DEF RecoverDies, record
<1>2. r'.pc = "off" /\ r'.listed = {} /\ r'.left = Running \ Mine
  BY DEF RecoverDies, NoRecovery
<1>3. Running' = Running /\ Mine' = Mine
  BY <1>1 DEF Running, Mine
<1> QED
  BY <1>1, <1>2, <1>3 DEF Tables, MyRow, Owned, Quiet, Kept, Sweeping

\* Marking a row ends one that nobody else is going to end.
LEMMA TablesMark ==
    ASSUME Core, Tables, RecoverMark
    PROVE  Tables'
<1>1. TypeOK /\ UNCHANGED <<state, agent, w, exposed>> /\ r.pc = "mark"
  BY DEF Core, RecoverMark, record, history
<1> DEFINE i == Min(r.listed)
           rest == r.listed \ {i}
           e == [rows[i] EXCEPT !.status = "failed", !.error = "restart"]
<1>2. rows' = [rows EXCEPT ![i] = e]
  BY <1>1 DEF RecoverMark, TypeOK
<1>3. /\ r'.listed = rest /\ r'.seen = r.seen /\ r'.left = r.left
      /\ r'.overtaken = r.overtaken
      /\ rest # {} => r'.pc = "mark"
      /\ rest = {} => r'.pc \in {"rotate", "lock"}
  BY <1>1 DEF RecoverMark, TypeOK
<1>4. rest = r.listed \ {i}
  OBVIOUS
<1>5. i \in DOMAIN rows => /\ e \in Row /\ e.status = "failed"
                           /\ e.agent = rows[i].agent /\ e.session = rows[i].session
  <2>1. i \in DOMAIN rows => rows[i] \in Row
    BY <1>1 DEF TypeOK
  <2> HIDE DEF i
  <2> QED
    BY <2>1 DEF Row
<1>6. ~exposed => /\ r.listed = Running /\ Running = {Len(rows)}
                  /\ i = Len(rows) /\ i \in DOMAIN rows
  <2> SUFFICES ASSUME ~exposed
               PROVE  /\ r.listed = Running /\ Running = {Len(rows)}
                      /\ i = Len(rows) /\ i \in DOMAIN rows
    OBVIOUS
  <2>1. r.listed = Running /\ Running \subseteq {Len(rows)} /\ r.listed # {}
    BY <1>1 DEF Tables, Quiet, Owned
  <2>2. Running = {Len(rows)} /\ Len(rows) \in Int
    BY <1>1, <2>1 DEF TypeOK
  <2>3. Min(r.listed) = Len(rows)
    BY <2>1, <2>2, SingleMin
  <2> QED
    BY <2>1, <2>2, <2>3 DEF Running
<1> HIDE DEF i, rest, e
<1>7. DOMAIN rows' = DOMAIN rows /\ Len(rows') = Len(rows)
  BY <1>1, <1>2, <1>5, RowRewritten
<1>8. /\ Running' = Running \ {i}
      /\ \A j \in DOMAIN rows : /\ rows'[j].agent = rows[j].agent
                                /\ rows'[j].session = rows[j].session
                                /\ rows'[j].status \in {rows[j].status, "failed"}
  <2>1. CASE i \in DOMAIN rows
    BY <1>1, <1>2, <1>5, <2>1, Rewriting
  <2>2. CASE i \notin DOMAIN rows
    <3>1. rows' = rows
      BY <1>1, <1>2, <2>2 DEF TypeOK
    <3> QED
      BY <2>2, <3>1 DEF Running
  <2> QED
    BY <2>1, <2>2
<1>9. MyRow'
  BY <1>1, <1>7, <1>8 DEF Tables, MyRow
<1>10. Owned'
  BY <1>1, <1>3, <1>4, <1>8 DEF Tables, Owned, Mine
<1>11. Quiet'
  <2> SUFFICES ASSUME ~exposed PROVE Quiet'
    BY <1>1 DEF Quiet
  <2>1. Running' = {} /\ rest = {} /\ r.seen = {Len(rows)}
    BY <1>1, <1>4, <1>6, <1>8 DEF Tables, Quiet, Running
  <2> QED
    BY <1>1, <1>3, <1>7, <2>1 DEF Tables, Quiet, Sweeping
<1>12. Kept'
  <2>1. r.listed \subseteq DOMAIN rows
    BY <1>1 DEF TypeOK
  <2> QED
    BY <1>1, <1>3, <1>4, <1>8, <2>1 DEF Tables, Kept, Sweeping
<1> QED
  BY <1>9, <1>10, <1>11, <1>12 DEF Tables

\* The rotation of the sweep leaves the rows alone.
LEMMA TablesRotate ==
    ASSUME Core, Tables, RecoverRotate
    PROVE  Tables'
<1>1. /\ TypeOK /\ UNCHANGED <<state, agent, rows, exposed>> /\ r.pc = "rotate"
  BY DEF Core, RecoverRotate, history
<1>2. w'.pc = w.pc /\ w'.row = w.row /\ w'.sid = w.sid
  BY <1>1, CallFacts DEF RecoverRotate, Call
<1>3. Running' = Running /\ r.listed = {}
  BY <1>1 DEF Running, Tables, Owned
<1>4. /\ r'.listed = {} /\ r'.pc \in {"off", "lock", "rotate"} /\ r'.left = {}
      /\ r'.pc = "rotate" => r'.overtaken = r.overtaken
      /\ ~exposed => r'.pc # "rotate"
  <2>1. CASE r' = NoRecovery
    BY <2>1 DEF NoRecovery
  <2>2. CASE r' # NoRecovery
    <3>1. /\ r'.listed = r.listed /\ r'.left = r.left /\ r'.overtaken = r.overtaken
          /\ r'.pc = IF r.seen \ {Min(r.seen)} = {} THEN "lock" ELSE "rotate"
      BY <1>1, <2>2 DEF RecoverRotate, TypeOK
    <3>2. ~exposed => r.seen = {Len(rows)} /\ Len(rows) \in Int
      BY <1>1 DEF Tables, Quiet, TypeOK
    <3>3. ~exposed => r.seen \ {Min(r.seen)} = {}
      BY <3>2, SingleMin
    <3> QED
      BY <1>1, <1>3, <3>1, <3>3 DEF Tables, Owned
  <2> QED
    BY <2>1, <2>2
<1> QED
  BY <1>1, <1>2, <1>3, <1>4 DEF Tables, MyRow, Owned, Quiet, Kept, Sweeping, Mine

\* Every step keeps the ownership of the rows.
LEMMA StepTables ==
    ASSUME Core, Tables, [Next]_vars
    PROVE  Tables'
<1>1. CASE Worker
  BY <1>1, TablesWorker, TablesSaveRunning, TablesSaveCompleted, TablesFail
<1>2. CASE Sweep \/ RecoverEnter
  BY <1>2, TablesSweepReads, TablesDies, TablesMark, TablesRotate DEF Sweep
<1>3. CASE Environment
  BY <1>3, TablesEnvironment
<1>4. CASE UNCHANGED vars
  BY <1>4 DEF vars, record, threads, history, Tables, MyRow, Owned, Quiet, Kept, Running,
     Mine, Sweeping
<1> QED
  BY <1>1, <1>2, <1>3, <1>4 DEF Next

\* No row, no owner.
LEMMA InitTables ==
    ASSUME Init
    PROVE  Tables
<1>1. /\ rows = << >> /\ w.pc = "begin" /\ r.pc = "off" /\ r.listed = {}
      /\ r.left = {} /\ state = "WORKING"
  BY DEF Init, NewCall, Idle, NoRecovery
<1>2. Running = {}
  BY <1>1 DEF Running
<1> QED
  BY <1>1, <1>2 DEF Tables, MyRow, Owned, Quiet, Kept, Sweeping, Attempt, Over

\* The second layer holds of every reachable state.
LEMMA TablesInvariance == Spec => []Tables
<1>1. Init => Tables
  BY InitTables
<1>2. Core /\ Tables /\ [Next]_vars => Tables'
  BY StepTables
<1> QED
  BY <1>1, <1>2, CoreInvariance, PTL DEF Spec

\* A row that says "running" is the worker's, or the sweep still comes to it:
\* no turn is left running for ever, unless a recovery thread died before it
\* came to the run (_run_agent_turn, recover).
THEOREM NoTurnIsOrphaned == Spec => []RunningTurnsAreOwned
<1>1. Tables => RunningTurnsAreOwned
  BY DEF Tables, Owned, RunningTurnsAreOwned
<1> QED
  BY <1>1, TablesInvariance, PTL

\* Only a sweep that was overtaken rewrites a completed row.
LEMMA StepKept ==
    ASSUME Core, Tables, [Next]_vars, NEW i \in DOMAIN rows,
           rows[i].status = "completed", rows'[i] # rows[i]
    PROVE  r.overtaken
<1>1. TypeOK /\ rows \in Seq(Row)
  BY DEF Core, TypeOK
<1>2. CASE SaveRunningTurn
  <2> DEFINE new == [agent |-> agent, session |-> w.sid, status |-> "running",
                     error |-> "none"]
  <2>1. new \in Row /\ rows' = Append(rows, new)
    BY <1>1, <1>2 DEF SaveRunningTurn, TypeOK, Row
  <2> HIDE DEF new
  <2> QED
    BY <1>1, <2>1, RowAdded
<1>3. CASE SaveCompletedTurn \/ FailTurn
  <2>1. i # w.row
    BY <1>3 DEF Tables, MyRow, Attempt, SaveCompletedTurn, FailTurn
  <2>2. rows'[i] = rows[i]
    BY <1>1, <1>3, <2>1 DEF SaveCompletedTurn, FailTurn
  <2> QED
    BY <2>2
<1>4. CASE RecoverMark
  <2>1. r.listed # {} /\ r.listed \subseteq Nat
    BY <1>1, <1>4 DEF Tables, Owned, RecoverMark, TypeOK
  <2>2. PICK m : m = Min(r.listed)
    OBVIOUS
  <2>3. m \in r.listed
    BY <2>1, <2>2, MinIsMember
  <2>4. rows' = [rows EXCEPT ![m].status = "failed", ![m].error = "restart"]
    BY <1>4, <2>2 DEF RecoverMark
  <2>5. i = m
    BY <1>1, <2>4
  <2> QED
    BY <2>3, <2>5 DEF Tables, Kept
<1>5. CASE ~(SaveRunningTurn \/ SaveCompletedTurn \/ FailTurn \/ RecoverMark)
  <2>1. UNCHANGED rows
    BY <1>5 DEF Next, Worker, Sweep, Environment, vars, CheckTurnBudget,
       MaybeRotateTurnHistory, RotateAgentSession, CountRotation, EscalateChurn,
       EnsureSession, ChargeTurn, Guard, RunModel, FinishTurn, ReturnTurn,
       RepairDependencies, RollbackTurnNumber, DecideRetry, RetryTurn, CallerHandles,
       Unpause, RecoverBoot, RecoverDies, RecoverScan, RecoverList, RecoverRotate,
       RecoverEnter, EnterFromGate, PauseRun, PauseCommits, ResumeRun, CancelRun, Crash
  <2> QED
    BY <2>1
<1> QED
  BY <1>2, <1>3, <1>4, <1>5

\* The row of a completed turn is never rewritten, unless by a sweep that a
\* call has overtaken (_run_agent_turn, mark_running_turns_interrupted).
THEOREM CompletedStaysCompleted == Spec => CompletedTurnsAreKept
<1>1. Core /\ Tables /\ [Next]_vars =>
         [\A i \in DOMAIN rows :
             rows[i].status = "completed" /\ rows'[i] # rows[i] => r.overtaken]_vars
  BY StepKept
<1> QED
  BY <1>1, CoreInvariance, TablesInvariance, PTL DEF Spec, CompletedTurnsAreKept

----------------------------------------------------------------------------
(* Layer 3: the sessions.                                                  *)

\* A session belongs to one agent.
Belongs(s, a) ==
    /\ \A b \in Agents : session[b] = s => b = a
    /\ \A i \in DOMAIN rows : rows[i].session = s => rows[i].agent = a

\* The steps that work in a session.
Booked == {"charge", "row"} \cup Attempt

Sessions ==
    /\ \A i \in DOMAIN rows : rows[i].session \in 1..created
    /\ \A a \in Agents : session[a] # 0 => Belongs(session[a], a)
    /\ w.sid # 0 => Belongs(w.sid, agent)
    /\ w.pc \in Booked => w.sid # 0

\* The rows of the table keep their agents and sessions.
SameRows ==
    /\ DOMAIN rows' = DOMAIN rows
    /\ \A i \in DOMAIN rows : /\ rows'[i].agent = rows[i].agent
                              /\ rows'[i].session = rows[i].session

\* Sessions stay with their agents when the rows keep theirs and none is
\* created.
LEMMA SessionFrame ==
    ASSUME Sessions, SameRows, UNCHANGED created,
           \A a \in Agents : session'[a] \in {0, session[a]},
           w'.sid = 0 \/ (w'.sid = w.sid /\ agent' = agent),
           w'.pc \in Booked => w.pc \in Booked /\ w'.sid = w.sid
    PROVE  Sessions'
BY DEF Sessions, SameRows, Belongs

\* The budget check chooses no session.
LEMMA SessionsCheckTurnBudget ==
    ASSUME Core, Sessions, CheckTurnBudget
    PROVE  Sessions'
<1>1. TypeOK /\ UNCHANGED <<agent, session, rows, created>>
  BY DEF Core, CheckTurnBudget, history
<1>2. CASE Raise
  <2>1. w'.sid = 0 /\ w'.pc = "raise"
    BY <1>2 DEF Raise, Idle
  <2> QED
    BY <1>1, <2>1, SessionFrame DEF SameRows, Booked, Attempt
<1>3. CASE w' = [w EXCEPT !.pc = "history", !.raced = FALSE, !.sid = session[agent]]
  <2>1. w'.sid = session[agent] /\ w'.pc = "history" /\ agent \in Agents
    BY <1>1, <1>3, CallFacts DEF Call, TypeOK
  <2> QED
    BY <1>1, <2>1 DEF Sessions, Belongs, Booked, Attempt
<1> QED
  BY <1>2, <1>3 DEF CheckTurnBudget

\* A session the runtime creates was never used.
LEMMA SessionsEnsureSession ==
    ASSUME Core, Sessions, EnsureSession
    PROVE  Sessions'
<1>1. /\ TypeOK /\ UNCHANGED <<agent, session, rows>> /\ created \in Nat
      /\ session \in [Agents -> 0..created]
  BY DEF Core, EnsureSession, record, TypeOK
<1>2. CASE Raise /\ UNCHANGED created
  <2>1. w'.sid = 0 /\ w'.pc = "raise"
    BY <1>2 DEF Raise, Idle
  <2> QED
    BY <1>1, <1>2, <2>1, SessionFrame DEF SameRows, Booked, Attempt
<1>3. CASE /\ created' = (IF w.sid = 0 THEN created + 1 ELSE created)
           /\ w' = [w EXCEPT !.pc = "charge", !.raced = FALSE,
                            !.sid = IF w.sid = 0 THEN created + 1 ELSE w.sid]
  <2>1. w'.pc = "charge" /\ w'.sid = (IF w.sid = 0 THEN created + 1 ELSE w.sid)
    BY <1>1, <1>3, CallFacts DEF Call
  <2>2. created' = (IF w.sid = 0 THEN created + 1 ELSE created) /\ w.sid \in 0..created
    BY <1>1, <1>3 DEF TypeOK
  <2>3. CASE w.sid # 0
    BY <1>1, <2>1, <2>2, <2>3 DEF Sessions, Belongs
  <2>4. CASE w.sid = 0
    <3>1. w'.sid = created + 1 /\ created' = created + 1
      BY <2>1, <2>2, <2>4
    <3>2. \A b \in Agents : session[b] # created + 1
      BY <1>1
    <3>3. \A i \in DOMAIN rows : rows[i].session # created + 1 /\ rows[i].session \in 1..created'
      BY <1>1, <3>1 DEF Sessions
    <3> QED
      BY <1>1, <2>1, <3>1, <3>2, <3>3 DEF Sessions, Belongs
  <2> QED
    BY <2>3, <2>4
<1> QED
  BY <1>2, <1>3 DEF EnsureSession

\* The charge attaches the session the call has chosen.
LEMMA SessionsChargeTurn ==
    ASSUME Core, Sessions, ChargeTurn
    PROVE  Sessions'
<1>1. /\ TypeOK /\ UNCHANGED <<agent, rows, created>> /\ w.pc = "charge"
      /\ session \in [Agents -> 0..created]
  BY DEF Core, ChargeTurn, record, history, TypeOK, Conflict
<1>2. CASE Conflict
  <2>1. w'.sid = 0 /\ w'.pc = "raise" /\ UNCHANGED session
    BY <1>2 DEF Raise, Idle, Conflict, record
  <2> QED
    BY <1>1, <2>1, SessionFrame DEF SameRows, Booked, Attempt
<1>3. CASE session' = [session EXCEPT ![agent] = w.sid] /\ Go("row")
  <2>1. w'.sid = w.sid /\ w'.pc = "row"
    BY <1>1, <1>3, CallFacts DEF Call, Go
  <2>2. \A a \in Agents : session'[a] = IF a = agent THEN w.sid ELSE session[a]
    BY <1>1, <1>3
  <2> QED
    BY <1>1, <2>1, <2>2 DEF Sessions, Belongs, Booked
<1> QED
  BY <1>2, <1>3 DEF ChargeTurn

\* The running row carries the session that was booked.
LEMMA SessionsSaveRunning ==
    ASSUME Core, Sessions, SaveRunningTurn
    PROVE  Sessions'
<1>1. TypeOK /\ UNCHANGED <<agent, session, created>> /\ w.pc = "row" /\ w.sid \in 0..created
  BY DEF Core, SaveRunningTurn, record, history, TypeOK
<1> DEFINE new == [agent |-> agent, session |-> w.sid, status |-> "running",
                   error |-> "none"]
<1>2. new \in Row /\ new.agent = agent /\ new.session = w.sid
  BY <1>1 DEF TypeOK, Row
<1>3. rows' = Append(rows, new) /\ w'.sid = w.sid
  BY <1>1, CallFacts DEF SaveRunningTurn, Call
<1> HIDE DEF new
<1>4. /\ DOMAIN rows' = DOMAIN rows \cup {Len(rows) + 1}
      /\ rows'[Len(rows) + 1] = new
      /\ \A i \in DOMAIN rows : rows'[i] = rows[i]
  BY <1>1, <1>2, <1>3, RowAdded
<1>5. w.sid # 0 /\ w.sid \in 1..created
  BY <1>1 DEF Sessions, Booked, TypeOK
<1> QED
  BY <1>1, <1>2, <1>3, <1>4, <1>5 DEF Sessions, Belongs

\* Only a new running row changes which session a row is on.
LEMMA SameRowsButRunning ==
    ASSUME Core, Tables, [Next]_vars, ~SaveRunningTurn
    PROVE  SameRows
<1>1. TypeOK
  BY DEF Core
<1>2. CASE SaveCompletedTurn
  <2>1. rows' = [rows EXCEPT ![w.row] = [rows[w.row] EXCEPT !.status = "completed"]]
    BY <1>2 DEF SaveCompletedTurn
  <2>2. w.row \in DOMAIN rows => rows[w.row] \in Row
    BY <1>1 DEF TypeOK
  <2> QED
    BY <1>1, <2>1, <2>2 DEF SameRows, Row, TypeOK
<1>3. CASE FailTurn
  <2>1. rows' = [rows EXCEPT ![w.row] = [rows[w.row] EXCEPT !.status = "failed", !.error = w.failure]]
    BY <1>1, <1>3 DEF FailTurn, TypeOK
  <2>2. w.row \in DOMAIN rows => rows[w.row] \in Row
    BY <1>1 DEF TypeOK
  <2> QED
    BY <1>1, <2>1, <2>2 DEF SameRows, Row, TypeOK
<1>4. CASE RecoverMark
  <2> DEFINE i == Min(r.listed)
  <2>1. rows' = [rows EXCEPT ![i] = [rows[i] EXCEPT !.status = "failed", !.error = "restart"]]
    BY <1>1, <1>4 DEF RecoverMark, TypeOK
  <2>2. i \in DOMAIN rows => rows[i] \in Row
    BY <1>1 DEF TypeOK
  <2> HIDE DEF i
  <2> QED
    BY <1>1, <2>1, <2>2 DEF SameRows, Row, TypeOK
<1>5. CASE UNCHANGED rows
  BY <1>5 DEF SameRows
<1>6. CASE ~(SaveCompletedTurn \/ FailTurn \/ RecoverMark)
  <2>1. UNCHANGED rows
    BY <1>6 DEF Next, Worker, Sweep, Environment, vars, CheckTurnBudget,
       MaybeRotateTurnHistory, RotateAgentSession, CountRotation, EscalateChurn,
       EnsureSession, ChargeTurn, Guard, RunModel, FinishTurn, ReturnTurn,
       RepairDependencies, RollbackTurnNumber, DecideRetry, RetryTurn, CallerHandles,
       Unpause, RecoverBoot, RecoverDies, RecoverScan, RecoverList, RecoverRotate,
       RecoverEnter, EnterFromGate, PauseRun, PauseCommits, ResumeRun, CancelRun, Crash
  <2> QED
    BY <1>5, <2>1
<1> QED
  BY <1>2, <1>3, <1>4, <1>6

\* No other step attaches a session.
LEMMA SessionsOthers ==
    ASSUME Core, Tables, Sessions, [Next]_vars,
           ~(CheckTurnBudget \/ EnsureSession \/ ChargeTurn \/ SaveRunningTurn)
    PROVE  Sessions'
<1>1. TypeOK /\ Counters /\ SameRows
  BY SameRowsButRunning DEF Core
<1>2. w \in Call /\ session \in [Agents -> 0..created]
  BY <1>1, CallFacts DEF TypeOK
<1>3. ASSUME Raise PROVE w'.sid = 0 /\ w'.pc = "raise"
  BY <1>3 DEF Raise, Idle
<1>4. ASSUME w' = Idle PROVE w'.sid = 0 /\ w'.pc = "idle"
  BY <1>4 DEF Idle
<1>5. ASSUME NEW d, w' = NewCall(d) PROVE w'.sid = 0 /\ w'.pc = "begin"
  BY <1>5 DEF NewCall, Idle
<1> USE <1>1, <1>2, SessionFrame DEF history, record, Booked, Attempt
<1>6. CASE MaybeRotateTurnHistory
  <2>1. \/ w'.sid = 0 /\ w'.pc = "raise"
        \/ w'.sid = w.sid /\ w'.pc \in {"session", "rotate"}
    BY <1>3, <1>6 DEF MaybeRotateTurnHistory, Call, Go, Conflict
  <2> QED
    BY <1>6, <2>1 DEF MaybeRotateTurnHistory, Conflict
<1>7. CASE RotateAgentSession
  <2>1. w'.sid = 0 /\ w'.pc \in {"raise", "decide", "count", "escalate", "unpause"}
    BY <1>3, <1>7 DEF RotateAgentSession, Call, Conflict, Counters, TurnCount, Reasons
  <2>2. /\ UNCHANGED created
        /\ session' = [session EXCEPT ![agent] = 0] \/ session' = session
    BY <1>7 DEF RotateAgentSession, Conflict
  <2> QED
    BY <2>1, <2>2
<1>8. CASE CountRotation
  <2>1. \/ w'.sid = 0 /\ w'.pc = "raise"
        \/ w'.sid = w.sid /\ w'.pc = "session"
    BY <1>3, <1>8 DEF CountRotation, Call, Go, Conflict
  <2> QED
    BY <1>8, <2>1 DEF CountRotation, Conflict
<1>9. CASE EscalateChurn
  BY <1>3, <1>9 DEF EscalateChurn
<1>10. CASE Guard
  <2>1. w'.sid = w.sid /\ w.pc = "guard"
    BY <1>10 DEF Guard, Go, Call
  <2> QED
    BY <1>10, <2>1 DEF Guard
<1>11. CASE RunModel
  <2>1. w'.sid = w.sid /\ w.pc = "model"
    BY <1>11 DEF RunModel, Call
  <2> QED
    BY <1>11, <2>1 DEF RunModel
<1>12. CASE SaveCompletedTurn
  <2>1. w'.sid = w.sid /\ w'.pc = "finish"
    BY <1>12 DEF SaveCompletedTurn, Go, Call
  <2> QED
    BY <1>12, <2>1 DEF SaveCompletedTurn
<1>13. CASE FinishTurn
  <2>1. \/ w'.sid = 0 /\ w'.pc = "raise"
        \/ w'.sid = w.sid /\ w'.pc = "return"
    BY <1>3, <1>13 DEF FinishTurn, Call, Go, Conflict
  <2> QED
    BY <1>13, <2>1 DEF FinishTurn, Conflict
<1>14. CASE ReturnTurn
  <2>1. w'.sid = 0 /\ w'.pc \in {"raise", "idle", "begin"}
    BY <1>3, <1>4, <1>5, <1>14 DEF ReturnTurn
  <2> QED
    BY <1>14, <2>1 DEF ReturnTurn
<1>15. CASE FailTurn
  <2>1. w'.sid = w.sid /\ w'.pc \in {"repair", "rotate"}
    BY <1>15 DEF FailTurn, Call
  <2> QED
    BY <1>15, <2>1 DEF FailTurn
<1>16. CASE RepairDependencies
  <2>1. w'.sid = w.sid /\ w'.pc \in {"retry", "rollback"}
    BY <1>16 DEF RepairDependencies, Go, Call
  <2> QED
    BY <1>16, <2>1 DEF RepairDependencies
<1>17. CASE RollbackTurnNumber
  <2>1. w'.sid = 0 /\ w'.pc = "raise"
    BY <1>3, <1>17 DEF RollbackTurnNumber, Conflict
  <2> QED
    BY <1>17, <2>1 DEF RollbackTurnNumber, Conflict
<1>18. CASE DecideRetry
  <2>1. \/ w'.sid = 0 /\ w'.pc = "raise"
        \/ w'.sid = w.sid /\ w'.pc = "retry"
    BY <1>3, <1>18 DEF DecideRetry, Call
  <2> QED
    BY <1>18, <2>1 DEF DecideRetry
<1>19. CASE RetryTurn
  <2>1. w'.sid = 0 /\ w'.pc \in {"begin", "raise"}
    BY <1>3, <1>19 DEF RetryTurn, Conflict, Call
  <2> QED
    BY <1>19, <2>1 DEF RetryTurn, Conflict
<1>20. CASE CallerHandles
  BY <1>4, <1>20 DEF CallerHandles
<1>21. CASE Unpause
  <2>1. w'.sid = 0 /\ w'.pc \in {"begin", "idle"}
    BY <1>4, <1>5, <1>21 DEF Unpause
  <2> QED
    BY <1>21, <2>1 DEF Unpause
<1>22. CASE RecoverBoot \/ RecoverDies \/ RecoverScan \/ RecoverList \/ RecoverMark
  BY <1>22 DEF RecoverBoot, RecoverDies, RecoverScan, RecoverList, RecoverMark
<1>23. CASE RecoverRotate
  <2>1. w'.sid = w.sid /\ w'.pc = w.pc /\ UNCHANGED <<agent, created>>
    BY <1>23 DEF RecoverRotate, Call
  <2>2. \/ session' = session
        \/ session' = [session EXCEPT ![rows[Min(r.seen)].agent] = 0]
    BY <1>23 DEF RecoverRotate
  <2>3. \A a \in Agents : session'[a] \in {0, session[a]}
    BY <2>2
  <2> QED
    BY <2>1, <2>3
<1>24. CASE RecoverEnter
  <2>1. w' = w \/ (w'.sid = 0 /\ w'.pc = "begin")
    BY <1>5, <1>24 DEF RecoverEnter
  <2> QED
    BY <1>24, <2>1 DEF RecoverEnter
<1>25. CASE EnterFromGate
  <2>1. w'.sid = 0 /\ w'.pc = "begin"
    BY <1>5, <1>25 DEF EnterFromGate
  <2> QED
    BY <1>25, <2>1 DEF EnterFromGate
<1>26. CASE PauseRun \/ PauseCommits
  <2>1. w'.sid = w.sid /\ w'.pc = w.pc
    BY <1>26 DEF PauseRun, PauseCommits, Call
  <2> QED
    BY <1>26, <2>1 DEF PauseRun, PauseCommits
<1>27. CASE ResumeRun
  <2>1. w'.sid = 0 /\ w'.pc \in {"rotate", "unpause"}
    BY <1>27 DEF ResumeRun, Idle
  <2> QED
    BY <1>27, <2>1 DEF ResumeRun
<1>28. CASE CancelRun
  BY <1>28 DEF CancelRun
<1>29. CASE Crash
  BY <1>4, <1>29 DEF Crash
<1>30. CASE UNCHANGED vars
  BY <1>30 DEF vars, threads
<1> QED
  BY <1>6, <1>7, <1>8, <1>9, <1>10, <1>11, <1>12, <1>13, <1>14, <1>15, <1>16, <1>17,
     <1>18, <1>19, <1>20, <1>21, <1>22, <1>23, <1>24, <1>25, <1>26, <1>27, <1>28, <1>29,
     <1>30
  DEF Next, Worker, Sweep, Environment

\* Every step leaves a session to one agent.
LEMMA StepSessions ==
    ASSUME Core, Tables, Sessions, [Next]_vars
    PROVE  Sessions'
BY SessionsOthers, SessionsCheckTurnBudget, SessionsEnsureSession, SessionsChargeTurn,
   SessionsSaveRunning

\* A run at a gate has no worker and no turn to end, a pause during a turn
\* goes back to the turn, and so does the resume that clears a session.
Phases ==
    /\ r.raced => r.pc = "rotate"
    /\ state = "GATE" => w.pc = "idle"
    /\ ~exposed /\ state = "PAUSED" /\ w.pc \notin {"idle", "unpause"} => resume.state = "WORKING"
    /\ ~exposed /\ (Running # {} \/ r.pc = "rotate") =>
          /\ state # "GATE"
          /\ state = "PAUSED" => resume.state = "WORKING"
          /\ rows[Len(rows)].agent = agent
    /\ w.pc = "rotate" /\ w.why = "resume" => resume.state = "WORKING"
    /\ ~exposed /\ state = "PAUSED" /\ resume.state = "WORKING" => resume.agent = agent

\* A worker outside an attempt has no running turn, and nobody sweeps.
LEMMA NothingRuns ==
    ASSUME Tables, ~exposed, w.pc \notin Attempt, state \notin Over, ~Sweeping
    PROVE  Running = {} /\ r.pc # "rotate" /\ r.listed = {}
BY DEF Tables, Owned, Quiet, Mine, Sweeping

\* What a step may do without disturbing whose phase it is.
LEMMA PhaseFrame ==
    ASSUME Phases, Running' \subseteq Running, exposed => exposed', UNCHANGED agent,
           Running # {} \/ r.pc = "rotate" => rows'[Len(rows')].agent = rows[Len(rows)].agent,
           r'.pc = "rotate" => r.pc = "rotate", r'.raced => r'.pc = "rotate",
           \/ UNCHANGED <<state, resume>>
           \/ state' \in Over
           \/ state' = "PAUSED" /\ resume' = [state |-> "WORKING", agent |-> agent],
           state' = "GATE" => w'.pc = "idle",
           state' = "PAUSED" /\ w'.pc \notin {"idle", "unpause"} =>
              \/ resume'.state = "WORKING"
              \/ w.pc \notin {"idle", "unpause"} /\ UNCHANGED <<state, resume>>,
           w'.pc = "rotate" /\ w'.why = "resume" =>
              \/ resume'.state = "WORKING"
              \/ w.pc = "rotate" /\ w.why = "resume" /\ resume' = resume
    PROVE  Phases'
<1>1. state' \in Over => state' # "GATE" /\ state' # "PAUSED"
  BY DEF Over
<1> QED
  BY <1>1 DEF Phases

\* The same for a step of the worker that writes no row and not the agent.
LEMMA PhaseWorker ==
    ASSUME Core, Phases, w.pc \notin {"idle", "unpause"}, r' = r \/ Bump,
           UNCHANGED <<rows, exposed, agent>>,
           \/ UNCHANGED <<state, resume>>
           \/ state' \in Over
           \/ state' = "PAUSED" /\ resume' = [state |-> "WORKING", agent |-> agent],
           w'.pc # "rotate" \/ w'.why # "resume" \/ UNCHANGED <<w, state, resume>>
    PROVE  Phases'
<1>1. TypeOK /\ Running' = Running
  BY DEF Core, Running
<1>2. r'.pc = r.pc /\ (r'.raced => r'.pc = "rotate")
  BY <1>1 DEF Bump, TypeOK, Phases
<1>3. state' = "GATE" => w'.pc = "idle"
  BY DEF Phases, Over
<1>4. state' = "PAUSED" /\ w'.pc \notin {"idle", "unpause"} =>
              \/ resume'.state = "WORKING"
              \/ w.pc \notin {"idle", "unpause"} /\ UNCHANGED <<state, resume>>
  BY DEF Over
<1> QED
  BY <1>1, <1>2, <1>3, <1>4, PhaseFrame

\* Steps between two saves keep the phase.
LEMMA PhasesWorker ==
    ASSUME Core, Tables, Phases, Worker,
           ~(SaveRunningTurn \/ SaveCompletedTurn \/ FailTurn \/ ReturnTurn \/ Unpause)
    PROVE  Phases'
<1>1. TypeOK /\ Counters
  BY DEF Core
<1>2. w \in Call
  BY <1>1, CallFacts
<1>3. ASSUME Raise PROVE w'.pc = "raise"
  BY <1>3 DEF Raise, Idle
<1>4. ASSUME w' = Idle PROVE w'.pc = "idle"
  BY <1>4 DEF Idle
<1> USE <1>1, <1>2, PhaseWorker DEF history, record
<1>6. CASE CheckTurnBudget
  <2>1. w'.pc \in {"raise", "history"} /\ w.pc = "begin"
    BY <1>3, <1>6 DEF CheckTurnBudget, Call
  <2> QED
    BY <1>6, <2>1 DEF CheckTurnBudget, Over
<1>7. CASE MaybeRotateTurnHistory
  <2>1. /\ w'.pc \in {"raise", "session", "rotate"} /\ w.pc = "history"
        /\ w'.pc = "rotate" => w'.why # "resume"
    BY <1>3, <1>7 DEF MaybeRotateTurnHistory, Call, Go, Conflict
  <2> QED
    BY <1>7, <2>1 DEF MaybeRotateTurnHistory, Conflict
<1>8. CASE RotateAgentSession
  <2>1. w'.pc \in {"raise", "decide", "count", "escalate", "unpause"} /\ w.pc = "rotate"
    BY <1>3, <1>8 DEF RotateAgentSession, Call, Conflict, Counters, TurnCount, Reasons
  <2> QED
    BY <1>8, <2>1 DEF RotateAgentSession, Conflict
<1>9. CASE CountRotation
  <2>1. w'.pc \in {"raise", "session"} /\ w.pc = "count"
    BY <1>3, <1>9 DEF CountRotation, Call, Go, Conflict
  <2> QED
    BY <1>9, <2>1 DEF CountRotation, Conflict
<1>10. CASE EscalateChurn
  BY <1>3, <1>10 DEF EscalateChurn, Here
<1>11. CASE EnsureSession
  <2>1. w'.pc \in {"raise", "charge"} /\ w.pc = "session"
    BY <1>3, <1>11 DEF EnsureSession, Call
  <2> QED
    BY <1>11, <2>1 DEF EnsureSession
<1>12. CASE ChargeTurn
  <2>1. w'.pc \in {"raise", "row"} /\ w.pc = "charge"
    BY <1>3, <1>12 DEF ChargeTurn, Call, Go, Conflict
  <2> QED
    BY <1>12, <2>1 DEF ChargeTurn, Conflict
<1>13. CASE Guard
  <2>1. w'.pc \in {"model", "fail"} /\ w.pc = "guard"
    BY <1>13 DEF Guard, Go, Call
  <2> QED
    BY <1>13, <2>1 DEF Guard
<1>14. CASE RunModel
  <2>1. w'.pc \in {"save", "model", "fail"} /\ w.pc = "model"
    BY <1>14 DEF RunModel, Call
  <2> QED
    BY <1>14, <2>1 DEF RunModel
<1>15. CASE FinishTurn
  <2>1. w'.pc \in {"raise", "return"} /\ w.pc = "finish"
    BY <1>3, <1>15 DEF FinishTurn, Call, Go, Conflict
  <2> QED
    BY <1>15, <2>1 DEF FinishTurn, Conflict
<1>17. CASE RepairDependencies
  <2>1. w'.pc \in {"retry", "rollback"} /\ w.pc = "repair"
    BY <1>17 DEF RepairDependencies, Go, Call
  <2> QED
    BY <1>17, <2>1 DEF RepairDependencies
<1>18. CASE RollbackTurnNumber
  <2>1. w'.pc = "raise" /\ w.pc = "rollback"
    BY <1>3, <1>18 DEF RollbackTurnNumber, Conflict
  <2> QED
    BY <1>18, <2>1 DEF RollbackTurnNumber, Conflict
<1>19. CASE DecideRetry
  <2>1. w'.pc \in {"retry", "raise"} /\ w.pc = "decide"
    BY <1>3, <1>19 DEF DecideRetry, Call
  <2> QED
    BY <1>19, <2>1 DEF DecideRetry
<1>20. CASE RetryTurn
  <2>1. w'.pc \in {"begin", "raise"} /\ w.pc = "retry"
    BY <1>3, <1>20 DEF RetryTurn, Conflict, Call
  <2> QED
    BY <1>20, <2>1 DEF RetryTurn, Conflict
<1>21. CASE CallerHandles
  BY <1>4, <1>21 DEF CallerHandles, Here
<1> QED
  BY <1>6, <1>7, <1>8, <1>9, <1>10, <1>11, <1>12, <1>13, <1>14, <1>15,
     <1>17, <1>18, <1>19, <1>20, <1>21
  DEF Worker

\* Saving a turn keeps the phase it belongs to.
LEMMA PhasesRows ==
    ASSUME Core, Tables, Phases, SaveRunningTurn \/ SaveCompletedTurn \/ FailTurn
    PROVE  Phases'
<1>1. TypeOK /\ UNCHANGED <<state, resume, agent, exposed, r>> /\ w \in Call
  BY CallFacts DEF Core, SaveRunningTurn, SaveCompletedTurn, FailTurn, record, history
<1>2. ~exposed => r.pc # "rotate"
  BY DEF Tables, Quiet, Sweeping, SaveRunningTurn, SaveCompletedTurn, FailTurn
<1>3. state # "GATE"
  BY DEF Phases, SaveRunningTurn, SaveCompletedTurn, FailTurn
<1>4. ~exposed /\ state = "PAUSED" => resume.state = "WORKING"
  BY DEF Phases, SaveRunningTurn, SaveCompletedTurn, FailTurn
<1>5. w'.pc = "rotate" => w'.why = "failure"
  BY <1>1 DEF SaveRunningTurn, SaveCompletedTurn, FailTurn, Go, Call
<1>6. rows'[Len(rows')].agent = agent
  <2>1. CASE SaveRunningTurn
    <3> DEFINE new == [agent |-> agent, session |-> w.sid, status |-> "running",
                       error |-> "none"]
    <3>1. new \in Row /\ new.agent = agent
      BY <1>1 DEF TypeOK, Row
    <3>2. rows' = Append(rows, new)
      BY <2>1 DEF SaveRunningTurn
    <3> HIDE DEF new
    <3> QED
      BY <1>1, <3>1, <3>2, RowAdded
  <2>2. CASE ~SaveRunningTurn
    <3>1. w.row \in DOMAIN rows /\ w.row = Len(rows) /\ rows[w.row].agent = agent
      BY <2>2 DEF Tables, MyRow, Attempt, SaveCompletedTurn, FailTurn
    <3>2. SameRows
      BY <2>2, SameRowsButRunning DEF Next, Worker
    <3>3. rows \in Seq(Row) /\ rows' \in Seq(Row)
      BY StepCore DEF Core, TypeOK, Next, Worker
    <3>4. Len(rows') = Len(rows)
      BY <3>2, <3>3 DEF SameRows
    <3> QED
      BY <3>1, <3>2, <3>4 DEF SameRows
  <2> QED
    BY <2>1, <2>2
<1> QED
  BY <1>1, <1>2, <1>3, <1>4, <1>5, <1>6 DEF Phases

\* The next phase, or a gate, starts with no turn running.
LEMMA PhasesReturn ==
    ASSUME Core, Tables, Phases, ReturnTurn
    PROVE  Phases'
<1>1. TypeOK /\ UNCHANGED <<rows, exposed>> /\ w.pc = "return" /\ (r' = r \/ Bump)
  BY DEF Core, ReturnTurn, history
<1>2. CASE Raise /\ UNCHANGED record
  <2>1. w'.pc = "raise" /\ UNCHANGED <<state, resume, agent>>
    BY <1>2 DEF Raise, Idle, record
  <2> QED
    BY <1>1, <2>1, PhaseWorker
<1>3. CASE state \notin Stopped /\ ~(Raise /\ UNCHANGED record)
  <2>1. \/ state' = state /\ w'.pc = "begin"
        \/ state' = "GATE" /\ w'.pc = "idle"
    <3>1. \/ state' = state /\ w' = NewCall(w.driver)
          \/ state' = "GATE" /\ w' = Idle
      BY <1>3 DEF ReturnTurn
    <3>2. ASSUME w' = Idle PROVE w'.pc = "idle"
      BY <3>2 DEF Idle
    <3>3. ASSUME w' = NewCall(w.driver) PROVE w'.pc = "begin"
      BY <3>3 DEF NewCall, Idle
    <3> QED
      BY <3>1, <3>2, <3>3
  <2>2. state # "GATE" /\ state # "PAUSED" /\ state \notin Over
    BY <1>1, <1>3 DEF Phases, Stopped
  <2>3. ~exposed => Running' = {} /\ r'.pc # "rotate"
    <3>1. ~exposed => ~Sweeping
      BY <1>1 DEF Tables, Quiet
    <3>2. ~exposed => Running = {} /\ r.pc # "rotate"
      BY <1>1, <2>2, <3>1, NothingRuns DEF Attempt
    <3>3. r'.pc = r.pc /\ Running' = Running
      BY <1>1, BumpFacts DEF Running
    <3> QED
      BY <3>2, <3>3
  <2>4. r'.raced => r'.pc = "rotate"
    BY <1>1 DEF Bump, TypeOK, Phases
  <2> QED
    BY <1>1, <2>1, <2>2, <2>3, <2>4 DEF Phases
<1> QED
  BY <1>2, <1>3 DEF ReturnTurn

\* A resume goes back to the phase that was paused.
LEMMA PhasesUnpause ==
    ASSUME Core, Tables, Phases, Unpause
    PROVE  Phases'
<1>1. /\ TypeOK /\ UNCHANGED <<rows, exposed, agent>> /\ w.pc = "unpause" /\ Bump
      /\ state' = resume.state /\ resume.state \in Working /\ state = "PAUSED"
  BY DEF Core, Unpause, history, Counters, Resumable, Phase
<1>2. w'.pc = "idle" \/ (w'.pc = "begin" /\ resume.state = "WORKING")
  <2>1. w' = Idle \/ (w' = NewCall("pauses") /\ resume.state = "WORKING")
    BY DEF Unpause
  <2>2. ASSUME w' = Idle PROVE w'.pc = "idle"
    BY <2>2 DEF Idle
  <2>3. ASSUME w' = NewCall("pauses") PROVE w'.pc = "begin"
    BY <2>3 DEF NewCall, Idle
  <2> QED
    BY <2>1, <2>2, <2>3
<1>3. ~exposed => Running' = {} /\ r'.pc # "rotate"
  <2>1. ~exposed => ~Sweeping
    BY <1>1 DEF Tables, Quiet
  <2>2. ~exposed => Running = {} /\ r.pc # "rotate"
    BY <1>1, <2>1, NothingRuns DEF Attempt, Over
  <2>3. r'.pc = r.pc /\ Running' = Running
    BY <1>1, BumpFacts DEF Running
  <2> QED
    BY <2>2, <2>3
<1>4. r'.raced => r'.pc = "rotate"
  BY <1>1 DEF Bump, TypeOK
<1>5. state' # "PAUSED" /\ (state' = "GATE" => w'.pc = "idle")
  BY <1>1, <1>2 DEF Working
<1> QED
  BY <1>1, <1>2, <1>3, <1>4, <1>5 DEF Phases

\* Decisions, pauses, cancels and crashes keep the phase of a running turn.
LEMMA PhasesEnvironment ==
    ASSUME Core, Tables, Phases, Environment
    PROVE  Phases'
<1>1. TypeOK /\ w \in Call
  BY CallFacts DEF Core
<1>2. CASE EnterFromGate
  <2>1. /\ UNCHANGED rows /\ exposed' = (exposed \/ Sweeping)
        /\ state' = "WORKING" /\ state = "GATE" /\ w.pc = "idle"
    BY <1>2 DEF EnterFromGate
  <2>2. w'.pc = "begin"
    BY <1>2 DEF EnterFromGate, NewCall, Idle
  <2>3. ~exposed' => Running' = {} /\ r'.pc # "rotate"
    <3>1. ~exposed' => Running = {} /\ r.pc # "rotate"
      BY <2>1, NothingRuns DEF Attempt, Over
    <3>2. r'.pc = r.pc /\ Running' = Running
      BY <1>1, <1>2, <2>1 DEF EnterFromGate, TypeOK, Running
    <3> QED
      BY <3>1, <3>2
  <2>4. r'.raced => r'.pc = "rotate"
    BY <1>1, <1>2 DEF EnterFromGate, TypeOK
  <2> QED
    BY <2>1, <2>2, <2>3, <2>4 DEF Phases
<1>3. CASE PauseRun
  <2>1. UNCHANGED <<rows, exposed, r, w, state, resume, agent>>
    BY <1>3 DEF PauseRun, record, history
  <2> QED
    BY <2>1 DEF Phases, Running
<1>4. CASE PauseCommits
  <2>1. UNCHANGED <<rows, agent>> /\ w'.pc = w.pc /\ w'.why = w.why
    BY <1>1, <1>4 DEF PauseCommits, Call
  <2>2. r'.pc = r.pc /\ (r'.raced => r'.pc = "rotate")
    BY <1>1, <1>4 DEF PauseCommits, Bump, TypeOK, Phases
  <2>3. \/ UNCHANGED <<state, resume, exposed>>
        \/ /\ state \in Working /\ state' = "PAUSED" /\ (exposed => exposed')
           /\ ~exposed' => /\ resume'.state = state
                           /\ state = "WORKING" => resume'.agent = agent
    BY <1>4 DEF PauseCommits
  <2>4. CASE UNCHANGED <<state, resume, exposed>>
    BY <2>1, <2>2, <2>4 DEF Phases, Running
  <2>5. CASE /\ state \in Working /\ state' = "PAUSED" /\ (exposed => exposed')
             /\ ~exposed' => /\ resume'.state = state
                             /\ state = "WORKING" => resume'.agent = agent
    <3>1. state = "WORKING" \/ state = "GATE"
      BY <2>5 DEF Working
    <3>2. ~(w.pc = "rotate" /\ w.why = "resume")
      BY <2>5 DEF Core, Counters, Resumable, Working
    <3> QED
      BY <2>1, <2>2, <2>5, <3>1, <3>2 DEF Phases, Running
  <2> QED
    BY <2>3, <2>4, <2>5
<1>5. CASE ResumeRun
  <2>1. /\ UNCHANGED <<rows, state, resume>> /\ state = "PAUSED" /\ agent' = resume.agent
        /\ exposed => exposed'
        /\ r'.pc = r.pc /\ r'.raced = r.raced
    BY <1>1, <1>5 DEF ResumeRun, TypeOK
  <2>2. w'.pc = "unpause" \/ (w'.pc = "rotate" /\ resume.state = "WORKING")
    BY <1>5 DEF ResumeRun, Idle
  <2> QED
    BY <2>1, <2>2 DEF Phases, Running
<1>6. CASE CancelRun
  <2>1. UNCHANGED <<rows, w, exposed, agent>> /\ Bump /\ w.pc = "idle" /\ state' = "CANCELLED"
    BY <1>6 DEF CancelRun, history
  <2>2. r'.pc = r.pc /\ (r'.raced => r'.pc = "rotate")
    BY <1>1, <2>1 DEF Bump, TypeOK
  <2> QED
    BY <2>1, <2>2 DEF Phases, Running
<1>7. CASE Crash
  <2>1. /\ w' = Idle /\ r' = [NoRecovery EXCEPT !.pc = "boot"]
        /\ UNCHANGED <<rows, state, resume, agent>> /\ (exposed => exposed')
    BY <1>7 DEF Crash, record
  <2>2. w'.pc = "idle" /\ r'.pc = "boot" /\ r'.raced = FALSE
    BY <2>1 DEF Idle, NoRecovery
  <2> QED
    BY <2>1, <2>2 DEF Phases, Running
<1> QED
  BY <1>2, <1>3, <1>4, <1>5, <1>6, <1>7 DEF Environment

\* The sweep moves no phase.
LEMMA PhasesSweep ==
    ASSUME Core, Tables, Phases, Sweep \/ RecoverEnter, ~RecoverDies
    PROVE  Phases'
<1>1. TypeOK /\ w \in Call /\ UNCHANGED <<state, resume, agent, exposed>>
  BY CallFacts DEF Core, Sweep, RecoverBoot, RecoverScan, RecoverList, RecoverMark,
     RecoverRotate, RecoverEnter, record, history
<1>2. CASE RecoverMark
  <2>1. w' = w /\ r.pc = "mark" /\ r'.raced = r.raced
    BY <1>1, <1>2 DEF RecoverMark, TypeOK
  <2>2. ~exposed => r.listed = Running /\ Running # {}
    BY <2>1 DEF Tables, Owned, Quiet
  <2>3. SameRows
    BY <1>2, SameRowsButRunning DEF Next, Sweep, RecoverMark, SaveRunningTurn, Tables, Quiet
  <2>4. rows'[Len(rows')].agent = rows[Len(rows)].agent \/ exposed
    <3>1. rows \in Seq(Row) /\ rows' \in Seq(Row)
      BY <1>2, StepCore DEF Core, TypeOK, Next, Sweep
    <3>2. Len(rows') = Len(rows)
      BY <2>3, <3>1 DEF SameRows
    <3>3. ~exposed => Len(rows) \in DOMAIN rows
      BY <2>2 DEF Running, Tables, Quiet
    <3> QED
      BY <2>3, <3>2, <3>3 DEF SameRows
  <2>5. r'.raced = FALSE
    BY <1>1, <2>1 DEF Phases, TypeOK
  <2> QED
    BY <1>1, <2>1, <2>2, <2>4, <2>5 DEF Phases
<1>3. CASE RecoverRotate
  <2>1. UNCHANGED rows /\ w'.pc = w.pc /\ w'.why = w.why /\ r.pc = "rotate" /\ r'.raced = FALSE
    <3>1. r \in Recovery
      BY <1>1 DEF TypeOK, Recovery
    <3>2. w'.pc = w.pc /\ w'.why = w.why
      BY <1>1, <1>3 DEF RecoverRotate, Call
    <3>3. r'.raced = FALSE
      <4> DEFINE rest == r.seen \ {Min(r.seen)}
                 next == IF rest = {} THEN "lock" ELSE "rotate"
      <4>1. \/ r' = [r EXCEPT !.seen = rest, !.raced = FALSE, !.pc = next]
            \/ r' = NoRecovery
        BY <1>3 DEF RecoverRotate
      <4> HIDE DEF rest, next
      <4>2. ASSUME r' = NoRecovery PROVE r'.raced = FALSE
        BY <4>2 DEF NoRecovery
      <4>3. ASSUME r' = [r EXCEPT !.seen = rest, !.raced = FALSE, !.pc = next]
            PROVE  r'.raced = FALSE
        BY <3>1, <4>3 DEF Recovery
      <4> QED
        BY <4>1, <4>2, <4>3
    <3> QED
      BY <1>3, <3>2, <3>3 DEF RecoverRotate
  <2> QED
    BY <1>1, <2>1 DEF Phases, Running
<1>4. CASE RecoverBoot \/ RecoverScan \/ RecoverList
  <2>1. /\ UNCHANGED <<rows, w>> /\ r.pc # "rotate" /\ r'.pc # "rotate"
        /\ r'.raced = FALSE \/ r'.raced = r.raced
    <3>1. r \in Recovery
      BY <1>1 DEF TypeOK, Recovery
    <3>2. CASE RecoverBoot
      BY <3>1, <3>2 DEF RecoverBoot, Recovery, NoRecovery
    <3>3. CASE RecoverScan
      BY <3>1, <3>3 DEF RecoverScan, Recovery
    <3>4. CASE RecoverList
      BY <3>1, <3>4 DEF RecoverList, Recovery, NoRecovery
    <3> QED
      BY <1>4, <3>2, <3>3, <3>4
  <2> QED
    BY <1>1, <2>1 DEF Phases, Running
<1>5. CASE RecoverEnter
  <2>1. /\ UNCHANGED rows /\ r'.pc = "off" /\ r'.raced = FALSE /\ w.pc = "idle"
        /\ w' = w \/ (state = "WORKING" /\ w'.pc = "begin")
    BY <1>5 DEF RecoverEnter, NewCall, Idle, NoRecovery
  <2> QED
    BY <1>1, <2>1 DEF Phases, Running
<1> QED
  BY <1>2, <1>3, <1>4, <1>5 DEF Sweep

\* Nor does its death.
LEMMA PhasesDies ==
    ASSUME Phases, RecoverDies
    PROVE  Phases'
<1>1. UNCHANGED <<rows, w, state, resume, agent>> /\ (exposed => exposed')
  BY DEF RecoverDies, record
<1>2. r'.pc = "off" /\ r'.raced = FALSE
  BY DEF RecoverDies, NoRecovery
<1> QED
  BY <1>1, <1>2 DEF Phases, Running

\* Every step keeps the phase of the newest row.
LEMMA StepPhases ==
    ASSUME Core, Tables, Phases, [Next]_vars
    PROVE  Phases'
<1>1. CASE Worker
  BY <1>1, PhasesWorker, PhasesRows, PhasesReturn, PhasesUnpause
<1>2. CASE Sweep \/ RecoverEnter
  BY <1>2, PhasesSweep, PhasesDies
<1>3. CASE Environment
  BY <1>3, PhasesEnvironment
<1>4. CASE UNCHANGED vars
  BY <1>4 DEF vars, record, threads, history, Phases, Running
<1> QED
  BY <1>1, <1>2, <1>3, <1>4 DEF Next

\* Somebody is going to clear the session of the turn that failed last: the
\* worker that saw it fail, the resume, the sweep, or the resume of a run
\* that was paused before any of them could.
Window ==
    \/ w.pc = "rotate" /\ w.why \in {"failure", "resume"}
    \/ r.pc = "rotate"
    \/ w.pc \in {"idle", "raise"} /\ state = "PAUSED" /\ resume.state = "WORKING"

\* A poisoned session is attached only in that window, and it is the session
\* of the newest turn, where _rotate_failed_session_before_resume looks.
Attached ==
    \A a \in Agents : Poisoned(session[a]) =>
       /\ Len(rows) \in FailedTurns(agent)
       /\ rows[Len(rows)].session = session[agent]
       /\ a = agent
       /\ Window

Approach == {"history", "count", "session", "charge", "row"}

\* The session a turn is going to work in, and the one it works in.
Chosen ==
    /\ w.pc \in Approach => ~Poisoned(w.sid)
    /\ w.pc \in Attempt =>
          \A i \in DOMAIN rows \ {w.row} :
             rows[i].session = w.sid /\ rows[i].status = "failed"
                => rows[i].error = "dependency"

\* Only a pause makes the write that clears a session fail.
OnlyPauseRaces ==
    /\ w.pc = "rotate" /\ w.why = "failure" /\ w.raced => state = "PAUSED"
    /\ r.pc = "rotate" /\ r.raced => state = "PAUSED"

Clean == ~exposed /\ state \notin Over => Attached /\ Chosen /\ OnlyPauseRaces

Fresh == Sessions /\ Phases /\ Clean

\* "No session" is not a poisoned one.
LEMMA NoSessionZero ==
    ASSUME Core, Sessions
    PROVE  ~Poisoned(0)
<1>1. created \in Nat
  BY DEF Core, TypeOK
<1> QED
  BY <1>1 DEF Sessions, Poisoned

\* Between the budget check and the end of its turn the worker finds every
\* attached session clean.
LEMMA CleanAtWork ==
    ASSUME Tables, Clean, ~exposed, w.pc \notin {"idle", "raise", "rotate"}
    PROVE  /\ state \notin Over /\ ~Sweeping /\ ~Window
           /\ \A a \in Agents : ~Poisoned(session[a])
           /\ Chosen
<1>1. state \notin Over /\ ~Sweeping
  BY DEF Tables, Owned, Quiet
<1>2. ~Window
  BY <1>1 DEF Window, Sweeping
<1> QED
  BY <1>1, <1>2 DEF Clean, Attached

\* A step of the worker that writes no row and no failed turn's session.
LEMMA CleanFrame ==
    ASSUME Core, Tables, Fresh, w.pc \notin {"idle", "raise", "rotate"},
           UNCHANGED <<rows, exposed>>, r' = r \/ Bump,
           \A a \in Agents :
              session'[a] = session[a] \/ (w.pc \in Approach /\ session'[a] = w.sid),
           w'.pc \in Approach =>
              \/ w.pc \in Approach /\ w'.sid = w.sid
              \/ w'.sid = session[agent]
              \/ w'.sid > created,
           w'.pc \in Attempt => w.pc \in Attempt /\ w'.row = w.row /\ w'.sid = w.sid,
           w'.pc = "rotate" => w'.why # "failure"
    PROVE  Clean'
<1> SUFFICES ASSUME ~exposed, state' \notin Over PROVE (Attached /\ Chosen /\ OnlyPauseRaces)'
  BY DEF Clean
<1>1. /\ ~Sweeping /\ Chosen /\ \A a \in Agents : ~Poisoned(session[a])
  BY CleanAtWork DEF Fresh
<1>2. r'.pc = r.pc /\ agent \in Agents /\ created \in Nat
  BY BumpFacts DEF Core, TypeOK
<1>3. \A s : Poisoned(s)' <=> Poisoned(s)
  BY DEF Poisoned
<1>4. \A a \in Agents : ~Poisoned(session'[a])
  BY <1>1 DEF Chosen
<1>5. Attached'
  BY <1>4 DEF Attached, Poisoned
<1>6. ASSUME w'.pc \in Approach PROVE ~Poisoned(w'.sid)
  <2>1. CASE w'.sid > created
    BY <1>2, <2>1 DEF Fresh, Sessions, Poisoned
  <2> QED
    BY <1>1, <1>2, <1>6, <2>1 DEF Chosen
<1>7. Chosen'
  BY <1>1, <1>6 DEF Chosen, Poisoned
<1>8. OnlyPauseRaces'
  BY <1>1, <1>2 DEF OnlyPauseRaces, Sweeping
<1> QED
  BY <1>5, <1>7, <1>8

\* Steps that save no failure and rotate nothing keep sessions clean.
LEMMA CleanWorker ==
    ASSUME Core, Tables, Fresh, Worker,
           ~(SaveRunningTurn \/ SaveCompletedTurn \/ FailTurn \/ RotateAgentSession
             \/ CallerHandles)
    PROVE  Clean'
<1>1. TypeOK /\ Counters
  BY DEF Core
<1>2. w \in Call /\ session \in [Agents -> 0..created] /\ created \in Nat /\ agent \in Agents
  BY <1>1, CallFacts DEF TypeOK
<1>3. ASSUME Raise PROVE w'.pc = "raise"
  BY <1>3 DEF Raise, Idle
<1>4. ASSUME w' = Idle PROVE w'.pc = "idle"
  BY <1>4 DEF Idle
<1>5. ASSUME NEW d, w' = NewCall(d) PROVE w'.pc = "begin"
  BY <1>5 DEF NewCall, Idle
<1> USE <1>1, <1>2, CleanFrame DEF history, record, Attempt, Approach
<1>6. CASE CheckTurnBudget
  <2>1. /\ w'.pc = "raise" \/ (w'.pc = "history" /\ w'.sid = session[agent])
        /\ w.pc = "begin"
    BY <1>3, <1>6 DEF CheckTurnBudget, Call
  <2> QED
    BY <1>6, <2>1 DEF CheckTurnBudget
<1>7. CASE MaybeRotateTurnHistory
  <2>1. /\ \/ w'.pc = "raise"
           \/ w'.pc = "session" /\ w'.sid = w.sid
           \/ w'.pc = "rotate" /\ w'.why # "failure"
        /\ w.pc = "history"
    BY <1>3, <1>7 DEF MaybeRotateTurnHistory, Call, Go, Conflict
  <2> QED
    BY <1>7, <2>1 DEF MaybeRotateTurnHistory, Conflict
<1>8. CASE CountRotation
  <2>1. /\ w'.pc = "raise" \/ (w'.pc = "session" /\ w'.sid = w.sid)
        /\ w.pc = "count"
    BY <1>3, <1>8 DEF CountRotation, Call, Go, Conflict
  <2> QED
    BY <1>8, <2>1 DEF CountRotation, Conflict
<1>9. CASE EscalateChurn
  BY <1>3, <1>9 DEF EscalateChurn
<1>10. CASE EnsureSession
  <2>1. /\ \/ w'.pc = "raise"
           \/ w'.pc = "charge" /\ (w'.sid = w.sid \/ w'.sid = created + 1)
        /\ w.pc = "session"
    BY <1>3, <1>10 DEF EnsureSession, Call
  <2>2. w'.sid = created + 1 => w'.sid > created
    OBVIOUS
  <2> QED
    BY <1>10, <2>1, <2>2 DEF EnsureSession
<1>11. CASE ChargeTurn
  <2>1. /\ w'.pc = "raise" \/ (w'.pc = "row" /\ w'.sid = w.sid)
        /\ w.pc = "charge"
    BY <1>3, <1>11 DEF ChargeTurn, Call, Go, Conflict
  <2>2. \A a \in Agents : session'[a] = session[a] \/ session'[a] = w.sid
    BY <1>11 DEF ChargeTurn, Conflict
  <2>3. UNCHANGED <<rows, exposed>> /\ (r' = r \/ Bump)
    BY <1>11 DEF ChargeTurn, Conflict
  <2> QED
    BY <2>1, <2>2, <2>3
<1>12. CASE Guard
  <2>1. w'.pc \in {"model", "fail"} /\ w.pc = "guard" /\ w'.row = w.row /\ w'.sid = w.sid
    BY <1>12 DEF Guard, Go, Call
  <2> QED
    BY <1>12, <2>1 DEF Guard
<1>13. CASE RunModel
  <2>1. w'.pc \in {"save", "model", "fail"} /\ w.pc = "model" /\ w'.row = w.row /\ w'.sid = w.sid
    BY <1>13 DEF RunModel, Call
  <2> QED
    BY <1>13, <2>1 DEF RunModel
<1>14. CASE FinishTurn
  <2>1. w'.pc \in {"raise", "return"} /\ w.pc = "finish"
    BY <1>3, <1>14 DEF FinishTurn, Call, Go, Conflict
  <2> QED
    BY <1>14, <2>1 DEF FinishTurn, Conflict
<1>15. CASE ReturnTurn
  <2>1. w'.pc \in {"raise", "idle", "begin"} /\ w.pc = "return"
    BY <1>3, <1>4, <1>5, <1>15 DEF ReturnTurn
  <2> QED
    BY <1>15, <2>1 DEF ReturnTurn
<1>16. CASE RepairDependencies
  <2>1. w'.pc \in {"retry", "rollback"} /\ w.pc = "repair"
    BY <1>16 DEF RepairDependencies, Go, Call
  <2> QED
    BY <1>16, <2>1 DEF RepairDependencies
<1>17. CASE RollbackTurnNumber
  <2>1. w'.pc = "raise" /\ w.pc = "rollback"
    BY <1>3, <1>17 DEF RollbackTurnNumber, Conflict
  <2> QED
    BY <1>17, <2>1 DEF RollbackTurnNumber, Conflict
<1>18. CASE DecideRetry
  <2>1. w'.pc \in {"retry", "raise"} /\ w.pc = "decide"
    BY <1>3, <1>18 DEF DecideRetry, Call
  <2> QED
    BY <1>18, <2>1 DEF DecideRetry
<1>19. CASE RetryTurn
  <2>1. w'.pc \in {"begin", "raise"} /\ w.pc = "retry"
    BY <1>3, <1>19 DEF RetryTurn, Conflict, Call
  <2> QED
    BY <1>19, <2>1 DEF RetryTurn, Conflict
<1>20. CASE Unpause
  <2>1. w'.pc \in {"begin", "idle"} /\ w.pc = "unpause"
    BY <1>4, <1>5, <1>20 DEF Unpause
  <2> QED
    BY <1>20, <2>1 DEF Unpause
<1> QED
  BY <1>6, <1>7, <1>8, <1>9, <1>10, <1>11, <1>12, <1>13, <1>14, <1>15, <1>16, <1>17,
     <1>18, <1>19, <1>20
  DEF Worker

\* The session of a new running row is clean.
LEMMA CleanSaveRunning ==
    ASSUME Core, Tables, Fresh, SaveRunningTurn
    PROVE  Clean'
<1> SUFFICES ASSUME ~exposed, state' \notin Over PROVE (Attached /\ Chosen /\ OnlyPauseRaces)'
  BY DEF Clean, SaveRunningTurn, history
<1>1. TypeOK /\ w.pc = "row" /\ UNCHANGED <<session, r>>
  BY DEF Core, SaveRunningTurn, record
<1>2. ~Sweeping /\ Chosen /\ \A a \in Agents : ~Poisoned(session[a])
  BY <1>1, CleanAtWork DEF Fresh
<1> DEFINE new == [agent |-> agent, session |-> w.sid, status |-> "running",
                   error |-> "none"]
<1>3. new \in Row /\ new.status = "running"
  BY <1>1 DEF TypeOK, Row
<1>4. rows' = Append(rows, new)
  BY DEF SaveRunningTurn
<1> HIDE DEF new
<1>5. /\ DOMAIN rows' = DOMAIN rows \cup {Len(rows) + 1}
      /\ rows'[Len(rows) + 1] = new
      /\ \A i \in DOMAIN rows : rows'[i] = rows[i]
  BY <1>1, <1>3, <1>4, RowAdded
<1>6. w'.pc = "guard" /\ w'.row = Len(rows) + 1 /\ w'.sid = w.sid
  BY <1>1, CallFacts DEF SaveRunningTurn, Call
<1>7. \A s : Poisoned(s)' => Poisoned(s)
  BY <1>3, <1>5 DEF Poisoned
<1>8. Attached'
  BY <1>1, <1>2, <1>7 DEF Attached, Poisoned
<1>9. ~Poisoned(w.sid)
  BY <1>1, <1>2 DEF Chosen, Approach
<1>10. Chosen'
  BY <1>5, <1>6, <1>9 DEF Chosen, Approach, Poisoned
<1>11. OnlyPauseRaces'
  BY <1>1, <1>2, <1>6 DEF OnlyPauseRaces, Sweeping
<1> QED
  BY <1>8, <1>10, <1>11

\* A completed turn poisons nothing.
LEMMA CleanSaveCompleted ==
    ASSUME Core, Tables, Fresh, SaveCompletedTurn
    PROVE  Clean'
<1> SUFFICES ASSUME ~exposed, state' \notin Over PROVE (Attached /\ Chosen /\ OnlyPauseRaces)'
  BY DEF Clean, SaveCompletedTurn
<1>1. TypeOK /\ w.pc = "save" /\ UNCHANGED <<session, r>>
  BY DEF Core, SaveCompletedTurn, record
<1>2. ~Sweeping /\ \A a \in Agents : ~Poisoned(session[a])
  BY <1>1, CleanAtWork DEF Fresh
<1>3. w.row \in DOMAIN rows
  BY <1>1 DEF Tables, MyRow, Attempt
<1> DEFINE e == [rows[w.row] EXCEPT !.status = "completed"]
<1>4. rows' = [rows EXCEPT ![w.row] = e]
  BY DEF SaveCompletedTurn
<1>5. e.status = "completed"
  <2>1. rows[w.row] \in Row
    BY <1>1, <1>3 DEF TypeOK
  <2> QED
    BY <2>1 DEF Row
<1> HIDE DEF e
<1>6. /\ DOMAIN rows' = DOMAIN rows /\ rows'[w.row] = e
      /\ \A j \in DOMAIN rows : j # w.row => rows'[j] = rows[j]
  BY <1>1, <1>3, <1>4, <1>5, Rewriting
<1>7. \A s : Poisoned(s)' => Poisoned(s)
  BY <1>5, <1>6 DEF Poisoned
<1>8. w'.pc = "finish"
  BY <1>1, CallFacts DEF SaveCompletedTurn, Go, Call
<1>9. Attached'
  BY <1>1, <1>2, <1>7 DEF Attached, Poisoned
<1>10. Chosen' /\ OnlyPauseRaces'
  BY <1>1, <1>2, <1>8 DEF Chosen, Approach, Attempt, OnlyPauseRaces, Sweeping
<1> QED
  BY <1>9, <1>10

\* A failed turn poisons the session it worked in and no other; the worker
\* goes on to clear it.
LEMMA CleanFail ==
    ASSUME Core, Tables, Fresh, FailTurn
    PROVE  Clean'
<1> SUFFICES ASSUME ~exposed, state' \notin Over PROVE (Attached /\ Chosen /\ OnlyPauseRaces)'
  BY DEF Clean, FailTurn, history
<1>1. TypeOK /\ w.pc = "fail" /\ UNCHANGED <<session, r, agent>>
  BY DEF Core, FailTurn, record
<1>2. ~Sweeping /\ \A a \in Agents : ~Poisoned(session[a])
  BY <1>1, CleanAtWork DEF Fresh
<1>3. /\ w.row \in DOMAIN rows /\ w.row = Len(rows)
      /\ rows[w.row].agent = agent /\ rows[w.row].session = w.sid
  BY <1>1 DEF Tables, MyRow, Attempt
<1> DEFINE e == [rows[w.row] EXCEPT !.status = "failed", !.error = w.failure]
<1>4. rows' = [rows EXCEPT ![w.row] = e]
  BY <1>1 DEF FailTurn, TypeOK
<1>5. /\ e \in Row /\ e.status = "failed" /\ e.error = w.failure
      /\ e.agent = agent /\ e.session = w.sid
  <2>1. rows[w.row] \in Row /\ w.failure \in Failures \cup {"none"}
    BY <1>1, <1>3 DEF TypeOK
  <2> QED
    BY <1>3, <2>1 DEF Row
<1> HIDE DEF e
<1>6. /\ DOMAIN rows' = DOMAIN rows /\ rows'[w.row] = e
      /\ \A j \in DOMAIN rows : j # w.row => rows'[j] = rows[j]
  BY <1>1, <1>3, <1>4, <1>5, Rewriting
<1>7. Len(rows') = w.row
  BY <1>1, <1>3, <1>4, <1>5, RowRewritten
<1>8. /\ w'.pc = IF w.failure = "dependency" THEN "repair" ELSE "rotate"
      /\ w'.why = "failure" /\ w'.raced = FALSE
  <2> DEFINE next == IF w.failure = "dependency" THEN "repair" ELSE "rotate"
  <2>1. w' = [w EXCEPT !.raced = FALSE, !.why = "failure", !.pc = next]
    BY DEF FailTurn
  <2> HIDE DEF next
  <2>2. w'.pc = next /\ w'.why = "failure" /\ w'.raced = FALSE
    BY <1>1, <2>1, CallFacts DEF Call
  <2> QED
    BY <2>2 DEF next
<1>9. \A s : Poisoned(s)' => Poisoned(s) \/ (s = w.sid /\ w.failure # "dependency")
  BY <1>5, <1>6 DEF Poisoned
<1>10. Attached'
  <2> SUFFICES ASSUME NEW a \in Agents, Poisoned(session[a])'
               PROVE  (/\ Len(rows) \in FailedTurns(agent)
                       /\ rows[Len(rows)].session = session[agent]
                       /\ a = agent
                       /\ Window)'
    BY DEF Attached
  <2>1. session[a] = w.sid /\ w.failure # "dependency"
    BY <1>1, <1>2, <1>9 DEF Poisoned
  <2>2. a = agent
    BY <1>1, <2>1 DEF Fresh, Sessions, Belongs, Booked, Attempt
  <2>3. Len(rows') \in FailedTurns(agent)' /\ rows'[Len(rows')].session = session'[agent']
    BY <1>1, <1>3, <1>5, <1>6, <1>7, <2>1, <2>2 DEF FailedTurns
  <2>4. Window'
    BY <1>8, <2>1 DEF Window
  <2> QED
    BY <1>1, <2>2, <2>3, <2>4
<1>11. Chosen' /\ OnlyPauseRaces'
  BY <1>1, <1>2, <1>8 DEF Chosen, Approach, Attempt, OnlyPauseRaces, Sweeping
<1> QED
  BY <1>10, <1>11

\* The rotation clears the only poisoned session, or a pause came first and
\* the resume is going to.
LEMMA CleanRotate ==
    ASSUME Core, Tables, Fresh, RotateAgentSession
    PROVE  Clean'
<1> SUFFICES ASSUME ~exposed, state' \notin Over PROVE (Attached /\ Chosen /\ OnlyPauseRaces)'
  BY DEF Clean, RotateAgentSession, history
<1>1. /\ TypeOK /\ w.pc = "rotate" /\ UNCHANGED <<rows, agent, state, resume>>
      /\ r' = r \/ Bump
  BY DEF Core, RotateAgentSession, record, Conflict
<1>2. ~Sweeping /\ Attached /\ OnlyPauseRaces
  BY <1>1 DEF Fresh, Clean, Tables, Quiet
<1>3. r.pc # "rotate" /\ r'.pc # "rotate"
  BY <1>1, <1>2, BumpFacts DEF Sweeping
<1>4. \A s : Poisoned(s)' <=> Poisoned(s)
  BY <1>1 DEF Poisoned
<1>5. ~Poisoned(0)
  BY NoSessionZero DEF Fresh
<1>6. \/ w.raced /\ w'.pc = "raise" /\ UNCHANGED session
      \/ /\ session' = [session EXCEPT ![agent] = 0]
         /\ w'.pc \in {"raise", "decide", "escalate", "unpause"} \/ (w'.pc = "count" /\ w'.sid = 0)
  <2>1. ASSUME Raise PROVE w'.pc = "raise"
    BY <2>1 DEF Raise, Idle
  <2> DEFINE next == CASE w.why = "failure" -> "decide"
                       [] w.why = "history" -> "count"
                       [] w.why = "churn" -> "escalate"
                       [] w.why = "resume" -> "unpause"
  <2>2. w.why \in Reasons
    BY <1>1 DEF Core, TypeOK, Counters, TurnCount, RotationDue
  <2>3. next \in {"decide", "count", "escalate", "unpause"}
    BY <2>2 DEF Reasons
  <2>4. \/ w.raced /\ Raise /\ UNCHANGED session
        \/ /\ session' = [session EXCEPT ![agent] = 0]
           /\ \/ Raise
              \/ w' = [w EXCEPT !.raced = FALSE, !.sid = 0, !.why = "none", !.pc = next]
    BY DEF RotateAgentSession, Conflict, record
  <2> HIDE DEF next
  <2>5. ASSUME w' = [w EXCEPT !.raced = FALSE, !.sid = 0, !.why = "none", !.pc = next]
        PROVE  w'.pc = next /\ w'.sid = 0
    BY <1>1, <2>5, CallFacts DEF Call
  <2> QED
    BY <2>1, <2>3, <2>4, <2>5
<1>7. CASE w.raced /\ w'.pc = "raise" /\ UNCHANGED session
  <2>1. ASSUME Window PROVE Window'
    <3>1. w.why = "failure" \/ w.why = "resume"
      BY <1>1, <1>3, <2>1 DEF Window
    <3>2. state = "PAUSED" /\ resume.state = "WORKING"
      BY <1>1, <1>2, <1>7, <3>1 DEF OnlyPauseRaces, Fresh, Phases, Core, Counters, Resumable
    <3> QED
      BY <1>1, <1>7, <3>2 DEF Window
  <2>2. Attached'
    BY <1>1, <1>2, <1>7, <2>1 DEF Attached, Poisoned, FailedTurns
  <2> QED
    BY <1>3, <1>7, <2>2 DEF Chosen, Approach, Attempt, OnlyPauseRaces
<1>8. CASE /\ session' = [session EXCEPT ![agent] = 0]
           /\ \/ w'.pc \in {"raise", "decide", "escalate", "unpause"}
              \/ w'.pc = "count" /\ w'.sid = 0
  <2>1. \A a \in Agents : ~Poisoned(session'[a])
    BY <1>1, <1>2, <1>5, <1>8 DEF Attached, TypeOK
  <2>2. Attached'
    BY <1>1, <2>1 DEF Attached, Poisoned
  <2>3. Chosen'
    BY <1>4, <1>5, <1>8 DEF Chosen, Approach, Attempt
  <2> QED
    BY <1>3, <1>8, <2>2, <2>3 DEF OnlyPauseRaces
<1> QED
  BY <1>6, <1>7, <1>8

\* An exception that reaches the caller attaches no session.
LEMMA CleanCallerHandles ==
    ASSUME Core, Tables, Fresh, CallerHandles
    PROVE  Clean'
<1> SUFFICES ASSUME ~exposed, state' \notin Over PROVE (Attached /\ Chosen /\ OnlyPauseRaces)'
  BY DEF Clean, CallerHandles, history
<1>1. /\ TypeOK /\ w.pc = "raise" /\ UNCHANGED <<rows, agent, session>>
      /\ UNCHANGED <<state, resume>> \/ (state = "WORKING" /\ state' = "PAUSED")
      /\ r' = r \/ Bump
  BY DEF Core, CallerHandles
<1>2. w'.pc = "idle"
  <2>1. w' = Idle
    BY DEF CallerHandles
  <2> QED
    BY <2>1 DEF Idle
<1>3. ~Sweeping /\ Attached
  BY <1>1 DEF Fresh, Clean, Tables, Quiet, Over
<1>4. r.pc # "rotate" /\ r'.pc # "rotate"
  BY <1>1, <1>3, BumpFacts DEF Sweeping
<1>5. Window => Window'
  BY <1>1, <1>2, <1>4 DEF Window
<1>6. Attached'
  BY <1>1, <1>3, <1>5 DEF Attached, Poisoned, FailedTurns
<1> QED
  BY <1>2, <1>4, <1>6 DEF Chosen, Approach, Attempt, OnlyPauseRaces

\* The last index is the greatest of any set that has it.
LEMMA LastMax ==
    ASSUME NEW n \in Nat, NEW S \in SUBSET (1..n), n \in S
    PROVE  Max(S) = n
<1>1. \A y \in S : n >= y
  OBVIOUS
<1>2. \A x \in S : (\A y \in S : x >= y) => x = n
  OBVIOUS
<1> QED
  BY <1>1, <1>2 DEF Max

\* A step that only moves the run to another state or the threads on.
LEMMA CleanSame ==
    ASSUME Fresh, UNCHANGED <<rows, agent, session>>, ~exposed, state \notin Over,
           Window => Window',
           w'.pc \in Approach \cup Attempt =>
              w'.pc = w.pc /\ w'.row = w.row /\ w'.sid = w.sid,
           OnlyPauseRaces'
    PROVE  Clean'
<1>1. Attached /\ Chosen
  BY DEF Fresh, Clean
<1>2. Attached'
  BY <1>1 DEF Attached, Poisoned, FailedTurns
<1>3. Chosen'
  BY <1>1 DEF Chosen, Approach, Attempt, Poisoned
<1> QED
  BY <1>2, <1>3 DEF Clean

\* Pauses, cancels and crashes attach no session.
LEMMA CleanEnvironment ==
    ASSUME Core, Tables, Fresh, Environment
    PROVE  Clean'
<1>1. TypeOK /\ w \in Call
  BY CallFacts DEF Core
<1>2. CASE EnterFromGate
  <2> SUFFICES ASSUME ~exposed' PROVE Clean'
    BY DEF Clean
  <2>1. /\ UNCHANGED <<rows, session>> /\ ~exposed /\ ~Sweeping /\ r'.pc = r.pc
        /\ state = "GATE" /\ w.pc = "idle"
    BY <1>1, <1>2 DEF EnterFromGate, TypeOK
  <2>2. w'.pc = "begin" /\ r'.pc # "rotate" /\ ~Window
    BY <1>1, <1>2, <2>1 DEF EnterFromGate, NewCall, Idle, Sweeping, Window
  <2>3. \A a \in Agents : ~Poisoned(session[a])
    BY <2>1, <2>2 DEF Fresh, Clean, Attached, Over
  <2>4. Attached'
    BY <2>1, <2>3 DEF Attached, Poisoned
  <2> QED
    BY <2>2, <2>4 DEF Clean, Chosen, Approach, Attempt, OnlyPauseRaces
<1>3. CASE PauseRun
  <2>1. UNCHANGED <<rows, exposed, r, w, state, resume, agent, session>>
    BY <1>3 DEF PauseRun, record, history
  <2> QED
    BY <2>1 DEF Fresh, Clean, Attached, Chosen, OnlyPauseRaces, Poisoned, Window, FailedTurns
<1>4. CASE PauseCommits
  <2>1. UNCHANGED <<rows, agent, session>>
    BY <1>4 DEF PauseCommits
  <2>2. CASE UNCHANGED <<state, resume, w, r, exposed>>
    BY <2>1, <2>2 DEF Fresh, Clean, Attached, Chosen, OnlyPauseRaces, Poisoned, Window,
       FailedTurns
  <2>3. CASE /\ state \in Working /\ state' = "PAUSED" /\ Bump
             /\ w' = [w EXCEPT !.raced = w.pc \in Writing] /\ (exposed => exposed')
    <3> SUFFICES ASSUME ~exposed' PROVE Clean'
      BY DEF Clean
    <3>1. w'.pc = w.pc /\ w'.row = w.row /\ w'.sid = w.sid /\ w'.why = w.why
      BY <1>1, <2>3 DEF Call
    <3>2. r'.pc = r.pc
      BY <1>1, <2>1, <2>3, BumpFacts
    <3>3. state \notin Over /\ state # "PAUSED"
      BY <2>3 DEF Working, Over
    <3>4. Window => Window'
      BY <3>1, <3>2, <3>3 DEF Window
    <3>5. OnlyPauseRaces'
      BY <2>3 DEF OnlyPauseRaces
    <3> QED
      BY <2>1, <2>3, <3>1, <3>3, <3>4, <3>5, CleanSame
  <2> QED
    BY <1>4, <2>2, <2>3 DEF PauseCommits
<1>5. CASE ResumeRun
  <2> SUFFICES ASSUME ~exposed' PROVE Clean'
    BY DEF Clean
  <2>1. /\ UNCHANGED <<rows, session, state, resume>> /\ ~exposed /\ ~Sweeping
        /\ state = "PAUSED" /\ w.pc = "idle" /\ agent' = resume.agent /\ r'.pc = r.pc
    BY <1>1, <1>5 DEF ResumeRun, TypeOK
  <2> DEFINE failed == FailedTurns(resume.agent)
             attached ==
        /\ resume.state = "WORKING" /\ session[resume.agent] # 0
        /\ failed # {}
        /\ rows[Max(failed)].session = session[resume.agent]
  <2>2. /\ w'.pc \in {"rotate", "unpause"} /\ w'.raced = FALSE
        /\ attached => w'.pc = "rotate" /\ w'.why = "resume"
    <3>1. w' = [Idle EXCEPT !.driver = "leaves", !.start = turn_number,
                  !.pc = IF attached THEN "rotate" ELSE "unpause",
                  !.why = IF attached THEN "resume" ELSE "none"]
      BY <1>5 DEF ResumeRun
    <3> HIDE DEF attached
    <3> QED
      BY <3>1 DEF Idle
  <2>3. Attached /\ r.pc # "rotate"
    BY <2>1 DEF Fresh, Clean, Over, Sweeping
  <2>4. ASSUME NEW a \in Agents, Poisoned(session[a]) PROVE attached /\ resume.agent = agent
    <3>1. /\ Len(rows) \in FailedTurns(agent) /\ a = agent /\ resume.state = "WORKING"
          /\ rows[Len(rows)].session = session[agent]
      BY <2>1, <2>3, <2>4 DEF Attached, Window
    <3>4. resume.agent = agent
      BY <2>1, <3>1 DEF Fresh, Phases
    <3>2. session[agent] # 0
      BY <2>4, <3>1, NoSessionZero DEF Fresh
    <3>3. Max(FailedTurns(agent)) = Len(rows)
      <4>1. Len(rows) \in Nat /\ FailedTurns(agent) \subseteq 1..Len(rows)
        BY <1>1 DEF TypeOK, FailedTurns
      <4> QED
        BY <3>1, <4>1, LastMax
    <3> QED
      BY <3>1, <3>2, <3>3, <3>4
  <2> HIDE DEF attached
  <2>5. Attached'
    <3>1. ASSUME NEW a \in Agents, Poisoned(session[a]) PROVE Window'
      BY <2>2, <2>4, <3>1 DEF Window
    <3> QED
      BY <2>1, <2>3, <2>4, <3>1 DEF Attached, Poisoned, FailedTurns
  <2> QED
    BY <2>1, <2>2, <2>3, <2>5 DEF Clean, Chosen, Approach, Attempt, OnlyPauseRaces
<1>6. CASE CancelRun
  BY <1>6 DEF CancelRun, Clean, Over
<1>7. CASE Crash
  <2> SUFFICES ASSUME ~exposed' PROVE Clean'
    BY DEF Clean
  <2>1. /\ w' = Idle /\ r' = [NoRecovery EXCEPT !.pc = "boot"]
        /\ UNCHANGED <<rows, session>> /\ \A a \in Agents : ~Poisoned(session[a])
    BY <1>7 DEF Crash, record
  <2>2. w'.pc = "idle" /\ r'.pc = "boot"
    BY <2>1 DEF Idle, NoRecovery
  <2>3. Attached'
    BY <2>1 DEF Attached, Poisoned
  <2> QED
    BY <2>2, <2>3 DEF Clean, Chosen, Approach, Attempt, OnlyPauseRaces
<1> QED
  BY <1>2, <1>3, <1>4, <1>5, <1>6, <1>7 DEF Environment

\* The reads of the sweep attach no session.
LEMMA CleanSweepReads ==
    ASSUME Core, Tables, Fresh, RecoverBoot \/ RecoverScan \/ RecoverList \/ RecoverEnter
    PROVE  Clean'
<1> SUFFICES ASSUME ~exposed', state' \notin Over PROVE Clean'
  BY DEF Clean
<1>1. /\ TypeOK /\ ~exposed /\ state \notin Over /\ UNCHANGED <<rows, agent, session, state, resume>>
      /\ r.pc \in {"boot", "scan", "list", "lock"}
  BY DEF Core, RecoverBoot, RecoverScan, RecoverList, RecoverEnter, record, history
<1>2. r'.pc # "rotate"
  <2>1. r \in Recovery
    BY <1>1 DEF TypeOK, Recovery
  <2>2. CASE RecoverBoot
    BY <2>1, <2>2 DEF RecoverBoot, Recovery, NoRecovery
  <2>3. CASE RecoverScan
    BY <2>1, <2>3 DEF RecoverScan, Recovery
  <2>4. CASE RecoverList
    BY <2>1, <2>4 DEF RecoverList, Recovery, NoRecovery
  <2>5. CASE RecoverEnter
    BY <2>5 DEF RecoverEnter, NoRecovery
  <2> QED
    BY <2>2, <2>3, <2>4, <2>5
<1>3. w' = w \/ (RecoverEnter /\ w.pc = "idle" /\ state = "WORKING" /\ w'.pc = "begin")
  BY DEF RecoverBoot, RecoverScan, RecoverList, RecoverEnter, NewCall, Idle
<1>4. CASE w' = w
  <2>1. OnlyPauseRaces'
    BY <1>1, <1>2, <1>4 DEF Fresh, Clean, OnlyPauseRaces
  <2>2. Window => Window'
    BY <1>1, <1>4 DEF Window
  <2> QED
    BY <1>1, <1>4, <2>1, <2>2, CleanSame
<1>5. CASE RecoverEnter /\ w.pc = "idle" /\ state = "WORKING" /\ w'.pc = "begin"
  <2>1. ~Window
    BY <1>1, <1>5 DEF Window
  <2>2. OnlyPauseRaces'
    BY <1>2, <1>5 DEF OnlyPauseRaces
  <2> QED
    BY <1>1, <1>5, <2>1, <2>2, CleanSame DEF Approach, Attempt
<1> QED
  BY <1>3, <1>4, <1>5

\* A sweep that dies attaches none either.
LEMMA CleanDies ==
    ASSUME Core, Tables, Fresh, RecoverDies
    PROVE  Clean'
<1> SUFFICES ASSUME ~exposed', state' \notin Over PROVE Clean'
  BY DEF Clean
<1>1. /\ ~exposed /\ state \notin Over /\ r.pc \in {"boot", "scan"}
      /\ UNCHANGED <<rows, agent, session, state, resume, w>>
  BY DEF RecoverDies, record
<1>2. r'.pc = "off"
  BY DEF RecoverDies, NoRecovery
<1>3. OnlyPauseRaces'
  BY <1>1, <1>2 DEF Fresh, Clean, OnlyPauseRaces
<1>4. Window => Window'
  BY <1>1 DEF Window
<1> QED
  BY <1>1, <1>3, <1>4, CleanSame

\* The sweep poisons the session of the one turn the crash interrupted, and
\* is going to clear it.
LEMMA CleanMark ==
    ASSUME Core, Tables, Fresh, RecoverMark
    PROVE  Clean'
<1> SUFFICES ASSUME ~exposed', state' \notin Over PROVE (Attached /\ Chosen /\ OnlyPauseRaces)'
  BY DEF Clean
<1>1. /\ TypeOK /\ ~exposed /\ state \notin Over /\ r.pc = "mark"
      /\ UNCHANGED <<agent, session, state, resume, w>>
  BY DEF Core, RecoverMark, record, history
<1>2. w.pc = "idle"
  BY <1>1 DEF Tables, Quiet, Sweeping
<1> DEFINE i == Min(r.listed)
           rest == r.listed \ {i}
           e == [rows[i] EXCEPT !.status = "failed", !.error = "restart"]
<1>3. /\ Running = {Len(rows)} /\ r.seen = {Len(rows)} /\ r.listed = {Len(rows)}
      /\ Len(rows) \in DOMAIN rows /\ rows[Len(rows)].status = "running"
  <2>1. r.listed = Running /\ r.seen = Running /\ Running \subseteq {Len(rows)} /\ r.listed # {}
    BY <1>1 DEF Tables, Quiet, Owned
  <2> QED
    BY <2>1 DEF Running
<1>4. i = Len(rows) /\ Len(rows) \in Nat
  <2>1. Len(rows) \in Nat
    BY <1>1 DEF TypeOK
  <2> QED
    BY <1>3, <2>1, SingleMin
<1>5. rows' = [rows EXCEPT ![i] = e]
  BY <1>1 DEF RecoverMark, TypeOK
<1>6. /\ r' = [r EXCEPT !.listed = rest, !.pc = "rotate"]
  <2>1. rest = {} /\ r.seen # {}
    BY <1>3, <1>4
  <2> DEFINE next == CASE rest # {} -> "mark"
                       [] rest = {} /\ r.seen # {} -> "rotate"
                       [] OTHER -> "lock"
  <2>2. next = "rotate"
    BY <2>1
  <2>3. r' = [r EXCEPT !.listed = rest, !.pc = next]
    BY DEF RecoverMark
  <2> QED
    BY <2>2, <2>3
<1>7. r'.pc = "rotate" /\ r'.raced = FALSE
  <2>1. r \in Recovery /\ r.raced = FALSE
    BY <1>1 DEF TypeOK, Recovery, Fresh, Phases
  <2> HIDE DEF rest
  <2> QED
    BY <1>6, <2>1 DEF Recovery
<1>8. e \in Row /\ e.status = "failed" /\ e.agent = rows[i].agent /\ e.session = rows[i].session
  <2> HIDE DEF i
  <2>1. rows[i] \in Row
    BY <1>1, <1>3, <1>4 DEF TypeOK
  <2> QED
    BY <2>1 DEF Row
<1> HIDE DEF i, rest, e
<1>9. /\ DOMAIN rows' = DOMAIN rows /\ rows'[i] = e /\ Len(rows') = Len(rows)
      /\ \A j \in DOMAIN rows : j # i => rows'[j] = rows[j]
  BY <1>1, <1>3, <1>4, <1>5, <1>8, Rewriting, RowRewritten
<1>10. \A a \in Agents : ~Poisoned(session[a])
  BY <1>1, <1>3 DEF Fresh, Clean, Attached, FailedTurns
<1>11. \A s : Poisoned(s)' => Poisoned(s) \/ s = rows[i].session
  BY <1>8, <1>9 DEF Poisoned
<1>12. rows[i].agent = agent /\ rows[i].session # 0
  <2>1. rows[i].session \in 1..created /\ created \in Nat
    BY <1>1, <1>3, <1>4 DEF Fresh, Sessions, TypeOK
  <2> QED
    BY <1>1, <1>3, <1>4, <2>1 DEF Fresh, Phases
<1>13. Attached'
  <2> SUFFICES ASSUME NEW a \in Agents, Poisoned(session[a])'
               PROVE  (/\ Len(rows) \in FailedTurns(agent)
                       /\ rows[Len(rows)].session = session[agent]
                       /\ a = agent
                       /\ Window)'
    BY DEF Attached
  <2>1. session[a] = rows[i].session
    BY <1>1, <1>10, <1>11 DEF Poisoned
  <2>2. a = agent
    BY <1>3, <1>4, <1>12, <2>1 DEF Fresh, Sessions, Belongs
  <2>3. Len(rows') \in FailedTurns(agent)' /\ rows'[Len(rows')].session = session'[agent']
    BY <1>1, <1>3, <1>4, <1>8, <1>9, <1>12, <2>1, <2>2 DEF FailedTurns
  <2>4. Window'
    BY <1>7 DEF Window
  <2> QED
    BY <1>1, <2>2, <2>3, <2>4
<1>14. Chosen' /\ OnlyPauseRaces'
  BY <1>1, <1>2, <1>7 DEF Chosen, Approach, Attempt, OnlyPauseRaces
<1> QED
  BY <1>13, <1>14

\* The rotation of the sweep detaches what the crash interrupted.
LEMMA CleanSweepRotates ==
    ASSUME Core, Tables, Fresh, RecoverRotate
    PROVE  Clean'
<1> SUFFICES ASSUME ~exposed', state' \notin Over PROVE (Attached /\ Chosen /\ OnlyPauseRaces)'
  BY DEF Clean
<1>1. /\ TypeOK /\ ~exposed /\ state \notin Over /\ r.pc = "rotate"
      /\ UNCHANGED <<agent, rows, state, resume>>
  BY DEF Core, RecoverRotate, history
<1>2. w.pc = "idle" /\ w'.pc = "idle"
  <2>1. w'.pc = w.pc
    BY <1>1, CallFacts DEF RecoverRotate, Call
  <2> QED
    BY <1>1, <2>1 DEF Tables, Quiet, Sweeping
<1>3. /\ Min(r.seen) = Len(rows) /\ r.seen \ {Min(r.seen)} = {}
      /\ rows[Len(rows)].agent = agent
  <2>1. r.seen = {Len(rows)} /\ Len(rows) \in Int
    BY <1>1 DEF Tables, Quiet, TypeOK
  <2> QED
    BY <1>1, <2>1, SingleMin DEF Fresh, Phases
<1>4. Attached /\ OnlyPauseRaces
  BY <1>1 DEF Fresh, Clean
<1>5. Chosen'
  BY <1>2 DEF Chosen, Approach, Attempt
<1>6. CASE /\ session' = [session EXCEPT ![agent] = 0]
           /\ \/ r' = [r EXCEPT !.seen = r.seen \ {Min(r.seen)}, !.raced = FALSE,
                               !.pc = "lock"]
              \/ r' = NoRecovery
  <2>1. r'.pc # "rotate"
    <3> DEFINE rest == r.seen \ {Min(r.seen)}
    <3>1. /\ \/ r' = [r EXCEPT !.seen = rest, !.raced = FALSE, !.pc = "lock"]
             \/ r' = NoRecovery
          /\ r \in Recovery
      BY <1>1, <1>6 DEF TypeOK, Recovery
    <3> HIDE DEF rest
    <3>2. ASSUME r' = NoRecovery PROVE r'.pc # "rotate"
      BY <3>2 DEF NoRecovery
    <3>3. ASSUME r' = [r EXCEPT !.seen = rest, !.raced = FALSE, !.pc = "lock"]
          PROVE  r'.pc # "rotate"
      BY <3>1, <3>3 DEF Recovery
    <3> QED
      BY <3>1, <3>2, <3>3
  <2>2. ~Poisoned(0)
    BY NoSessionZero DEF Fresh
  <2>3. \A a \in Agents : ~Poisoned(session'[a])
    BY <1>1, <1>4, <1>6, <2>2 DEF Attached, TypeOK
  <2>4. Attached'
    BY <1>1, <2>3 DEF Attached, Poisoned
  <2> QED
    BY <1>2, <1>5, <2>1, <2>4 DEF OnlyPauseRaces
<1>7. CASE r.raced /\ r' = NoRecovery /\ UNCHANGED session
  <2>1. r'.pc = "off"
    BY <1>7 DEF NoRecovery
  <2>2. state = "PAUSED" /\ resume.state = "WORKING"
    BY <1>1, <1>4, <1>7 DEF OnlyPauseRaces, Fresh, Phases
  <2>3. Window'
    BY <1>1, <1>2, <2>2 DEF Window
  <2>4. Attached'
    BY <1>1, <1>4, <1>7, <2>3 DEF Attached, Poisoned, FailedTurns
  <2> QED
    BY <1>2, <1>5, <2>1, <2>4 DEF OnlyPauseRaces
<1> QED
  BY <1>3, <1>6, <1>7 DEF RecoverRotate

\* Every step keeps the third layer.
LEMMA StepFresh ==
    ASSUME Core, Tables, Fresh, [Next]_vars
    PROVE  Fresh'
<1>1. Sessions'
  BY StepSessions DEF Fresh
<1>2. Phases'
  BY StepPhases DEF Fresh
<1>3. CASE Worker
  BY <1>3, CleanWorker, CleanSaveRunning, CleanSaveCompleted, CleanFail, CleanRotate,
     CleanCallerHandles, <1>1, <1>2 DEF Fresh
<1>4. CASE Sweep \/ RecoverEnter
  BY <1>4, CleanSweepReads, CleanDies, CleanMark, CleanSweepRotates, <1>1, <1>2 DEF Sweep, Fresh
<1>5. CASE Environment
  BY <1>5, CleanEnvironment, <1>1, <1>2 DEF Fresh
<1>6. CASE UNCHANGED vars
  <2>1. Clean'
    BY <1>6 DEF vars, record, threads, history, Fresh, Clean, Attached, Chosen,
       OnlyPauseRaces, Poisoned, Window, FailedTurns
  <2> QED
    BY <1>1, <1>2, <2>1 DEF Fresh
<1> QED
  BY <1>3, <1>4, <1>5, <1>6 DEF Next

\* A new run has no session to poison.
LEMMA InitFresh ==
    ASSUME Init
    PROVE  Fresh
<1>1. /\ w.pc = "begin" /\ w.sid = 0 /\ r.pc = "off" /\ r.raced = FALSE
      /\ rows = << >> /\ state = "WORKING" /\ session = [a \in Agents |-> 0]
  BY DEF Init, NewCall, Idle, NoRecovery
<1>2. DOMAIN rows = {}
  BY <1>1
<1>3. Sessions
  BY <1>1, <1>2 DEF Sessions, Booked, Attempt
<1>4. Phases
  BY <1>1, <1>2 DEF Phases, Running
<1>5. Clean
  BY <1>1, <1>2 DEF Clean, Attached, Poisoned, Chosen, Approach, Attempt, OnlyPauseRaces
<1> QED
  BY <1>3, <1>4, <1>5 DEF Fresh

\* The third layer holds of every reachable state.
LEMMA FreshInvariance == Spec => []Fresh
<1>1. Init => Fresh
  BY InitFresh
<1>2. Core /\ Tables /\ Fresh /\ [Next]_vars => Fresh'
  BY StepFresh
<1> QED
  BY <1>1, <1>2, CoreInvariance, TablesInvariance, PTL DEF Spec

\* The session a model works in is fresh: no earlier turn on it failed or was
\* interrupted, whatever retries, automatic resumes, pauses, resumes, churn
\* and sweeps came before, unless one of the four windows was open
\* (_rotate_agent_session, _rotate_failed_session_before_resume, recover).
THEOREM ModelSessionIsFresh == Spec => []NoPoisonedSession
<1>1. Core /\ Tables /\ Fresh => NoPoisonedSession
  <2> SUFFICES ASSUME Core, Tables, Fresh, w.pc = "model", ~exposed,
                      NEW i \in DOMAIN rows \ {w.row},
                      rows[i].session = rows[w.row].session
               PROVE  rows[i].status = "completed" \/ rows[i].error = "dependency"
    BY DEF NoPoisonedSession
  <2>1. w.row = Len(rows) /\ rows[w.row].session = w.sid /\ state \notin Over
    BY DEF Tables, MyRow, Owned, Attempt
  <2>2. rows[i].status # "running"
    BY <2>1 DEF Tables, Quiet, Running
  <2>3. rows[i].status = "failed" => rows[i].error = "dependency"
    BY <2>1 DEF Fresh, Clean, Chosen, Attempt
  <2>4. rows[i].status \in {"running", "completed", "failed"}
    <3>1. rows \in Seq(Row) /\ i \in DOMAIN rows
      BY DEF Core, TypeOK
    <3>2. rows[i] \in Row
      BY <3>1
    <3> QED
      BY <3>2 DEF Row
  <2> QED
    BY <2>2, <2>3, <2>4
<1> QED
  BY <1>1, CoreInvariance, TablesInvariance, FreshInvariance, PTL
=============================================================================
