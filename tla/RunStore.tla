------------------------------ MODULE RunStore ------------------------------
(***************************************************************************)
(* The durable run table of the research orchestrator, shared by every     *)
(* thread of the service (HTTP handlers, Discord controls, the job         *)
(* watcher, recovery).  Each store method is one write transaction         *)
(* (BEGIN IMMEDIATE in SQLite, an advisory lock in PostgreSQL), so each is *)
(* one action here.  What is NOT atomic is a caller that reads a run with  *)
(* get_run, works on its copy, and writes it back later: such a caller is  *)
(* a thread holding a snapshot.                                            *)
(***************************************************************************)
EXTENDS Integers, FiniteSets, RunStates

CONSTANTS
    Runs,             \* run ids
    Threads,          \* callers holding a copy of a run between two transactions
    Investigations,   \* investigation ids a run may be scoped to
    NoInvestigation,  \* investigation_id is NULL
    Keys,             \* retry idempotency keys
    None,             \* no snapshot, no parent, no child
    OneActive,        \* settings.one_active_run
    StalePausedSweep, \* settings.paused_run_staleness_days > 0
    MaxVersion        \* bound on the version column

ASSUME StoreAssumption ==
    /\ OneActive \in BOOLEAN
    /\ StalePausedSweep \in BOOLEAN
    /\ MaxVersion \in Nat \ {0}
    /\ None \notin Runs /\ None \notin [child : Runs, key : Keys]
    /\ NoInvestigation \notin Investigations

VARIABLES
    runs,    \* the runs table: run id -> row
    slot,    \* terminal_run_retries: parent -> [child, key], or None
    logged,  \* run id -> the state told by its newest state-bearing event
    old,     \* runs whose updated_at lies before the stale-paused cutoff
    snap,    \* thread -> the [run, row] it read with get_run, or None
    commits  \* history: run id -> turn-number increments that committed

vars == <<runs, slot, logged, old, snap, commits>>

Scopes == Investigations \cup {NoInvestigation}

Row ==
    [state : RunState \cup {"ABSENT"}, version : 0..MaxVersion,
     turn : Nat, resume : RunState \cup {"NONE"}, clock : BOOLEAN,
     scope : Scopes, conversation : BOOLEAN, parent : Runs \cup {None}]

AbsentRow ==
    [state |-> "ABSENT", version |-> 0, turn |-> 0, resume |-> "NONE",
     clock |-> FALSE, scope |-> NoInvestigation, conversation |-> FALSE,
     parent |-> None]

Present(r) == runs[r].state # "ABSENT"

\* list_active_runs' predicate.
Live(r) == Present(r) /\ runs[r].state \notin TERMINAL_STATES

\* Mutant: a paused run is taken to have left its slot.
ActiveInButPaused(scope) ==
    {r \in Runs : /\ Live(r) /\ ~runs[r].conversation
                  /\ runs[r].scope = scope /\ runs[r].state # "PAUSED"}

\* The rows that hold the active slot of an investigation.
ActiveIn(scope) ==
    {r \in Runs : Live(r) /\ ~runs[r].conversation /\ runs[r].scope = scope}

TypeOK ==
    /\ runs \in [Runs -> Row]
    /\ slot \in [Runs -> [child : Runs, key : Keys] \cup {None}]
    /\ logged \in [Runs -> RunState \cup {"ABSENT"}]
    /\ old \in SUBSET Runs
    /\ snap \in [Threads -> [run : Runs, row : Row] \cup {None}]
    /\ commits \in [Runs -> Nat]

Init ==
    /\ runs = [r \in Runs |-> AbsentRow]
    /\ slot = [r \in Runs |-> None]
    /\ logged = [r \in Runs |-> "ABSENT"]
    /\ old = {}
    /\ snap = [t \in Threads |-> None]
    /\ commits = [r \in Runs |-> 0]

----------------------------------------------------------------------------
(* Writes of one row.                                                      *)

\* Mutant: the version column is incremented twice.
WriteRowTwice(r, row) ==
    /\ runs[r].version < MaxVersion
    /\ runs' = [runs EXCEPT ![r] = [row EXCEPT !.version = runs[r].version + 2]]
    /\ old' = old \ {r}

\* Store row as the next version of run r; updated_at becomes now.
WriteRow(r, row) ==
    /\ runs[r].version < MaxVersion
    /\ runs' = [runs EXCEPT ![r] = [row EXCEPT !.version = runs[r].version + 1]]
    /\ old' = old \ {r}

\* Mutant: the interval is not closed when a human wait is entered.
ClockAfterOpenOnly(current, target, given) ==
    IF /\ current \in HUMAN_WAIT_STATES
       /\ target \notin HUMAN_WAIT_STATES \cup TERMINAL_STATES \cup {"PAUSED"}
    THEN TRUE
    ELSE given

\* transition_run's clock: entering a human wait closes the open interval,
\* leaving one for work opens it, otherwise the caller's value stands.
ClockAfter(current, target, given) ==
    IF target \in HUMAN_WAIT_STATES /\ current \notin HUMAN_WAIT_STATES
    THEN FALSE
    ELSE IF /\ current \in HUMAN_WAIT_STATES
            /\ target \notin HUMAN_WAIT_STATES
            /\ target \notin TERMINAL_STATES
            /\ target # "PAUSED"
         THEN TRUE
         ELSE given

\* The body of transition_run: validate against the stored state, then write
\* the state and its run.state_changed event in the same transaction.
transition_run(r, target, resume, clock) ==
    /\ Present(r)
    /\ ValidTransition(runs[r].state, target)
    /\ WriteRow(r, [runs[r] EXCEPT
                      !.state = target,
                      !.resume = resume,
                      !.clock = ClockAfter(runs[r].state, target, clock)])
    /\ logged' = [logged EXCEPT ![r] = target]

\* A transition of the engine that carries no record updates.  No operation
\* prepares a conversation run: it can only be cancelled or failed.
Transition(r, target) ==
    /\ target # "PAUSED"
    /\ runs[r].conversation => target # "PREPARING"
    /\ transition_run(r, target, runs[r].resume, runs[r].clock)
    /\ UNCHANGED <<slot, snap, commits>>

\* A write that re-reads the row inside its own transaction.
reset_methodology_revision_budget(r) ==
    /\ Present(r)
    /\ WriteRow(r, runs[r])
    /\ UNCHANGED <<slot, logged, snap, commits>>

----------------------------------------------------------------------------
(* Callers that read a run first and write later.                          *)

get_run(t, r) ==
    /\ snap[t] = None
    /\ Present(r)
    /\ snap' = [snap EXCEPT ![t] = [run |-> r, row |-> runs[r]]]
    /\ UNCHANGED <<runs, slot, logged, old, commits>>

\* Mutant: the version of the caller's copy is not compared.
replace_run_unchecked(t) ==
    /\ snap[t] # None
    /\ LET r == snap[t].run
           mine == snap[t].row
       IN  /\ WriteRow(r, [mine EXCEPT !.turn = @ + 1])
           /\ commits' = [commits EXCEPT ![r] = @ + 1]
    /\ snap' = [snap EXCEPT ![t] = None]
    /\ UNCHANGED <<slot, logged>>

\* replace_run: the caller's whole copy (here with the turn number it
\* incremented) is stored if the version it read is still current.
replace_run(t) ==
    /\ snap[t] # None
    /\ LET r == snap[t].run
           mine == snap[t].row
       IN  /\ runs[r].version = mine.version
           /\ WriteRow(r, [mine EXCEPT !.turn = @ + 1])
           /\ commits' = [commits EXCEPT ![r] = @ + 1]
    /\ snap' = [snap EXCEPT ![t] = None]
    /\ UNCHANGED <<slot, logged>>

\* Mutant: a copy that is already paused is paused again.
pause_run_twice(t) ==
    /\ snap[t] # None
    /\ snap[t].row.state \notin TERMINAL_STATES
    /\ transition_run(snap[t].run, "PAUSED", snap[t].row.state, FALSE)
    /\ snap' = [snap EXCEPT ![t] = None]
    /\ UNCHANGED <<slot, commits>>

\* pause_run: the state to resume at and the closed clock come from the copy
\* read before the agent turns were aborted; the move is validated against
\* the stored row.
pause_run(t) ==
    /\ snap[t] # None
    /\ snap[t].row.state \notin TERMINAL_STATES \cup {"PAUSED"}
    /\ transition_run(snap[t].run, "PAUSED", snap[t].row.state, FALSE)
    /\ snap' = [snap EXCEPT ![t] = None]
    /\ UNCHANGED <<slot, commits>>

\* resume_run: back to the recorded state, clock running.
resume_run(t) ==
    /\ snap[t] # None
    /\ snap[t].row.state = "PAUSED"
    /\ snap[t].row.resume # "NONE"
    /\ transition_run(snap[t].run, snap[t].row.resume, "NONE", TRUE)
    /\ snap' = [snap EXCEPT ![t] = None]
    /\ UNCHANGED <<slot, commits>>

\* The caller finds nothing to do, or its write is refused
\* (ConcurrencyConflict, InvalidTransition), or its process dies.
GiveUp(t) ==
    /\ snap[t] # None
    /\ snap' = [snap EXCEPT ![t] = None]
    /\ UNCHANGED <<runs, slot, logged, old, commits>>

----------------------------------------------------------------------------
(* Creation.                                                               *)

NewRow(state, scope, conversation, parent) ==
    [state |-> state, version |-> 1, turn |-> 0, resume |-> "NONE",
     clock |-> ~conversation, scope |-> scope, conversation |-> conversation,
     parent |-> parent]

\* A paused row old enough to be cancelled to free its slot.
Abandoned(r) == StalePausedSweep /\ runs[r].state = "PAUSED" /\ r \in old

CancelledRow(row) ==
    [row EXCEPT !.state = "CANCELLED", !.version = @ + 1]

\* The check-then-insert shared by create_run and create_terminal_retry: the
\* slot of the scope is free, or held by an abandoned run that is cancelled
\* (with its own event) in the same transaction.
InsertRun(r, row) ==
    /\ ~Present(r)
    /\ \/ /\ OneActive => ActiveIn(row.scope) = {}
          /\ runs' = [runs EXCEPT ![r] = row]
          /\ logged' = [logged EXCEPT ![r] = row.state]
          /\ old' = old
       \/ /\ OneActive
          /\ \E a \in ActiveIn(row.scope) :
               /\ Abandoned(a)
               /\ runs[a].version < MaxVersion
               /\ runs' = [runs EXCEPT ![r] = row, ![a] = CancelledRow(@)]
               /\ logged' = [logged EXCEPT ![r] = row.state, ![a] = "CANCELLED"]
               /\ old' = old \ {a}

create_run(r, scope) ==
    /\ InsertRun(r, NewRow("CREATED", scope, FALSE, None))
    /\ UNCHANGED <<slot, snap, commits>>

\* answer_research_question: an inert conversation run, created without the
\* active-run check.
CreateConversation(r) ==
    /\ ~Present(r)
    /\ runs' = [runs EXCEPT ![r] = NewRow("CREATED", NoInvestigation, TRUE, None)]
    /\ logged' = [logged EXCEPT ![r] = "CREATED"]
    /\ UNCHANGED <<slot, old, snap, commits>>

\* Mutant: only the key that created a child is answered with it.
RetryAnsweredByKey(p, key) ==
    /\ slot[p] # None
    /\ slot[p].key = key

\* The existing child answers the request: it is still live, or the caller
\* repeats the key that created it.
RetryAnswered(p, key) ==
    /\ slot[p] # None
    /\ runs[slot[p].child].state \notin TERMINAL_STATES \/ slot[p].key = key

\* A fresh child of a failed or timed-out parent takes over the parent's
\* retry slot.  The child record carries no investigation id.
create_terminal_retry(p, c, key) ==
    /\ runs[p].state \in {"FAILED", "TIMED_OUT"}
    /\ ~RetryAnswered(p, key)
    /\ InsertRun(c, NewRow("PREPARING", NoInvestigation, FALSE, p))
    /\ slot' = [slot EXCEPT ![p] = [child |-> c, key |-> key]]
    /\ UNCHANGED <<snap, commits>>

\* Days pass without a write to a paused run.
GrowOld(r) ==
    /\ Present(r) /\ runs[r].state = "PAUSED" /\ r \notin old
    /\ old' = old \cup {r}
    /\ UNCHANGED <<runs, slot, logged, snap, commits>>

----------------------------------------------------------------------------
Next ==
    \/ \E r \in Runs :
         \/ \E target \in RunState : Transition(r, target)
         \/ reset_methodology_revision_budget(r)
         \/ \E scope \in Scopes : create_run(r, scope)
         \/ CreateConversation(r)
         \/ \E p \in Runs, key \in Keys : create_terminal_retry(p, r, key)
         \/ GrowOld(r)
    \/ \E t \in Threads :
         \/ \E r \in Runs : get_run(t, r)
         \/ replace_run(t)
         \/ pause_run(t)
         \/ resume_run(t)
         \/ GiveUp(t)

Spec == Init /\ [][Next]_vars

----------------------------------------------------------------------------
(* Properties.                                                             *)

\* One-active-run policy: with one_active_run set, create_run and
\* create_terminal_retry never leave an investigation with two live runs,
\* whatever pauses, resumes, stale copies and abandoned-run cancellations
\* come between.
OneActiveRun ==
    OneActive =>
        \A a, b \in Runs :
            /\ Live(a) /\ ~runs[a].conversation
            /\ Live(b) /\ ~runs[b].conversation
            /\ runs[a].scope = runs[b].scope
            => a = b

\* The event log is authoritative: the newest state-bearing event of a run
\* (run.created, run.state_changed, run.stale_paused_cancelled) always tells
\* the stored state, although replace_run writes a whole old copy and
\* appends no event.
LogTellsState == \A r \in Runs : logged[r] = runs[r].state

\* Optimistic concurrency of replace_run: no committed turn-number increment
\* is ever overwritten by a write based on an older copy.
NoLostUpdate == \A r \in Runs : runs[r].turn = commits[r]

\* A paused run can always be resumed: resume_state names a phase, never a
\* terminal state, PAUSED or nothing, even when the run moved on between the
\* pause's read and its write.
PausedIsResumable ==
    \A r \in Runs : runs[r].state = "PAUSED" =>
        runs[r].resume \in WorkStates \cup HUMAN_WAIT_STATES

\* The active-runtime clock never runs while a run waits on a human or is
\* paused, so waiting is never charged to maximum_runtime_seconds, whatever
\* stale copies pauses and resumes are written from.  For approval states this
\* is what transition_run and test_human_approval_states_stop_active_runtime_clock
\* say; the document says the contrary, see ReviewTimeIsCharged.
ClockStoppedWhileWaiting ==
    \A r \in Runs :
        runs[r].state \in HUMAN_WAIT_STATES \cup {"PAUSED"} => ~runs[r].clock

\* The claim of docs/research-orchestrator.md:734, that operator review time in
\* explicit approval states remains part of active runtime: the clock of a run
\* at an approval gate is running.  transition_run stops it.
ReviewTimeIsCharged ==
    \A r \in Runs : runs[r].state \in HUMAN_WAIT_STATES => runs[r].clock

\* A retry that another child has superseded is over: of all the children
\* ever created for a parent only the one in its retry slot can be live.
SupersededChildIsOver ==
    \A c \in Runs : \A p \in Runs :
        (Present(c) /\ runs[c].parent = p) =>
            \/ slot[p] # None /\ slot[p].child = c
            \/ runs[c].state \in TERMINAL_STATES

\* A terminal run is never reopened, not even by a caller that still holds a
\* copy from when the run was live.
TerminalForever ==
    [][\A r \in Runs : runs[r].state \in TERMINAL_STATES =>
                           runs'[r].state = runs[r].state]_vars
=============================================================================
