--------------------------- MODULE RunStoreProofs ---------------------------
(***************************************************************************)
(* The properties of RunStore, for every set of runs and threads and every *)
(* bound.  The heart of the argument is FreshOrStale: a copy read with     *)
(* get_run is either the stored row itself or carries an older version,    *)
(* because every write of a row increments its version.                    *)
(***************************************************************************)
EXTENDS RunStore, TLAPS

\* An inserted row has a version; the others are blank.
VersionedWhenPresent ==
    \A r \in Runs : IF Present(r) THEN runs[r].version > 0
                                 ELSE runs[r] = AbsentRow

\* A copy is of an inserted run; it is the stored row, or older than it.
FreshOrStale ==
    \A t \in Threads : snap[t] # None =>
        LET r == snap[t].run
            mine == snap[t].row
        IN  /\ mine.state # "ABSENT"
            /\ mine.version > 0
            /\ mine.version <= runs[r].version
            /\ mine.version = runs[r].version => mine = runs[r]

\* A copy of a paused run names the phase to resume, as the row did.
CopiesResumable ==
    \A t \in Threads : snap[t] # None /\ snap[t].row.state = "PAUSED" =>
        snap[t].row.resume \in WorkStates \cup HUMAN_WAIT_STATES

\* The strengthening that makes the safety properties inductive.
IInv ==
    /\ TypeOK
    /\ VersionedWhenPresent
    /\ FreshOrStale
    /\ CopiesResumable
    /\ LogTellsState
    /\ NoLostUpdate
    /\ PausedIsResumable
    /\ ClockStoppedWhileWaiting
    /\ OneActiveRun
    /\ SupersededChildIsOver

----------------------------------------------------------------------------
(* Facts about the state graph.                                            *)

\* The classes of run states do not overlap, and "ABSENT" is in none.
LEMMA StateClasses ==
    /\ "ABSENT" \notin RunState /\ "NONE" \notin RunState
    /\ WorkStates \subseteq RunState
    /\ HUMAN_WAIT_STATES \subseteq RunState
    /\ TERMINAL_STATES \subseteq RunState
    /\ "PAUSED" \in RunState
    /\ "PAUSED" \notin TERMINAL_STATES \cup HUMAN_WAIT_STATES \cup WorkStates
    /\ TERMINAL_STATES \cap HUMAN_WAIT_STATES = {}
    /\ RunState = WorkStates \cup HUMAN_WAIT_STATES \cup {"PAUSED"}
                    \cup TERMINAL_STATES
    /\ "CREATED" \in WorkStates /\ "PREPARING" \in WorkStates
    /\ "CREATED" \notin TERMINAL_STATES \cup HUMAN_WAIT_STATES \cup {"PAUSED"}
    /\ "PREPARING" \notin TERMINAL_STATES \cup HUMAN_WAIT_STATES \cup {"PAUSED"}
    /\ {"FAILED", "TIMED_OUT", "CANCELLED"} \subseteq TERMINAL_STATES
BY DEF RunState, WorkStates, HUMAN_WAIT_STATES, TERMINAL_STATES

\* An accepted move never leaves a terminal state, always reaches a run
\* state, and never goes from one human wait straight to another.
LEMMA AcceptedMoves ==
    ASSUME NEW s \in RunState, NEW t, ValidTransition(s, t)
    PROVE  /\ s \notin TERMINAL_STATES
           /\ t \in RunState
           /\ s \in HUMAN_WAIT_STATES => t \notin HUMAN_WAIT_STATES
<1>1. s \notin TERMINAL_STATES
  BY DEF ValidTransition, TRANSITIONS
<1>2. t \in RunState
  BY <1>1, StateClasses
  DEF ValidTransition, TRANSITIONS, Successors, Interruptions, RunState,
      WorkStates, HUMAN_WAIT_STATES, TERMINAL_STATES
<1>3. ASSUME s \in HUMAN_WAIT_STATES PROVE t \notin HUMAN_WAIT_STATES
  BY <1>1, <1>3
  DEF ValidTransition, TRANSITIONS, Successors, Interruptions,
      HUMAN_WAIT_STATES, TERMINAL_STATES
<1> QED BY <1>1, <1>2, <1>3

----------------------------------------------------------------------------
(* Writes of one row.                                                      *)

\* What a run keeps when its row is written, whoever writes it: the state
\* of a terminal run, its place in its investigation and its parent.
Continues(r, row) ==
    /\ row \in Row /\ row.state \in RunState
    /\ runs[r].state \in RunState \ TERMINAL_STATES \/ row.state = runs[r].state
    /\ row.scope = runs[r].scope
    /\ row.conversation = runs[r].conversation
    /\ row.parent = runs[r].parent

\* Writing a row whose log entry and turn count agree with it, and that is
\* resumable when paused and off the clock when waiting, preserves IInv.
LEMMA WriteRowPreserves ==
    ASSUME IInv, StoreAssumption,
           NEW r \in Runs, NEW row, Present(r), Continues(r, row),
           WriteRow(r, row),
           slot' = slot,
           logged' = [logged EXCEPT ![r] = row.state],
           commits' \in [Runs -> Nat],
           \A q \in Runs \ {r} : commits'[q] = commits[q],
           row.turn = commits'[r],
           row.state = "PAUSED" =>
               row.resume \in WorkStates \cup HUMAN_WAIT_STATES,
           row.state \in HUMAN_WAIT_STATES \cup {"PAUSED"} => ~row.clock,
           \/ snap' = snap
           \/ \E t \in Threads : snap' = [snap EXCEPT ![t] = None]
    PROVE  IInv'
<1> DEFINE new == [row EXCEPT !.version = runs[r].version + 1]
<1>0. runs[r] \in Row /\ runs[r].version \in 0..MaxVersion /\ MaxVersion \in Nat
  BY DEF IInv, TypeOK, Row, StoreAssumption
<1>1. /\ new \in Row
      /\ new.version = runs[r].version + 1
      /\ new.state = row.state /\ new.turn = row.turn
      /\ new.resume = row.resume /\ new.clock = row.clock
      /\ new.scope = row.scope /\ new.conversation = row.conversation
      /\ new.parent = row.parent
  BY <1>0 DEF WriteRow, Continues, Row
<1>2. runs' = [runs EXCEPT ![r] = new]
  BY DEF WriteRow
<1> HIDE DEF new
<1>3. /\ runs'[r] = new
      /\ \A q \in Runs \ {r} : runs'[q] = runs[q]
  BY <1>2 DEF IInv, TypeOK
<1>4. TypeOK'
  <2>1. runs' \in [Runs -> Row]
    BY <1>1, <1>2 DEF IInv, TypeOK
  <2>2. logged' \in [Runs -> RunState \cup {"ABSENT"}]
    BY DEF IInv, TypeOK, Continues
  <2>3. old' \in SUBSET Runs
    BY DEF IInv, TypeOK, WriteRow
  <2>4. snap' \in [Threads -> [run : Runs, row : Row] \cup {None}]
    BY DEF IInv, TypeOK
  <2> QED BY <2>1, <2>2, <2>3, <2>4 DEF IInv, TypeOK
<1>5. VersionedWhenPresent'
  BY <1>0, <1>1, <1>3, StateClasses
  DEF IInv, VersionedWhenPresent, Continues, Present
<1>6. FreshOrStale'
  <2> SUFFICES ASSUME NEW t \in Threads, snap'[t] # None
               PROVE  /\ snap'[t].row.state # "ABSENT"
                      /\ snap'[t].row.version > 0
                      /\ snap'[t].row.version <= runs'[snap'[t].run].version
                      /\ snap'[t].row.version = runs'[snap'[t].run].version
                           => snap'[t].row = runs'[snap'[t].run]
    BY DEF FreshOrStale
  <2>1. snap'[t] = snap[t] /\ snap[t] # None
    BY DEF IInv, TypeOK
  <2>2. /\ snap[t].run \in Runs /\ snap[t].row \in Row
        /\ snap[t].row.version \in 0..MaxVersion
    BY <2>1 DEF IInv, TypeOK, Row
  <2>3. /\ snap[t].row.state # "ABSENT"
        /\ snap[t].row.version > 0
        /\ snap[t].row.version <= runs[snap[t].run].version
        /\ snap[t].row.version = runs[snap[t].run].version
             => snap[t].row = runs[snap[t].run]
    BY <2>1 DEF IInv, FreshOrStale
  <2>4. CASE snap[t].run = r
    BY <1>0, <1>1, <1>3, <2>1, <2>2, <2>3, <2>4
  <2>5. CASE snap[t].run # r
    BY <1>3, <2>1, <2>2, <2>3, <2>5
  <2> QED BY <2>4, <2>5
<1>6a. CopiesResumable'
  BY DEF IInv, TypeOK, CopiesResumable
<1>7. LogTellsState'
  BY <1>1, <1>3 DEF IInv, TypeOK, LogTellsState
<1>8. NoLostUpdate'
  BY <1>1, <1>3 DEF IInv, NoLostUpdate
<1>9. PausedIsResumable'
  BY <1>1, <1>3 DEF IInv, PausedIsResumable
<1>10. ClockStoppedWhileWaiting'
  BY <1>1, <1>3 DEF IInv, ClockStoppedWhileWaiting
<1>11. \A q \in Runs : /\ Live(q)' => Live(q)
                       /\ runs'[q].scope = runs[q].scope
                       /\ runs'[q].conversation = runs[q].conversation
  <2>1. Live(r)' => Live(r)
    BY <1>1, <1>3, StateClasses DEF Live, Present, Continues
  <2> QED BY <1>1, <1>3, <2>1 DEF Live, Present, Continues
<1>12. OneActiveRun'
  BY <1>11 DEF IInv, OneActiveRun
<1>13. SupersededChildIsOver'
  <2> SUFFICES ASSUME NEW c \in Runs, NEW p \in Runs,
                      Present(c)', runs'[c].parent = p
               PROVE  \/ slot[p] # None /\ slot[p].child = c
                      \/ runs'[c].state \in TERMINAL_STATES
    BY DEF SupersededChildIsOver
  <2>1. Present(c) /\ runs[c].parent = p
    BY <1>1, <1>3 DEF Present, Continues
  <2>2. \/ slot[p] # None /\ slot[p].child = c
        \/ runs[c].state \in TERMINAL_STATES
    BY <2>1 DEF IInv, SupersededChildIsOver
  <2>3. runs[c].state \in TERMINAL_STATES => runs'[c].state = runs[c].state
    BY <1>1, <1>3 DEF Continues
  <2> QED BY <2>2, <2>3
<1> QED
  BY <1>4, <1>5, <1>6, <1>7, <1>8, <1>9, <1>10, <1>12, <1>13, <1>6a DEF IInv

\* A transition_run that resumes or pauses properly preserves IInv.
LEMMA TransitionPreserves ==
    ASSUME IInv, StoreAssumption,
           NEW r \in Runs, NEW target \in RunState,
           NEW resume \in RunState \cup {"NONE"}, NEW clock \in BOOLEAN,
           transition_run(r, target, resume, clock),
           target = "PAUSED" =>
               resume \in WorkStates \cup HUMAN_WAIT_STATES /\ ~clock,
           slot' = slot, commits' = commits,
           \/ snap' = snap
           \/ \E t \in Threads : snap' = [snap EXCEPT ![t] = None]
    PROVE  IInv'
<1> DEFINE ticking == ClockAfter(runs[r].state, target, clock)
           row == [runs[r] EXCEPT !.state = target, !.resume = resume,
                                  !.clock = ticking]
<1>1. runs[r] \in Row /\ Present(r) /\ runs[r].state \in RunState
  BY DEF IInv, TypeOK, Row, transition_run, Present
<1>2. /\ runs[r].state \notin TERMINAL_STATES
      /\ runs[r].state \in HUMAN_WAIT_STATES => target \notin HUMAN_WAIT_STATES
  BY <1>1, AcceptedMoves DEF transition_run
<1>3. ticking \in BOOLEAN
  BY DEF ClockAfter
<1>4. target \in HUMAN_WAIT_STATES \cup {"PAUSED"} => ~ticking
  BY <1>2, StateClasses DEF ClockAfter
<1>5. WriteRow(r, row) /\ logged' = [logged EXCEPT ![r] = target]
  BY DEF transition_run
<1> HIDE DEF ticking
<1>6. /\ row \in Row /\ row.state = target /\ row.resume = resume
      /\ row.clock = ticking /\ row.turn = runs[r].turn
      /\ row.scope = runs[r].scope /\ row.parent = runs[r].parent
      /\ row.conversation = runs[r].conversation
  BY <1>1, <1>3 DEF Row
<1> HIDE DEF row
<1>7. Continues(r, row)
  BY <1>1, <1>2, <1>6 DEF Continues
<1>8. /\ commits' \in [Runs -> Nat]
      /\ \A q \in Runs \ {r} : commits'[q] = commits[q]
      /\ row.turn = commits'[r]
  BY <1>6 DEF IInv, TypeOK, NoLostUpdate
<1> QED
  BY <1>1, <1>4, <1>5, <1>6, <1>7, <1>8, WriteRowPreserves

\* A write of the run's own current row, its turn number apart.
LEMMA RewritePreserves ==
    ASSUME IInv, StoreAssumption,
           NEW r \in Runs, NEW n \in Nat, Present(r),
           WriteRow(r, [runs[r] EXCEPT !.turn = n]),
           slot' = slot, logged' = logged,
           commits' = [commits EXCEPT ![r] = n],
           \/ snap' = snap
           \/ \E t \in Threads : snap' = [snap EXCEPT ![t] = None]
    PROVE  IInv'
<1> DEFINE row == [runs[r] EXCEPT !.turn = n]
<1>1. runs[r] \in Row /\ runs[r].state \in RunState
  BY DEF IInv, TypeOK, Row, Present
<1>2. /\ row \in Row /\ row.state = runs[r].state /\ row.turn = n
      /\ row.resume = runs[r].resume /\ row.clock = runs[r].clock
      /\ row.scope = runs[r].scope /\ row.parent = runs[r].parent
      /\ row.conversation = runs[r].conversation
  BY <1>1 DEF Row
<1>3. WriteRow(r, row)
  OBVIOUS
<1> HIDE DEF row
<1>4. Continues(r, row)
  BY <1>1, <1>2 DEF Continues
<1>5. logged' = [logged EXCEPT ![r] = row.state]
  BY <1>2 DEF IInv, TypeOK, LogTellsState
<1>6. /\ commits' \in [Runs -> Nat]
      /\ \A q \in Runs \ {r} : commits'[q] = commits[q]
      /\ row.turn = commits'[r]
  BY <1>2 DEF IInv, TypeOK
<1>7. /\ row.state = "PAUSED" =>
           row.resume \in WorkStates \cup HUMAN_WAIT_STATES
      /\ row.state \in HUMAN_WAIT_STATES \cup {"PAUSED"} => ~row.clock
  BY <1>2 DEF IInv, PausedIsResumable, ClockStoppedWhileWaiting
<1> QED
  BY <1>3, <1>4, <1>5, <1>6, <1>7, WriteRowPreserves

----------------------------------------------------------------------------
(* Creation.                                                               *)

\* Inserting a run, cancelling the abandoned holder of its slot if there is
\* one.  The last hypothesis is what create_run, CreateConversation and
\* create_terminal_retry establish about the retry slots.
LEMMA InsertPreserves ==
    ASSUME IInv, StoreAssumption,
           NEW r \in Runs, NEW row \in Row, NEW gone \in SUBSET Runs,
           row.state \in {"CREATED", "PREPARING"},
           row.version = 1, row.turn = 0,
           ~Present(r),
           \A a \in gone : Live(a) /\ runs[a].version < MaxVersion,
           OneActive /\ ~row.conversation => ActiveIn(row.scope) \subseteq gone,
           runs' = [q \in Runs |-> IF q = r THEN row
                                   ELSE IF q \in gone THEN CancelledRow(runs[q])
                                   ELSE runs[q]],
           logged' = [q \in Runs |-> IF q = r THEN row.state
                                     ELSE IF q \in gone THEN "CANCELLED"
                                     ELSE logged[q]],
           old' \in SUBSET Runs, snap' = snap, commits' = commits,
           slot' \in [Runs -> [child : Runs, key : Keys] \cup {None}],
           row.parent = None \/ (/\ slot'[row.parent] # None
                                 /\ slot'[row.parent].child = r),
           \A p \in Runs : slot'[p] # slot[p] =>
               slot[p] = None \/ runs[slot[p].child].state \in TERMINAL_STATES
    PROVE  IInv'
<1>0. /\ runs \in [Runs -> Row] /\ logged \in [Runs -> RunState \cup {"ABSENT"}]
      /\ MaxVersion \in Nat /\ None \notin Runs
      /\ snap \in [Threads -> [run : Runs, row : Row] \cup {None}]
  BY DEF IInv, TypeOK, StoreAssumption
<1>1. r \notin gone /\ runs[r].version = 0
  BY DEF Live, Present, IInv, VersionedWhenPresent, AbsentRow
<1>2. \A q \in gone : LET c == CancelledRow(runs[q]) IN
        /\ c \in Row /\ c.state = "CANCELLED"
        /\ c.version = runs[q].version + 1
        /\ c.turn = runs[q].turn /\ c.scope = runs[q].scope
        /\ c.conversation = runs[q].conversation /\ c.parent = runs[q].parent
  <2> SUFFICES ASSUME NEW q \in gone
               PROVE  LET c == CancelledRow(runs[q]) IN
                        /\ c \in Row /\ c.state = "CANCELLED"
                        /\ c.version = runs[q].version + 1
                        /\ c.turn = runs[q].turn /\ c.scope = runs[q].scope
                        /\ c.conversation = runs[q].conversation
                        /\ c.parent = runs[q].parent
    OBVIOUS
  <2>1. runs[q] \in Row /\ runs[q].version < MaxVersion
    BY <1>0
  <2>2. "CANCELLED" \in RunState
    BY StateClasses
  <2>3. runs[q].version \in Nat /\ runs[q].version + 1 \in 0..MaxVersion
    BY <1>0, <2>1 DEF Row
  <2> QED BY <2>1, <2>2, <2>3 DEF CancelledRow, Row
<1>3. /\ runs'[r] = row
      /\ \A q \in gone : runs'[q] = CancelledRow(runs[q])
      /\ \A q \in Runs : q # r /\ q \notin gone => runs'[q] = runs[q]
  BY <1>1
<1>4. TypeOK'
  <2>1. runs' \in [Runs -> Row]
    BY <1>0, <1>2
  <2>2. logged' \in [Runs -> RunState \cup {"ABSENT"}]
    BY <1>0, StateClasses
  <2> QED BY <2>1, <2>2 DEF IInv, TypeOK
<1>5. VersionedWhenPresent'
  <2> SUFFICES ASSUME NEW q \in Runs
               PROVE  IF Present(q)' THEN runs'[q].version > 0
                                     ELSE runs'[q] = AbsentRow
    BY DEF VersionedWhenPresent, AbsentRow
  <2>1. CASE q = r
    BY <2>1, <1>3 DEF Present
  <2>2. CASE q \in gone
    <3>1. runs[q].version \in Nat
      BY <1>0 DEF Row
    <3> QED BY <2>2, <3>1, <1>2, <1>3 DEF Present
  <2>3. CASE q # r /\ q \notin gone
    BY <2>3, <1>3 DEF IInv, VersionedWhenPresent, Present
  <2> QED BY <2>1, <2>2, <2>3
<1>6. FreshOrStale'
  <2> SUFFICES ASSUME NEW t \in Threads, snap[t] # None
               PROVE  /\ snap[t].row.state # "ABSENT"
                      /\ snap[t].row.version > 0
                      /\ snap[t].row.version <= runs'[snap[t].run].version
                      /\ snap[t].row.version = runs'[snap[t].run].version
                           => snap[t].row = runs'[snap[t].run]
    BY DEF FreshOrStale
  <2>1. /\ snap[t].run \in Runs
        /\ snap[t].row.version \in 0..MaxVersion
        /\ runs[snap[t].run].version \in 0..MaxVersion
    BY <1>0 DEF Row
  <2>2. /\ snap[t].row.state # "ABSENT"
        /\ snap[t].row.version > 0
        /\ snap[t].row.version <= runs[snap[t].run].version
        /\ snap[t].row.version = runs[snap[t].run].version
             => snap[t].row = runs[snap[t].run]
    BY DEF IInv, FreshOrStale
  <2>3. snap[t].run # r
    BY <1>0, <1>1, <2>1, <2>2
  <2>4. CASE snap[t].run \in gone
    <3>1. runs'[snap[t].run].version = runs[snap[t].run].version + 1
      BY <1>2, <1>3, <2>4
    <3> QED BY <2>1, <2>2, <3>1
  <2>5. CASE snap[t].run \notin gone
    BY <1>3, <2>1, <2>2, <2>3, <2>5
  <2> QED BY <2>4, <2>5
<1>7. LogTellsState'
  <2> SUFFICES ASSUME NEW q \in Runs PROVE logged'[q] = runs'[q].state
    BY DEF LogTellsState
  <2>1. CASE q = r
    BY <2>1, <1>3
  <2>2. CASE q \in gone
    BY <2>2, <1>1, <1>2, <1>3
  <2>3. CASE q # r /\ q \notin gone
    BY <2>3, <1>3 DEF IInv, LogTellsState
  <2> QED BY <2>1, <2>2, <2>3
<1>8. NoLostUpdate'
  <2> SUFFICES ASSUME NEW q \in Runs PROVE runs'[q].turn = commits[q]
    BY DEF NoLostUpdate
  <2>1. CASE q = r
    <3>1. commits[r] = 0
      BY DEF IInv, NoLostUpdate, VersionedWhenPresent, AbsentRow
    <3> QED BY <2>1, <3>1, <1>3
  <2>2. CASE q \in gone
    BY <2>2, <1>2, <1>3 DEF IInv, NoLostUpdate
  <2>3. CASE q # r /\ q \notin gone
    BY <2>3, <1>3 DEF IInv, NoLostUpdate
  <2> QED BY <2>1, <2>2, <2>3
<1>9. PausedIsResumable' /\ ClockStoppedWhileWaiting'
  <2> SUFFICES ASSUME NEW q \in Runs,
                      runs'[q].state \in HUMAN_WAIT_STATES \cup {"PAUSED"}
               PROVE  /\ runs'[q].state = "PAUSED" =>
                           runs'[q].resume \in WorkStates \cup HUMAN_WAIT_STATES
                      /\ ~runs'[q].clock
    BY DEF PausedIsResumable, ClockStoppedWhileWaiting
  <2>1. q # r
    BY <1>3, StateClasses
  <2>2. q \notin gone
    BY <1>2, <1>3, StateClasses
  <2> QED
    BY <1>3, <2>1, <2>2 DEF IInv, PausedIsResumable, ClockStoppedWhileWaiting
<1>10. \A q \in Runs : q # r /\ Live(q)' =>
         /\ q \notin gone /\ Live(q)
         /\ runs'[q] = runs[q]
  BY <1>2, <1>3, StateClasses DEF Live, Present
<1>11. OneActiveRun'
  <2> SUFFICES ASSUME OneActive, NEW a \in Runs, NEW b \in Runs,
                      Live(a)', ~runs'[a].conversation,
                      Live(b)', ~runs'[b].conversation,
                      runs'[a].scope = runs'[b].scope
               PROVE  a = b
    BY DEF OneActiveRun
  <2>1. ASSUME NEW q \in Runs, q # r, Live(q)', ~runs'[q].conversation,
               ~row.conversation, runs'[q].scope = row.scope
        PROVE  FALSE
    BY <2>1, <1>10 DEF ActiveIn
  <2>2. CASE a # r /\ b # r
    BY <2>2, <1>10 DEF IInv, OneActiveRun
  <2> QED BY <2>1, <2>2, <1>3
<1>12. SupersededChildIsOver'
  <2> SUFFICES ASSUME NEW c \in Runs, NEW p \in Runs,
                      Present(c)', runs'[c].parent = p
               PROVE  \/ slot'[p] # None /\ slot'[p].child = c
                      \/ runs'[c].state \in TERMINAL_STATES
    BY DEF SupersededChildIsOver
  <2>1. CASE c = r
    BY <2>1, <1>0, <1>3
  <2>2. CASE c \in gone
    BY <2>2, <1>2, <1>3, StateClasses
  <2>3. CASE c # r /\ c \notin gone
    <3>1. Present(c) /\ runs[c].parent = p /\ runs'[c] = runs[c]
      BY <2>3, <1>3 DEF Present
    <3>2. \/ slot[p] # None /\ slot[p].child = c
          \/ runs[c].state \in TERMINAL_STATES
      BY <3>1 DEF IInv, SupersededChildIsOver
    <3> QED BY <3>1, <3>2
  <2> QED BY <2>1, <2>2, <2>3
<1> QED
  BY <1>4, <1>5, <1>6, <1>7, <1>8, <1>9, <1>11, <1>12 DEF IInv, CopiesResumable

\* InsertRun, with its two ways of finding the slot free, is an instance.
LEMMA InsertRunPreserves ==
    ASSUME IInv, StoreAssumption,
           NEW r \in Runs, NEW state \in {"CREATED", "PREPARING"},
           NEW scope \in Scopes, NEW parent \in Runs \cup {None},
           InsertRun(r, NewRow(state, scope, FALSE, parent)),
           snap' = snap, commits' = commits,
           slot' \in [Runs -> [child : Runs, key : Keys] \cup {None}],
           parent = None \/ (slot'[parent] # None /\ slot'[parent].child = r),
           \A p \in Runs : slot'[p] # slot[p] =>
               slot[p] = None \/ runs[slot[p].child].state \in TERMINAL_STATES
    PROVE  IInv'
<1> DEFINE row == NewRow(state, scope, FALSE, parent)
<1>0. /\ runs \in [Runs -> Row] /\ logged \in [Runs -> RunState \cup {"ABSENT"}]
      /\ MaxVersion \in Nat \ {0} /\ old \in SUBSET Runs
  BY DEF IInv, TypeOK, StoreAssumption
<1>1. /\ row \in Row /\ row.state = state /\ row.version = 1 /\ row.turn = 0
      /\ row.scope = scope /\ row.parent = parent /\ ~row.conversation
  <2>1. state \in RunState
    BY StateClasses
  <2> HIDE DEF row
  <2>3. LET new == NewRow(state, scope, FALSE, parent) IN
          /\ new \in Row /\ new.state = state
          /\ new.version = 1 /\ new.turn = 0
          /\ new.scope = scope /\ new.parent = parent
          /\ new.conversation = FALSE
    <3>1. 1 \in 0..MaxVersion
      BY <1>0
    <3> QED BY <2>1, <3>1 DEF NewRow, Row
  <2> QED BY <2>3 DEF row
<1>2. InsertRun(r, row)
  OBVIOUS
<1> HIDE DEF row
<1>3. /\ ~Present(r)
      /\ row.state \in {"CREATED", "PREPARING"}
      /\ row.parent = None \/ (/\ slot'[row.parent] # None
                              /\ slot'[row.parent].child = r)
  BY <1>1, <1>2 DEF InsertRun
<1>4. CASE /\ OneActive => ActiveIn(row.scope) = {}
           /\ runs' = [runs EXCEPT ![r] = row]
           /\ logged' = [logged EXCEPT ![r] = row.state]
           /\ old' = old
  <2> DEFINE gone == {}
  <2>1. /\ runs' = [q \in Runs |-> IF q = r THEN row
                                   ELSE IF q \in gone THEN CancelledRow(runs[q])
                                   ELSE runs[q]]
        /\ logged' = [q \in Runs |-> IF q = r THEN row.state
                                     ELSE IF q \in gone THEN "CANCELLED"
                                     ELSE logged[q]]
    BY <1>0, <1>4
  <2>2. /\ gone \in SUBSET Runs
        /\ \A a \in gone : Live(a) /\ runs[a].version < MaxVersion
        /\ OneActive /\ ~row.conversation => ActiveIn(row.scope) \subseteq gone
    BY <1>4
  <2>3. old' \in SUBSET Runs
    BY <1>0, <1>4
  <2> HIDE DEF gone
  <2> QED BY <1>1, <1>3, <2>1, <2>2, <2>3, InsertPreserves
<1>5. ASSUME OneActive, NEW a \in ActiveIn(row.scope), Abandoned(a),
             runs[a].version < MaxVersion,
             runs' = [runs EXCEPT ![r] = row, ![a] = CancelledRow(@)],
             logged' = [logged EXCEPT ![r] = row.state, ![a] = "CANCELLED"],
             old' = old \ {a}
      PROVE  IInv'
  <2> DEFINE gone == {a}
  <2>1. a \in Runs /\ Live(a) /\ a # r
    BY <1>3 DEF ActiveIn, Live
  <2>2. /\ runs' = [q \in Runs |-> IF q = r THEN row
                                   ELSE IF q \in gone THEN CancelledRow(runs[q])
                                   ELSE runs[q]]
        /\ logged' = [q \in Runs |-> IF q = r THEN row.state
                                     ELSE IF q \in gone THEN "CANCELLED"
                                     ELSE logged[q]]
    BY <1>0, <1>5, <2>1
  <2>3. ActiveIn(row.scope) \subseteq gone
    BY <1>5 DEF ActiveIn, IInv, OneActiveRun
  <2>4. /\ gone \in SUBSET Runs
        /\ \A b \in gone : Live(b) /\ runs[b].version < MaxVersion
        /\ old' \in SUBSET Runs
    BY <1>0, <1>5, <2>1
  <2> HIDE DEF gone
  <2> QED BY <1>1, <1>3, <2>2, <2>3, <2>4, InsertPreserves
<1> QED
  BY <1>2, <1>4, <1>5 DEF InsertRun

----------------------------------------------------------------------------
(* The inductive invariant.                                                *)

\* Blank tables satisfy every clause.
LEMMA InitEstablishes == ASSUME StoreAssumption, Init PROVE IInv
<1>1. \A r \in Runs : /\ runs[r] = AbsentRow /\ slot[r] = None
                      /\ logged[r] = "ABSENT" /\ commits[r] = 0
  BY DEF Init
<1>2. AbsentRow \in Row
  BY DEF AbsentRow, Row, Scopes, StoreAssumption
<1>3. TypeOK
  BY <1>2 DEF Init, TypeOK
<1>4. VersionedWhenPresent /\ FreshOrStale /\ CopiesResumable
  BY <1>1 DEF VersionedWhenPresent, FreshOrStale, CopiesResumable, Present, AbsentRow, Init
<1>5. LogTellsState /\ NoLostUpdate
  BY <1>1 DEF LogTellsState, NoLostUpdate, AbsentRow
<1>6. PausedIsResumable /\ ClockStoppedWhileWaiting
  BY <1>1, StateClasses
  DEF PausedIsResumable, ClockStoppedWhileWaiting, AbsentRow
<1>7. OneActiveRun /\ SupersededChildIsOver
  BY <1>1 DEF OneActiveRun, SupersededChildIsOver, Live, Present, AbsentRow
<1> QED BY <1>3, <1>4, <1>5, <1>6, <1>7 DEF IInv

\* Every action preserves it.
LEMMA StepPreserves == ASSUME StoreAssumption, IInv, [Next]_vars PROVE IInv'
<1>1. ASSUME NEW r \in Runs, NEW target \in RunState, Transition(r, target)
      PROVE  IInv'
  <2>1. runs[r].resume \in RunState \cup {"NONE"} /\ runs[r].clock \in BOOLEAN
    BY DEF IInv, TypeOK, Row
  <2> QED BY <1>1, <2>1, TransitionPreserves DEF Transition
<1>2. ASSUME NEW r \in Runs, reset_methodology_revision_budget(r)
      PROVE  IInv'
  <2>1. /\ runs[r] \in Row /\ commits[r] \in Nat /\ runs[r].turn = commits[r]
        /\ commits' = [commits EXCEPT ![r] = commits[r]]
    BY <1>2 DEF IInv, TypeOK, NoLostUpdate, reset_methodology_revision_budget
  <2>2. runs[r] = [runs[r] EXCEPT !.turn = commits[r]]
    BY <2>1 DEF Row
  <2> QED
    BY <1>2, <2>1, <2>2, RewritePreserves DEF reset_methodology_revision_budget
<1>3. ASSUME NEW r \in Runs, NEW scope \in Scopes, create_run(r, scope)
      PROVE  IInv'
  <2>1. slot' = slot /\ slot \in [Runs -> [child : Runs, key : Keys] \cup {None}]
    BY <1>3 DEF IInv, TypeOK, create_run
  <2> QED BY <1>3, <2>1, InsertRunPreserves DEF create_run
<1>4. ASSUME NEW r \in Runs, CreateConversation(r)
      PROVE  IInv'
  <2> DEFINE row == NewRow("CREATED", NoInvestigation, TRUE, None)
             gone == {}
  <2>1. /\ runs \in [Runs -> Row] /\ MaxVersion \in Nat \ {0}
        /\ logged \in [Runs -> RunState \cup {"ABSENT"}]
        /\ 1 \in 0..MaxVersion
    BY DEF IInv, TypeOK, StoreAssumption
  <2>2. /\ row \in Row /\ row.state = "CREATED" /\ row.version = 1
        /\ row.turn = 0 /\ row.parent = None /\ row.conversation
    BY <2>1, StateClasses DEF NewRow, Row, Scopes
  <2>3. /\ ~Present(r) /\ snap' = snap /\ commits' = commits
        /\ slot' = slot /\ slot \in [Runs -> [child : Runs, key : Keys] \cup {None}]
        /\ old' \in SUBSET Runs
        /\ runs' = [runs EXCEPT ![r] = row]
        /\ logged' = [logged EXCEPT ![r] = "CREATED"]
    BY <1>4 DEF CreateConversation, IInv, TypeOK
  <2> HIDE DEF row
  <2>4. /\ runs' = [q \in Runs |-> IF q = r THEN row
                                   ELSE IF q \in gone THEN CancelledRow(runs[q])
                                   ELSE runs[q]]
        /\ logged' = [q \in Runs |-> IF q = r THEN row.state
                                     ELSE IF q \in gone THEN "CANCELLED"
                                     ELSE logged[q]]
        /\ gone \in SUBSET Runs
        /\ \A a \in gone : Live(a) /\ runs[a].version < MaxVersion
    BY <2>1, <2>2, <2>3
  <2> HIDE DEF gone
  <2> QED BY <2>2, <2>3, <2>4, InsertPreserves
<1>5. ASSUME NEW r \in Runs, NEW p \in Runs, NEW key \in Keys,
             create_terminal_retry(p, r, key)
      PROVE  IInv'
  <2>1. slot \in [Runs -> [child : Runs, key : Keys] \cup {None}]
    BY DEF IInv, TypeOK
  <2>2. slot' = [slot EXCEPT ![p] = [child |-> r, key |-> key]]
    BY <1>5 DEF create_terminal_retry
  <2>3. /\ slot' \in [Runs -> [child : Runs, key : Keys] \cup {None}]
        /\ slot'[p] = [child |-> r, key |-> key]
        /\ \A q \in Runs \ {p} : slot'[q] = slot[q]
    BY <2>1, <2>2
  <2>4. [child |-> r, key |-> key] # None
    BY DEF StoreAssumption
  <2>5. slot[p] = None \/ runs[slot[p].child].state \in TERMINAL_STATES
    BY <1>5 DEF create_terminal_retry, RetryAnswered
  <2>6. NoInvestigation \in Scopes
    BY DEF Scopes
  <2> QED
    BY <1>5, <2>3, <2>4, <2>5, <2>6, InsertRunPreserves
    DEF create_terminal_retry
<1>6. ASSUME NEW r \in Runs, GrowOld(r)
      PROVE  IInv'
  BY <1>6
  DEF GrowOld, IInv, TypeOK, VersionedWhenPresent, FreshOrStale, CopiesResumable,
      LogTellsState, NoLostUpdate, PausedIsResumable, ClockStoppedWhileWaiting, OneActiveRun,
      SupersededChildIsOver, Live, Present
<1>7. ASSUME NEW t \in Threads, NEW r \in Runs, get_run(t, r)
      PROVE  IInv'
  <2>1. /\ Present(r) /\ runs[r] \in Row
        /\ UNCHANGED <<runs, slot, logged, old, commits>>
        /\ snap' = [snap EXCEPT ![t] = [run |-> r, row |-> runs[r]]]
    BY <1>7 DEF get_run, IInv, TypeOK
  <2>2. TypeOK'
    BY <2>1 DEF IInv, TypeOK
  <2>3. FreshOrStale'
    <3> SUFFICES ASSUME NEW u \in Threads, snap'[u] # None
                 PROVE  LET mine == snap'[u].row IN
                          /\ mine.state # "ABSENT"
                          /\ mine.version > 0
                          /\ mine.version <= runs[snap'[u].run].version
                          /\ mine.version = runs[snap'[u].run].version
                               => mine = runs[snap'[u].run]
      BY <2>1 DEF FreshOrStale
    <3>1. CASE u = t
      <4>1. snap'[u] = [run |-> r, row |-> runs[r]]
        BY <2>1, <3>1 DEF IInv, TypeOK
      <4>2. runs[r].version \in Nat /\ runs[r].version > 0
        BY <2>1 DEF IInv, VersionedWhenPresent, Row
      <4> QED BY <2>1, <4>1, <4>2 DEF Present
    <3>2. CASE u # t
      BY <2>1, <3>2 DEF IInv, TypeOK, FreshOrStale
    <3> QED BY <3>1, <3>2
  <2>4. CopiesResumable'
    BY <2>1 DEF IInv, TypeOK, CopiesResumable, PausedIsResumable
  <2> QED
    BY <2>1, <2>2, <2>3, <2>4
    DEF IInv, VersionedWhenPresent, LogTellsState, NoLostUpdate,
        PausedIsResumable, ClockStoppedWhileWaiting, OneActiveRun,
        SupersededChildIsOver, Live, Present
<1>8. ASSUME NEW t \in Threads, replace_run(t)
      PROVE  IInv'
  <2> DEFINE r == snap[t].run
  <2>1. /\ r \in Runs /\ snap[t].row = runs[r] /\ runs[r] \in Row
        /\ Present(r)
    BY <1>8 DEF replace_run, IInv, TypeOK, FreshOrStale, Present
  <2>2. /\ commits[r] + 1 \in Nat /\ runs[r].turn = commits[r]
    BY <2>1 DEF IInv, TypeOK, NoLostUpdate
  <2>3. /\ WriteRow(r, [runs[r] EXCEPT !.turn = commits[r] + 1])
        /\ commits' = [commits EXCEPT ![r] = commits[r] + 1]
        /\ snap' = [snap EXCEPT ![t] = None]
        /\ slot' = slot /\ logged' = logged
    BY <1>8, <2>1, <2>2 DEF replace_run
  <2> HIDE DEF r
  <2> QED BY <2>1, <2>2, <2>3, RewritePreserves
<1>9. ASSUME NEW t \in Threads, pause_run(t)
      PROVE  IInv'
  <2>1. /\ snap[t].run \in Runs
        /\ snap[t].row.state \in WorkStates \cup HUMAN_WAIT_STATES
    BY <1>9, StateClasses DEF pause_run, IInv, TypeOK, FreshOrStale, Row
  <2>2. /\ transition_run(snap[t].run, "PAUSED", snap[t].row.state, FALSE)
        /\ snap' = [snap EXCEPT ![t] = None]
        /\ slot' = slot /\ commits' = commits
    BY <1>9 DEF pause_run
  <2>3. snap[t].row.state \in RunState \cup {"NONE"}
    BY <2>1, StateClasses
  <2> QED BY <2>1, <2>2, <2>3, StateClasses, TransitionPreserves
<1>10. ASSUME NEW t \in Threads, resume_run(t)
       PROVE  IInv'
  <2>1. /\ snap[t].run \in Runs /\ snap[t].row.resume \in RunState
    BY <1>10 DEF resume_run, IInv, TypeOK, Row
  <2>2. /\ transition_run(snap[t].run, snap[t].row.resume, "NONE", TRUE)
        /\ snap' = [snap EXCEPT ![t] = None]
        /\ slot' = slot /\ commits' = commits
    BY <1>10 DEF resume_run
  <2>3. snap[t].row.resume # "PAUSED"
    BY <1>10, StateClasses DEF resume_run, IInv, CopiesResumable
  <2> QED BY <2>1, <2>2, <2>3, TransitionPreserves
<1>11. ASSUME NEW t \in Threads, GiveUp(t)
       PROVE  IInv'
  <2>1. /\ UNCHANGED <<runs, slot, logged, old, commits>>
        /\ snap' = [snap EXCEPT ![t] = None]
    BY <1>11 DEF GiveUp
  <2>2. TypeOK' /\ FreshOrStale' /\ CopiesResumable'
    BY <2>1 DEF IInv, TypeOK, FreshOrStale, CopiesResumable
  <2> QED
    BY <2>1, <2>2
    DEF IInv, VersionedWhenPresent, LogTellsState, NoLostUpdate,
        PausedIsResumable, ClockStoppedWhileWaiting, OneActiveRun,
        SupersededChildIsOver, Live, Present
<1>12. ASSUME UNCHANGED vars
       PROVE  IInv'
  BY <1>12
  DEF vars, IInv, TypeOK, VersionedWhenPresent, FreshOrStale, CopiesResumable,
      LogTellsState, NoLostUpdate, PausedIsResumable, ClockStoppedWhileWaiting, OneActiveRun,
      SupersededChildIsOver, Live, Present
<1> QED
  BY <1>1, <1>2, <1>3, <1>4, <1>5, <1>6, <1>7, <1>8, <1>9, <1>10, <1>11, <1>12
  DEF Next

\* The inductive invariant holds of every behaviour of the run table.
THEOREM Invariance == Spec => []IInv
<1>1. Init => IInv
  BY StoreAssumption, InitEstablishes
<1>2. IInv /\ [Next]_vars => IInv'
  BY StoreAssumption, StepPreserves
<1> QED BY <1>1, <1>2, PTL DEF Spec

----------------------------------------------------------------------------
(* The results.                                                            *)

\* Every row, copy, retry slot and log entry keeps its type.
THEOREM TypeCorrect == Spec => []TypeOK
<1>1. IInv => TypeOK
  BY DEF IInv
<1> QED BY <1>1, Invariance, PTL

\* create_run and create_terminal_retry never leave two live runs in one
\* investigation, for any number of runs, callers and stale copies.
THEOREM AtMostOneActiveRun == Spec => []OneActiveRun
<1>1. IInv => OneActiveRun
  BY DEF IInv
<1> QED BY <1>1, Invariance, PTL

\* No committed turn number is overwritten from a stale copy: the version
\* check of replace_run is enough.
THEOREM CopiesNeverOverwrite == Spec => []NoLostUpdate
<1>1. IInv => NoLostUpdate
  BY DEF IInv
<1> QED BY <1>1, Invariance, PTL

\* The newest state-bearing event of a run always tells its stored state:
\* transition_run writes both at once, and replace_run, which appends no
\* event, is accepted only with the state that is stored.
THEOREM LogIsTrue == Spec => []LogTellsState
<1>1. IInv => LogTellsState
  BY DEF IInv
<1> QED BY <1>1, Invariance, PTL

\* A paused run always has a phase or a gate to be resumed to, although
\* pause_run saves the state of its own, possibly stale, read.
THEOREM PausedRunsResume == Spec => []PausedIsResumable
<1>1. IInv => PausedIsResumable
  BY DEF IInv
<1> QED BY <1>1, Invariance, PTL

\* A waiting or paused run is never charged for the time it waits
\* (transition_run closes the runtime clock in the same write).
THEOREM WaitingIsFree == Spec => []ClockStoppedWhileWaiting
<1>1. IInv => ClockStoppedWhileWaiting
  BY DEF IInv
<1> QED BY <1>1, Invariance, PTL

\* Only the newest retry of a failed run can be live.
THEOREM OneLiveRetry == Spec => []SupersededChildIsOver
<1>1. IInv => SupersededChildIsOver
  BY DEF IInv
<1> QED BY <1>1, Invariance, PTL

\* No write, fresh or stale, reopens a terminal run.
THEOREM TerminalStays == Spec => TerminalForever
<1> DEFINE Stays == \A r \in Runs : runs[r].state \in TERMINAL_STATES =>
                                       runs'[r].state = runs[r].state
<1>1. ASSUME IInv, Next PROVE Stays
  <2> SUFFICES ASSUME NEW r \in Runs, runs[r].state \in TERMINAL_STATES
               PROVE  runs'[r].state = runs[r].state
    OBVIOUS
  <2>1. /\ runs \in [Runs -> Row] /\ runs[r] \in Row /\ Present(r) /\ ~Live(r)
        /\ runs[r].state \in RunState
    BY <1>1, StateClasses DEF IInv, TypeOK, Present, Live
  <2>2. ASSUME NEW q \in Runs, NEW target, NEW resume, NEW clock,
               transition_run(q, target, resume, clock)
        PROVE  runs'[r] = runs[r]
    <3>1. runs[q].state \in RunState
      BY <1>1, <2>2 DEF transition_run, Present, IInv, TypeOK, Row
    <3>2. q # r
      BY <2>2, <3>1, AcceptedMoves DEF transition_run
    <3> QED BY <2>1, <2>2, <3>2 DEF transition_run, WriteRow
  <2>3. ASSUME NEW q \in Runs, NEW row, InsertRun(q, row)
        PROVE  runs'[r] = runs[r]
    BY <2>1, <2>3 DEF InsertRun, ActiveIn
  <2>4. ASSUME NEW t \in Threads, replace_run(t)
        PROVE  runs'[r].state = runs[r].state
    <3>1. snap[t].run \in Runs /\ snap[t].row = runs[snap[t].run]
      BY <1>1, <2>4 DEF replace_run, IInv, TypeOK, FreshOrStale
    <3> QED BY <2>1, <2>4, <3>1 DEF replace_run, WriteRow, Row
  <2>5. ASSUME NEW q \in Runs, reset_methodology_revision_budget(q)
        PROVE  runs'[r].state = runs[r].state
    BY <2>1, <2>5 DEF reset_methodology_revision_budget, WriteRow, Row
  <2>6. ASSUME NEW q \in Runs, CreateConversation(q)
        PROVE  runs'[r] = runs[r]
    BY <2>1, <2>6 DEF CreateConversation
  <2>7. ASSUME NEW t \in Threads, pause_run(t) \/ resume_run(t)
        PROVE  runs'[r] = runs[r]
    <3>1. snap[t].run \in Runs
      BY <1>1, <2>7 DEF pause_run, resume_run, IInv, TypeOK
    <3> QED BY <2>2, <2>7, <3>1 DEF pause_run, resume_run
  <2> QED
    BY <1>1, <2>2, <2>3, <2>4, <2>5, <2>6, <2>7
    DEF Next, Transition, create_run, create_terminal_retry, GrowOld, get_run,
        GiveUp
<1>2. IInv /\ [Next]_vars => [Stays]_vars
  BY <1>1
<1> QED BY <1>2, Invariance, PTL DEF Spec, TerminalForever
=============================================================================
