-------------------------- MODULE SubmissionProofs --------------------------
(***************************************************************************)
(* The properties of Submission, for every number of handlers, keys and    *)
(* runs and every bound on faults and restarts.                            *)
(*                                                                         *)
(* The argument: memory binds a key to one run only, because save_run      *)
(* checks under the lock; what is on disk, or in a copy on its way there,  *)
(* was in memory before and binds the same keys; and the handler that      *)
(* creates a run's Job is the only one to do so, after its own flush.      *)
(***************************************************************************)
EXTENDS Submission, TLAPS

Store == [Runs -> RunRecord \cup {None}]

Handler ==
    [pc : Pcs, run : 0..MaxRuns, key : Keys \cup {None},
     copy : RunRecord \cup {None}, snap : Store \cup {None},
     then : {"idle", "submit", "answer"}]

\* x is a POST that has found its key free and has not yet asked for its Job.
Creating(x) ==
    \/ h[x].pc \in {"save", "submit"}
    \/ h[x].pc \in {"flush", "write"} /\ h[x].then = "submit"

\* x is a POST that has created its Job and not flushed its receipt.
Receiving(x) ==
    \/ h[x].pc = "record"
    \/ h[x].pc \in {"flush", "write"} /\ h[x].then = "answer"

\* x is a POST past its first save.
Posting(x) ==
    \/ h[x].pc \in {"submit", "record", "answer"}
    \/ h[x].pc \in {"flush", "write"} /\ h[x].then \in {"submit", "answer"}

\* Whatever a copy of the store holds is in memory, under the same key.
Within(copy) ==
    \A i \in Runs : copy[i] # None => mem[i] # None /\ mem[i].key = copy[i].key

Off == {"deleting", "gone"}

\* The Job of a run marked cancelled in a copy of the store is deleted.
CancelledOff(copy) ==
    \A i \in Runs : copy[i] # None /\ copy[i].status = "cancelled" => job[i] \in Off

\* The runner of run i is at work, and no receipt of the run was lost.
Working(i) == job[i] = "active" /\ i \notin bundle /\ i \notin detached

Recorded(i) == disk[i] # None \/ i \in erased

\* A POST: what it saved is there, and its Job is not until it is on disk.
PostOK(x) ==
    /\ h[x].pc = "save" => /\ h[x].run \in 1..made /\ h[x].key \in Keys
                           /\ mem[h[x].run] = None
    /\ Creating(x) => h[x].run \in Runs /\ job[h[x].run] = "none"
    /\ Posting(x) => /\ h[x].run \in Runs /\ mem[h[x].run] # None
                     /\ mem[h[x].run].key = h[x].key
    /\ h[x].pc = "submit" => Recorded(h[x].run)
    /\ Receiving(x) => job[h[x].run] # "none"
    /\ Receiving(x) /\ h[x].pc # "record" /\ Working(h[x].run) => HasReceipt(mem[h[x].run])

\* A flush: its copy is one of an earlier memory.
WriteOK(x) ==
    h[x].pc = "write" =>
       /\ h[x].snap \in Store
       /\ Within(h[x].snap) /\ CancelledOff(h[x].snap)
       /\ h[x].then = "submit" => h[x].snap[h[x].run] # None
       /\ h[x].then = "answer" /\ Working(h[x].run) => HasReceipt(h[x].snap[h[x].run])

\* A cancel past its first read, and a save of results.
CancelOK(x) ==
    /\ h[x].pc \in {"live", "delete", "cancel"} => h[x].run \in Runs /\ mem[h[x].run] # None
    /\ h[x].pc = "delete" => job[h[x].run] # "none"
    /\ h[x].pc = "cancel" => job[h[x].run] \in Off
    /\ h[x].pc \in {"ingest", "results"} =>
          /\ h[x].run \in Runs /\ mem[h[x].run] # None
          /\ h[x].copy \in RunRecord /\ h[x].copy.status = "over"
          /\ h[x].copy.key = mem[h[x].run].key
    /\ h[x].pc = "ingest" => h[x].run \in bundle

HandlerOK(x) == PostOK(x) /\ WriteOK(x) /\ CancelOK(x)

HandlersOK == \A x \in Handlers : HandlerOK(x)

\* A run's Job is created by one handler.
OneCreator ==
    \A x, y \in Handlers :
       Creating(x) /\ Creating(y) /\ h[x].run = h[y].run => x = y

\* Memory binds a key to one run.
OneRunPerKey ==
    \A i, j \in Runs : mem[i] # None /\ mem[j] # None /\ mem[i].key = mem[j].key => i = j

\* A run id not handed out yet has neither a record nor a Job.
Numbered == \A i \in Runs : mem[i] # None \/ job[i] # "none" => i <= made

\* A terminal bundle is written by a Job.
BundleIsOver == \A i \in bundle : job[i] # "none"

\* A run told to a caller has a record under the caller's key, unless lost.
Answered ==
    \A k \in Keys : \A i \in told[k] \ lost : mem[i] # None /\ mem[i].key = k

\* The receipt of a working Job is on disk, or its POST has still to flush it.
Durable == \A i \in Runs : Working(i) => HasReceipt(disk[i]) \/ Recording(i)

\* What holds of the records, whatever the handlers do.
StoreOK ==
    /\ OneRunPerKey
    /\ Within(disk)
    /\ CancelledOff(disk)
    /\ CancelledOff(mem)
    /\ Numbered
    /\ BundleIsOver
    /\ Answered
    /\ JobHasRecord

\* The inductive invariant.
IInv ==
    /\ TypeOK /\ StoreOK /\ HandlersOK /\ OneCreator
    /\ WorkingJobHasReceipt /\ Durable

----------------------------------------------------------------------------
(* What the other handlers see of a step.                                  *)

\* The records, Jobs and bundles only ever progress: a record keeps its key, a
\* Job once created stays created and once deleted stays so, what was on disk
\* is there or known to be erased, and a working Job keeps its receipt.
Progress ==
    /\ made' \in Nat /\ made <= made'
    /\ \A i \in Runs :
          /\ mem[i] # None => mem'[i] # None /\ mem'[i].key = mem[i].key
          /\ job[i] # "none" => job'[i] # "none"
          /\ job[i] \in Off => job'[i] \in Off
          /\ Recorded(i) => Recorded(i)'
          /\ i \in bundle => i \in bundle'
          /\ Working(i)' /\ job[i] # "none" => Working(i)
          /\ Working(i)' /\ HasReceipt(mem[i]) => HasReceipt(mem'[i])

\* A handler that does not move keeps its invariant through the progress of
\* the others, if none of them saves or submits the run it is creating.
LEMMA Frame ==
    ASSUME IInv, NEW y \in Handlers, h'[y] = h[y], Progress,
           h[y].pc = "save" => mem'[h[y].run] = None,
           Creating(y) => job'[h[y].run] = job[h[y].run]
    PROVE  HandlerOK(y)' /\ (Creating(y)' <=> Creating(y))
<1>1. HandlerOK(y) /\ made \in 0..MaxRuns
  BY DEF IInv, HandlersOK, TypeOK
<1>2. Creating(y)' <=> Creating(y)
  BY DEF Creating
<1>3. Posting(y)' <=> Posting(y)
  BY DEF Posting
<1>r. /\ Receiving(y)' <=> Receiving(y)
      /\ Receiving(y) => Posting(y)
  BY DEF Receiving, Posting
<1>4. PostOK(y)'
  BY <1>1, <1>2, <1>3, <1>r, SubmissionAssumption DEF HandlerOK, PostOK, Progress, Runs, Recorded, Creating
<1>5. WriteOK(y)'
  <2>1. h[y].pc = "write" /\ h[y].then = "answer" =>
           h[y].run \in Runs /\ job[h[y].run] # "none"
    BY <1>1 DEF HandlerOK, PostOK, Receiving, Posting
  <2>2. h[y].pc = "write" /\ h[y].then = "answer" /\ Working(h[y].run)' => Working(h[y].run)
    BY <2>1 DEF Progress
  <2> QED
    BY <1>1, <2>2 DEF HandlerOK, WriteOK, Progress, Within, CancelledOff, Store
<1>6. CancelOK(y)'
  BY <1>1 DEF HandlerOK, CancelOK, Progress
<1> QED BY <1>2, <1>4, <1>5, <1>6 DEF HandlerOK

\* When one handler moves, the invariants of all follow from its own.
LEMMA OthersOK ==
    ASSUME IInv, NEW x \in Handlers, Progress,
           \A y \in Handlers \ {x} : h'[y] = h[y],
           \A y \in Handlers \ {x} :
              /\ h[y].pc = "save" => mem'[h[y].run] = None
              /\ Creating(y) => job'[h[y].run] = job[h[y].run],
           HandlerOK(x)',
           \A y \in Handlers \ {x} :
              Creating(x)' /\ Creating(y) => h'[x].run # h[y].run
    PROVE  HandlersOK' /\ OneCreator'
<1>1. ASSUME NEW y \in Handlers \ {x}
      PROVE  HandlerOK(y)' /\ (Creating(y)' <=> Creating(y))
  BY Frame
<1>2. HandlersOK'
  BY <1>1 DEF HandlersOK
<1>3. OneCreator
  BY DEF IInv
<1>4. OneCreator'
  <2> SUFFICES ASSUME NEW y \in Handlers, NEW z \in Handlers,
                      Creating(y)', Creating(z)', h'[y].run = h'[z].run
               PROVE  y = z
    BY DEF OneCreator
  <2>1. CASE y # x /\ z # x
    BY <2>1, <1>1, <1>3 DEF OneCreator
  <2>2. CASE y = x /\ z # x
    BY <2>2, <1>1
  <2>3. CASE y # x /\ z = x
    BY <2>3, <1>1
  <2> QED BY <2>1, <2>2, <2>3
<1> QED BY <1>2, <1>4

\* A step that changes no record, Job or bundle but the handler's own state.
LEMMA StoreUnchanged ==
    ASSUME IInv, UNCHANGED <<store, cluster, made, lost, detached, erased>>
    PROVE  /\ told' = told => StoreOK'
           /\ Progress
BY DEF IInv, StoreOK, TypeOK, store, cluster, history, OneRunPerKey, Within, CancelledOff,
       Numbered, BundleIsOver, Answered, JobHasRecord, Progress, Recorded, Working

\* A handler with nothing to do.
LEMMA IdleOK ==
    ASSUME NEW x \in Handlers, h[x].pc = "idle"
    PROVE  HandlerOK(x) /\ ~Creating(x)
BY DEF HandlerOK, PostOK, WriteOK, CancelOK, Creating, Posting, Receiving

\* What types the steps' pieces have.
LEMMA Types ==
    ASSUME IInv
    PROVE  /\ h \in [Handlers -> Handler]
           /\ mem \in Store /\ disk \in Store
           /\ Idle \in Handler
<1>1. 0 \in 0..MaxRuns
  BY SubmissionAssumption
<1> QED
  BY <1>1 DEF IInv, TypeOK, Handler, Store, Idle, Pcs

----------------------------------------------------------------------------
(* One lemma per action.                                                   *)

\* The copy a flush takes is what memory holds.
LEMMA FlushCopyOK ==
    ASSUME IInv, NEW x \in Handlers, FlushCopy(x)
    PROVE  IInv'
<1>1. /\ h'[x].pc = "write" /\ h'[x].snap = mem /\ h[x].pc = "flush"
      /\ h'[x].run = h[x].run /\ h'[x].key = h[x].key /\ h'[x].then = h[x].then
      /\ \A y \in Handlers \ {x} : h'[y] = h[y]
      /\ h' \in [Handlers -> Handler]
  BY Types DEF FlushCopy, Handler, Pcs
<1>2. UNCHANGED <<store, cluster, made, history, faults, crashes>>
  BY DEF FlushCopy
<1>3. TypeOK'
  BY <1>1, <1>2 DEF IInv, TypeOK, Handler, Store, store, cluster, history
<1>4. StoreOK' /\ Progress
  BY <1>2, StoreUnchanged DEF history
<1>5. /\ Creating(x)' <=> Creating(x)
      /\ Posting(x)' <=> Posting(x)
      /\ Receiving(x)' <=> Receiving(x)
  BY <1>1 DEF Creating, Posting, Receiving
<1>w. \A i : Working(i)' <=> Working(i)
  BY <1>2 DEF Working, cluster, history
<1>6. HandlerOK(x)'
  <2>1. HandlerOK(x) /\ CancelledOff(mem) /\ mem \in Store
    BY Types DEF IInv, HandlersOK, StoreOK
  <2>2. PostOK(x)'
    BY <1>1, <1>2, <1>5, <1>w, <2>1 DEF HandlerOK, PostOK, Recorded, store, cluster, history
  <2>3. WriteOK(x)'
    BY <1>1, <1>2, <1>w, <2>1
    DEF HandlerOK, PostOK, Posting, Receiving, WriteOK, Within, CancelledOff, store, cluster, history
  <2>4. CancelOK(x)'
    BY <1>1 DEF CancelOK
  <2> QED BY <2>2, <2>3, <2>4 DEF HandlerOK
<1>7. HandlersOK' /\ OneCreator'
  <2>1. \A y \in Handlers \ {x} :
           Creating(x)' /\ Creating(y) => h'[x].run # h[y].run
    BY <1>1, <1>5 DEF IInv, OneCreator
  <2>2. \A y \in Handlers \ {x} :
           /\ h[y].pc = "save" => mem'[h[y].run] = None
           /\ Creating(y) => job'[h[y].run] = job[h[y].run]
    BY <1>2 DEF IInv, HandlersOK, HandlerOK, PostOK, store, cluster, history
  <2> QED BY <1>1, <1>4, <1>6, <2>1, <2>2, OthersOK
<1>8. WorkingJobHasReceipt'
  BY <1>1, <1>2 DEF IInv, WorkingJobHasReceipt, store, cluster, history
<1>9. Durable'
  <2>1. \A i \in Runs : Recording(i) => Recording(i)'
    BY <1>1 DEF Recording
  <2> QED BY <1>2, <1>w, <2>1 DEF IInv, Durable, store
<1> QED BY <1>3, <1>4, <1>7, <1>8, <1>9 DEF IInv

\* Steps that only change what a handler is about to do, hand out a run id or
\* answer a request.
LEMMA QuietStep ==
    ASSUME IInv, NEW x \in Handlers,
           UNCHANGED <<store, cluster, lost, detached, erased>>,
           made' \in 0..MaxRuns, made <= made',
           \A y \in Handlers \ {x} : h'[y] = h[y],
           TypeOK', Answered', HandlerOK(x)', ~Receiving(x),
           \A y \in Handlers \ {x} :
              Creating(x)' /\ Creating(y) => h'[x].run # h[y].run
    PROVE  IInv'
<1> USE DEF store, cluster, history
<1>1. made \in 0..MaxRuns
  BY DEF IInv, TypeOK
<1>2. Progress
  BY <1>1, SubmissionAssumption DEF Progress, Recorded, Working
<1>3. StoreOK'
  BY <1>1, SubmissionAssumption
  DEF IInv, StoreOK, OneRunPerKey, Within, CancelledOff, Numbered, BundleIsOver,
      JobHasRecord, Runs
<1>4. \A y \in Handlers \ {x} :
         /\ h[y].pc = "save" => mem'[h[y].run] = None
         /\ Creating(y) => job'[h[y].run] = job[h[y].run]
  BY DEF IInv, HandlersOK, HandlerOK, PostOK
<1>5. HandlersOK' /\ OneCreator'
  BY <1>2, <1>4, OthersOK
<1>6. WorkingJobHasReceipt'
  BY DEF IInv, WorkingJobHasReceipt, Receiving
<1>7. Durable'
  <2>1. \A i \in Runs : Recording(i) => Recording(i)'
    BY DEF Recording, Receiving
  <2> QED BY <2>1 DEF IInv, Durable, Working
<1> QED BY <1>3, <1>5, <1>6, <1>7 DEF IInv

\* A save of another route carries a copy of all runs.
LEMMA OtherSaveOK ==
    ASSUME IInv, NEW x \in Handlers, OtherSave(x)
    PROVE  IInv'
<1>1. /\ h'[x] = [Idle EXCEPT !.pc = "flush"] /\ h[x].pc = "idle"
      /\ \A y \in Handlers \ {x} : h'[y] = h[y]
      /\ h' \in [Handlers -> Handler]
  BY Types DEF OtherSave, GoFlush, Handler, Pcs
<1>2. UNCHANGED <<store, cluster, made, history, faults, crashes>>
  BY DEF OtherSave
<1>3. h'[x].pc = "flush" /\ h'[x].then = "idle"
  BY <1>1 DEF Idle
<1>4. TypeOK' /\ made \in 0..MaxRuns
  BY <1>1, <1>2 DEF IInv, TypeOK, Handler, Store, store, cluster, history
<1>5. HandlerOK(x)' /\ ~Creating(x)'
  BY <1>3 DEF HandlerOK, PostOK, WriteOK, CancelOK, Creating, Posting, Receiving
<1>6. Answered'
  BY <1>2 DEF IInv, StoreOK, Answered, store, history
<1> QED
  BY <1>1, <1>2, <1>4, <1>5, <1>6, QuietStep DEF Receiving, history

\* A POST that finds a record under its key answers with it.
LEMMA PostLookupOK ==
    ASSUME IInv, NEW x \in Handlers, NEW k \in Keys, PostLookup(x, k)
    PROVE  IInv'
<1>1. h[x].pc = "idle" /\ UNCHANGED <<store, cluster, lost, detached, erased, faults, crashes>>
  BY DEF PostLookup
<1>2. made \in 0..MaxRuns /\ MaxRuns \in Nat
  BY SubmissionAssumption DEF IInv, TypeOK
<1>3. HandlerOK(x) /\ ~Creating(x)
  BY <1>1, IdleOK
<1>4. CASE \E i \in Bound(k) : Answer(k, i) /\ UNCHANGED <<h, made>>
  <2>1. PICK i \in Bound(k) : Answer(k, i) /\ UNCHANGED <<h, made>>
    BY <1>4
  <2>2. i \in Runs /\ mem[i] # None /\ mem[i].key = k
    BY DEF Bound
  <2>3. told \in [Keys -> SUBSET Runs]
    BY DEF IInv, TypeOK
  <2>4. /\ told' \in [Keys -> SUBSET Runs]
        /\ \A q \in Keys : told'[q] \subseteq told[q] \cup (IF q = k THEN {i} ELSE {})
    BY <2>1, <2>2, <2>3 DEF Answer
  <2>5. Answered'
    BY <1>1, <2>2, <2>4 DEF IInv, StoreOK, Answered, store
  <2>6. TypeOK'
    BY <1>1, <2>1, <2>4 DEF IInv, TypeOK, store, cluster, history
  <2>7. HandlerOK(x)' /\ ~Creating(x)'
    BY <1>1, <1>3, <2>1
    DEF HandlerOK, PostOK, WriteOK, CancelOK, Creating, Posting, Receiving
  <2> QED
    BY <1>1, <1>2, <2>1, <2>5, <2>6, <2>7, QuietStep DEF Receiving, history
<1>5. CASE /\ made < MaxRuns /\ made' = made + 1 /\ told' = told
           /\ h' = [h EXCEPT ![x] = [Idle EXCEPT !.pc = "save", !.run = made + 1,
                                                 !.key = k]]
  <2> DEFINE new == [Idle EXCEPT !.pc = "save", !.run = made + 1, !.key = k]
  <2>1. made + 1 \in 0..MaxRuns /\ made + 1 \in Runs /\ made + 1 \in 1..made'
    BY <1>2, <1>5 DEF Runs
  <2>2. /\ new \in Handler
        /\ new.pc = "save" /\ new.run = made + 1 /\ new.key = k
        /\ new.then = "idle"
    BY <2>1, Types DEF Handler, Pcs, Idle
  <2>3. /\ h'[x] = new
        /\ \A y \in Handlers \ {x} : h'[y] = h[y]
        /\ h' \in [Handlers -> Handler]
    BY <1>5, <2>2, Types
  <2> HIDE DEF new
  <2>4. mem[made + 1] = None /\ job[made + 1] = "none"
    BY <1>2, <2>1 DEF IInv, StoreOK, Numbered
  <2>5. TypeOK'
    BY <1>1, <1>5, <2>1, <2>3 DEF IInv, TypeOK, Handler, Store, store, cluster, history
  <2>6. Answered'
    BY <1>1, <1>5 DEF IInv, StoreOK, Answered, store
  <2>7. HandlerOK(x)'
    BY <1>1, <2>1, <2>2, <2>3, <2>4
    DEF HandlerOK, PostOK, WriteOK, CancelOK, Creating, Posting, Receiving, store, cluster, history
  <2>8. ASSUME NEW y \in Handlers \ {x}, Creating(y) PROVE h[y].run <= made
    BY <1>2, <2>8
    DEF IInv, StoreOK, HandlersOK, HandlerOK, PostOK, Numbered, Creating, Posting, Receiving, Runs
  <2>9. ASSUME NEW y \in Handlers \ {x}, Creating(y) PROVE h'[x].run # h[y].run
    BY <1>2, <2>2, <2>3, <2>8, <2>9
  <2> QED
    BY <1>1, <1>2, <1>5, <2>1, <2>3, <2>5, <2>6, <2>7, <2>9, QuietStep DEF Receiving, history
<1> QED
  BY <1>4, <1>5 DEF PostLookup

\* A cancel works on a copy of a stored record.
LEMMA CancelReadOK ==
    ASSUME IInv, NEW x \in Handlers, NEW i \in Runs, CancelRead(x, i)
    PROVE  IInv'
<1> DEFINE new == [Idle EXCEPT !.pc = "live", !.run = i]
<1>1. i \in 0..MaxRuns
  BY SubmissionAssumption DEF Runs
<1>2. new \in Handler /\ new.pc = "live" /\ new.run = i
  BY <1>1, Types DEF Handler, Pcs
<1>3. /\ h'[x] = new /\ h[x].pc = "idle" /\ mem[i] # None
      /\ \A y \in Handlers \ {x} : h'[y] = h[y]
      /\ h' \in [Handlers -> Handler]
  BY <1>2, Types DEF CancelRead
<1> HIDE DEF new
<1>4. UNCHANGED <<store, cluster, made, history, faults, crashes>>
  BY DEF CancelRead
<1>5. TypeOK' /\ made \in 0..MaxRuns
  BY <1>3, <1>4 DEF IInv, TypeOK, Handler, Store, store, cluster, history
<1>6. HandlerOK(x)' /\ ~Creating(x)'
  BY <1>2, <1>3, <1>4
  DEF HandlerOK, PostOK, WriteOK, CancelOK, Creating, Posting, Receiving, store
<1>7. Answered'
  BY <1>4 DEF IInv, StoreOK, Answered, store, history
<1> QED
  BY <1>3, <1>4, <1>5, <1>6, <1>7, QuietStep DEF Receiving, history

\* A cancel looks at the live Job before it deletes.
LEMMA CancelLiveOK ==
    ASSUME IInv, NEW x \in Handlers, CancelLive(x)
    PROVE  IInv'
<1>1. /\ UNCHANGED <<store, cluster, made, history, crashes>>
      /\ h[x].pc = "live" /\ faults' \in 0..MaxFaults
  BY SubmissionAssumption DEF CancelLive, Fault, IInv, TypeOK
<1>2. HandlerOK(x)
  BY DEF IInv, HandlersOK
<1>3. Answered' /\ made \in 0..MaxRuns
  BY <1>1 DEF IInv, TypeOK, StoreOK, Answered, store, history
<1>4. CASE job[h[x].run] \in Live /\ Go(x, "delete")
  <2>1. /\ h'[x].pc = "delete" /\ h'[x].run = h[x].run
        /\ \A y \in Handlers \ {x} : h'[y] = h[y]
        /\ h' \in [Handlers -> Handler]
    BY <1>4, Types DEF Go, Handler, Pcs
  <2>2. TypeOK'
    BY <1>1, <2>1 DEF IInv, TypeOK, Handler, Store, store, cluster, history
  <2>3. HandlerOK(x)' /\ ~Creating(x)'
    BY <1>1, <1>2, <1>4, <2>1
    DEF Live, HandlerOK, PostOK, WriteOK, CancelOK, Creating, Posting, Receiving, store, cluster, history
  <2> QED
    BY <1>1, <1>3, <2>1, <2>2, <2>3, QuietStep DEF Receiving, history
<1>5. CASE Done(x)
  <2>1. /\ h'[x].pc = "idle"
        /\ \A y \in Handlers \ {x} : h'[y] = h[y]
        /\ h' \in [Handlers -> Handler]
    BY <1>5, Types DEF Done, Idle
  <2>2. TypeOK'
    BY <1>1, <2>1 DEF IInv, TypeOK, Handler, Store, store, cluster, history
  <2>3. HandlerOK(x)' /\ ~Creating(x)'
    BY <2>1 DEF HandlerOK, PostOK, WriteOK, CancelOK, Creating, Posting, Receiving
  <2> QED
    BY <1>1, <1>3, <2>1, <2>2, <2>3, QuietStep DEF Receiving, history
<1> QED
  BY <1>4, <1>5 DEF CancelLive

\* The answer of a POST is the record of its key.
LEMMA PostAnswerOK ==
    ASSUME IInv, NEW x \in Handlers, PostAnswer(x)
    PROVE  IInv'
<1>1. /\ UNCHANGED <<store, cluster, made, lost, detached, erased, faults, crashes>>
      /\ h[x].pc = "answer" /\ made \in 0..MaxRuns
  BY DEF PostAnswer, IInv, TypeOK
<1>2. /\ h[x].run \in Runs /\ mem[h[x].run] # None
      /\ mem[h[x].run].key = h[x].key
  BY <1>1 DEF IInv, HandlersOK, HandlerOK, PostOK, Posting
<1>3. mem[h[x].run].key \in Keys
  BY <1>2, Types DEF Store, RunRecord
<1>4. told \in [Keys -> SUBSET Runs]
  BY DEF IInv, TypeOK
<1>5. /\ told' \in [Keys -> SUBSET Runs]
      /\ \A q \in Keys : told'[q] \subseteq
            told[q] \cup (IF q = h[x].key THEN {h[x].run} ELSE {})
  BY <1>2, <1>3, <1>4 DEF PostAnswer, Answer
<1>6. Answered'
  BY <1>1, <1>2, <1>5 DEF IInv, StoreOK, Answered, store
<1>7. /\ h'[x].pc = "idle"
      /\ \A y \in Handlers \ {x} : h'[y] = h[y]
      /\ h' \in [Handlers -> Handler]
  BY Types DEF PostAnswer, Done, Idle
<1>8. TypeOK'
  BY <1>1, <1>5, <1>7 DEF IInv, TypeOK, Handler, Store, store, cluster, history
<1>9. HandlerOK(x)' /\ ~Creating(x)'
  BY <1>7 DEF HandlerOK, PostOK, WriteOK, CancelOK, Creating, Posting, Receiving
<1> QED
  BY <1>1, <1>6, <1>7, <1>8, <1>9, QuietStep DEF Receiving, history

\* An ingest and a report of results work on a copy of a stored record.
LEMMA ReadOK ==
    ASSUME IInv, NEW x \in Handlers, NEW i \in Runs,
           IngestRead(x, i) \/ ResultsRead(x, i)
    PROVE  IInv'
<1> DEFINE pc == IF IngestRead(x, i) THEN "ingest" ELSE "results"
<1>1. /\ h[x].pc = "idle" /\ mem[i] # None /\ i \in 0..MaxRuns
      /\ mem[i] \in RunRecord
      /\ UNCHANGED <<store, cluster, made, history, faults, crashes>>
  BY SubmissionAssumption, Types DEF Runs, IngestRead, ResultsRead, Store
<1>2. PICK rec \in RunRecord, q \in {"ingest", "results"} :
         /\ rec.key = mem[i].key /\ rec.status = "over"
         /\ q = "ingest" => i \in bundle
         /\ h' = [h EXCEPT ![x] = [Idle EXCEPT !.pc = q, !.run = i, !.copy = rec]]
  <2>1. CASE IngestRead(x, i)
    <3> DEFINE rec == [mem[i] EXCEPT !.status = "over", !.verified = TRUE]
    <3>1. rec \in RunRecord /\ rec.key = mem[i].key /\ rec.status = "over"
      BY <1>1 DEF RunRecord
    <3> QED BY <2>1, <3>1 DEF IngestRead, Copy
  <2>2. CASE ResultsRead(x, i)
    <3> DEFINE rec == [mem[i] EXCEPT !.status = "over"]
    <3>1. rec \in RunRecord /\ rec.key = mem[i].key /\ rec.status = "over"
      BY <1>1 DEF RunRecord
    <3> QED BY <2>2, <3>1 DEF ResultsRead, Copy
  <2> QED BY <2>1, <2>2
<1> DEFINE new == [Idle EXCEPT !.pc = q, !.run = i, !.copy = rec]
<1>3. new \in Handler /\ new.pc = q /\ new.run = i /\ new.copy = rec
  BY <1>1, <1>2, Types DEF Handler, Pcs
<1>4. /\ h'[x] = new
      /\ \A y \in Handlers \ {x} : h'[y] = h[y]
      /\ h' \in [Handlers -> Handler]
  BY <1>2, <1>3, Types
<1> HIDE DEF new
<1>5. TypeOK' /\ made \in 0..MaxRuns
  BY <1>1, <1>4 DEF IInv, TypeOK, Handler, Store, store, cluster, history
<1>6. HandlerOK(x)' /\ ~Creating(x)'
  BY <1>1, <1>2, <1>3, <1>4
  DEF HandlerOK, PostOK, WriteOK, CancelOK, Creating, Posting, Receiving, store, cluster
<1>7. Answered'
  BY <1>1 DEF IInv, StoreOK, Answered, store, history
<1> QED
  BY <1>1, <1>4, <1>5, <1>6, <1>7, QuietStep DEF Receiving, history

\* A flush written late erases only records saved after its copy, and takes
\* back only receipts stored after it.
LEMMA OverwriteOK ==
    ASSUME IInv, NEW x \in Handlers, h[x].pc = "write", Overwrite(h[x].snap),
           UNCHANGED <<mem, cluster, made, told, lost, crashes>>,
           faults' \in 0..MaxFaults,
           NEW new \in Handler, h' = [h EXCEPT ![x] = new],
           \/ new.pc = "idle"
           \/ /\ new.pc = h[x].then /\ new.run = h[x].run /\ new.key = h[x].key
    PROVE  IInv'
<1>1. /\ disk' = h[x].snap
      /\ erased' = erased \cup {i \in Runs : disk[i] # None /\ h[x].snap[i] = None}
      /\ detached' = detached \cup {i \in Runs : HasReceipt(disk[i]) /\ ~HasReceipt(h[x].snap[i])}
  BY DEF Overwrite
<1>2. HandlerOK(x) /\ made \in 0..MaxRuns /\ h[x] \in Handler
  BY Types DEF IInv, HandlersOK, TypeOK
<1>3. /\ h'[x] = new
      /\ \A y \in Handlers \ {x} : h'[y] = h[y]
      /\ h' \in [Handlers -> Handler]
  BY Types
<1>4. /\ h[x].snap \in Store /\ Within(h[x].snap) /\ CancelledOff(h[x].snap)
      /\ h[x].then = "submit" => h[x].snap[h[x].run] # None
      /\ h[x].then = "answer" /\ Working(h[x].run) => HasReceipt(h[x].snap[h[x].run])
  BY <1>2 DEF HandlerOK, WriteOK
<1>5. h[x].then \in {"idle", "submit", "answer"}
  BY <1>2 DEF Handler
<1>6. TypeOK'
  BY <1>1, <1>3, <1>4 DEF IInv, TypeOK, Handler, Store, cluster
<1>7. \A i \in Runs : Recorded(i) => Recorded(i)'
  BY <1>1, <1>4 DEF Recorded
<1>w. \A i \in Runs : Working(i)' => Working(i)
  BY <1>1 DEF Working, cluster
<1>8. Progress
  BY <1>2, <1>7, <1>w, SubmissionAssumption DEF Progress, cluster
<1>9. StoreOK'
  <2>1. Within(disk)' /\ CancelledOff(disk)'
    BY <1>1, <1>4 DEF Within, CancelledOff, cluster
  <2>2. OneRunPerKey' /\ CancelledOff(mem)' /\ Numbered' /\ BundleIsOver' /\ Answered'
    BY DEF IInv, StoreOK, OneRunPerKey, CancelledOff, Numbered, BundleIsOver, Answered,
           cluster
  <2>3. JobHasRecord'
    BY <1>1, <1>7 DEF IInv, StoreOK, JobHasRecord, Recorded, cluster
  <2> QED BY <2>1, <2>2, <2>3 DEF StoreOK
<1>10. /\ Creating(x)' => Creating(x) /\ h'[x].run = h[x].run
       /\ Posting(x)' => Posting(x) /\ h'[x].run = h[x].run /\ h'[x].key = h[x].key
       /\ ~Receiving(x)'
  BY <1>3, <1>5 DEF Creating, Posting, Receiving
<1>11. HandlerOK(x)'
  <2>1. PostOK(x)'
    BY <1>1, <1>2, <1>3, <1>4, <1>5, <1>10 DEF HandlerOK, PostOK, Recorded, cluster
  <2>2. WriteOK(x)' /\ CancelOK(x)'
    BY <1>3, <1>5 DEF WriteOK, CancelOK
  <2> QED BY <2>1, <2>2 DEF HandlerOK
<1>12. HandlersOK' /\ OneCreator'
  <2>1. \A y \in Handlers \ {x} :
           Creating(x)' /\ Creating(y) => h'[x].run # h[y].run
    BY <1>10 DEF IInv, OneCreator
  <2>2. \A y \in Handlers \ {x} :
           /\ h[y].pc = "save" => mem'[h[y].run] = None
           /\ Creating(y) => job'[h[y].run] = job[h[y].run]
    BY DEF IInv, HandlersOK, HandlerOK, PostOK, cluster
  <2> QED BY <1>3, <1>8, <1>11, <2>1, <2>2, OthersOK
<1>13. WorkingJobHasReceipt'
  BY <1>1, <1>3 DEF IInv, WorkingJobHasReceipt, cluster
<1>14. Durable'
  <2> SUFFICES ASSUME NEW i \in Runs, Working(i)'
               PROVE  HasReceipt(disk'[i]) \/ Recording(i)'
    BY DEF Durable
  <2>1. Working(i) /\ (HasReceipt(disk[i]) => HasReceipt(disk'[i]))
    BY <1>1, <1>w DEF Working
  <2>2. CASE HasReceipt(disk[i])
    BY <2>1, <2>2
  <2>3. CASE Recording(i)
    <3>1. PICK y \in Handlers : h[y].run = i /\ Receiving(y)
      BY <2>3 DEF Recording, Receiving
    <3>2. CASE y = x
      BY <1>1, <1>4, <2>1, <3>1, <3>2 DEF Receiving
    <3>3. CASE y # x
      BY <1>3, <3>1, <3>3 DEF Recording, Receiving
    <3> QED BY <3>2, <3>3
  <2> QED BY <2>1, <2>2, <2>3 DEF IInv, Durable
<1> QED BY <1>6, <1>9, <1>12, <1>13, <1>14 DEF IInv

\* A flush is written, or fails before or after its commit.
LEMMA FlushWriteOK ==
    ASSUME IInv, NEW x \in Handlers, FlushWrite(x)
    PROVE  IInv'
<1>1. h[x].pc = "write" /\ UNCHANGED <<mem, cluster, made, told, lost, crashes>>
  BY DEF FlushWrite
<1>2. HandlerOK(x) /\ made \in 0..MaxRuns /\ h[x] \in Handler
  BY Types DEF IInv, HandlersOK, TypeOK
<1>f. Fault => faults' \in 0..MaxFaults
  BY SubmissionAssumption DEF Fault, IInv, TypeOK
<1>3. CASE /\ Overwrite(h[x].snap) /\ faults' = faults
           /\ h' = [h EXCEPT ![x] =
                      IF h[x].then = "idle" THEN Idle
                      ELSE [Idle EXCEPT !.pc = h[x].then, !.run = h[x].run,
                                        !.key = h[x].key]]
  <2> DEFINE new == IF h[x].then = "idle" THEN Idle
                    ELSE [Idle EXCEPT !.pc = h[x].then, !.run = h[x].run,
                                      !.key = h[x].key]
  <2>1. /\ new \in Handler
        /\ \/ new.pc = "idle"
           \/ new.pc = h[x].then /\ new.run = h[x].run /\ new.key = h[x].key
    BY <1>2, Types DEF Handler, Idle, Pcs
  <2>2. h' = [h EXCEPT ![x] = new] /\ faults' \in 0..MaxFaults
    BY <1>3 DEF IInv, TypeOK
  <2> HIDE DEF new
  <2> QED BY <1>1, <1>3, <2>1, <2>2, OverwriteOK
<1>4. CASE Fault /\ Done(x) /\ Overwrite(h[x].snap)
  <2>1. Idle \in Handler /\ Idle.pc = "idle" /\ h' = [h EXCEPT ![x] = Idle]
    BY <1>4, Types DEF Done, Idle
  <2> QED BY <1>1, <1>4, <1>f, <2>1, OverwriteOK
<1>5. CASE /\ Fault /\ Done(x) /\ UNCHANGED <<disk, erased>>
           /\ detached' = IF h[x].then = "answer" THEN detached \cup {h[x].run} ELSE detached
  <2>1. /\ h'[x].pc = "idle"
        /\ \A y \in Handlers \ {x} : h'[y] = h[y]
        /\ h' \in [Handlers -> Handler]
    BY <1>5, Types DEF Done, Idle
  <2>2. /\ h[x].then = "answer" => h[x].run \in Runs
        /\ detached' \in SUBSET Runs
        /\ \A i \in Runs : Working(i)' => Working(i)
        /\ \A i \in Runs : h[x].then = "answer" /\ h[x].run = i => ~Working(i)'
    BY <1>1, <1>2, <1>5 DEF HandlerOK, PostOK, Posting, IInv, TypeOK, Working, cluster
  <2>3. TypeOK'
    BY <1>1, <1>5, <1>f, <2>1, <2>2 DEF IInv, TypeOK, Handler, Store, cluster
  <2>4. Progress
    BY <1>1, <1>2, <1>5, <2>2, SubmissionAssumption DEF Progress, Recorded, cluster
  <2>5. StoreOK'
    BY <1>1, <1>5
    DEF IInv, StoreOK, OneRunPerKey, Within, CancelledOff, Numbered, BundleIsOver,
        Answered, JobHasRecord, cluster
  <2>6. HandlerOK(x)' /\ ~Creating(x)'
    BY <2>1 DEF HandlerOK, PostOK, WriteOK, CancelOK, Creating, Posting, Receiving
  <2>7. HandlersOK' /\ OneCreator'
    <3>1. \A y \in Handlers \ {x} :
             /\ h[y].pc = "save" => mem'[h[y].run] = None
             /\ Creating(y) => job'[h[y].run] = job[h[y].run]
      BY <1>1 DEF IInv, HandlersOK, HandlerOK, PostOK, cluster
    <3> QED BY <2>1, <2>4, <2>6, <3>1, OthersOK
  <2>8. WorkingJobHasReceipt'
    BY <1>1, <1>5, <2>1 DEF IInv, WorkingJobHasReceipt, cluster
  <2>9. Durable'
    <3> SUFFICES ASSUME NEW i \in Runs, Working(i)'
                 PROVE  HasReceipt(disk'[i]) \/ Recording(i)'
      BY DEF Durable
    <3>1. HasReceipt(disk[i]) \/ Recording(i)
      BY <2>2 DEF IInv, Durable
    <3>2. CASE Recording(i)
      <4>1. PICK y \in Handlers : h[y].run = i /\ Receiving(y)
        BY <3>2 DEF Recording, Receiving
      <4>2. y # x
        BY <1>1, <2>2, <4>1 DEF Receiving
      <4> QED BY <2>1, <4>1, <4>2 DEF Recording, Receiving
    <3> QED BY <1>5, <3>1, <3>2
  <2> QED BY <2>3, <2>5, <2>7, <2>8, <2>9 DEF IInv
<1> QED
  BY <1>3, <1>4, <1>5 DEF FlushWrite

\* A save of a record that is there already, under its key: the receipt of a
\* POST, the mark of a cancel, the status of an ingest.
LEMMA Resave ==
    ASSUME IInv, NEW x \in Handlers, NEW i \in Runs, NEW rec \in RunRecord,
           NEW then \in {"idle", "answer"},
           mem[i] # None, rec.key = mem[i].key,
           mem' = [mem EXCEPT ![i] = rec],
           UNCHANGED <<disk, cluster, made, told, lost, erased, faults, crashes>>,
           detached' \in {detached, detached \cup {i}},
           rec.status = "cancelled" => job[i] \in Off,
           Working(i)' =>
              rec.receipt = "submitted" \/ rec.receipt = mem[i].receipt,
           then = "idle" => ~Receiving(x),
           then = "answer" =>
              h[x].pc = "record" /\ h[x].run = i /\ rec.receipt = "submitted",
           GoFlush(x, then)
    PROVE  IInv'
<1>1. /\ mem \in Store /\ disk \in Store /\ mem' \in Store
      /\ mem'[i] = rec /\ rec # None
      /\ \A j \in Runs \ {i} : mem'[j] = mem[j]
  BY Types, NoneAssumption DEF Store
<1>2. \A j \in Runs : /\ mem'[j] # None <=> mem[j] # None
                      /\ mem[j] # None => mem'[j].key = mem[j].key
  BY <1>1
<1>3. /\ h'[x].pc = "flush" /\ h'[x].then = then
      /\ then = "answer" => h'[x].run = h[x].run /\ h'[x].key = h[x].key
      /\ \A y \in Handlers \ {x} : h'[y] = h[y]
      /\ h' \in [Handlers -> Handler]
  BY Types DEF GoFlush, Handler, Pcs, Idle
<1>4. TypeOK'
  BY <1>1, <1>3 DEF IInv, TypeOK, Handler, Store, cluster
<1>w. /\ \A j \in Runs : Working(j)' => Working(j)
      /\ \A j \in Runs : Working(j)' /\ HasReceipt(mem[j]) => HasReceipt(mem'[j])
  BY <1>1 DEF Working, HasReceipt, cluster
<1>5. Progress
  BY <1>2, <1>w, SubmissionAssumption DEF IInv, TypeOK, Progress, Recorded, cluster
<1>6. StoreOK'
  <2>1. OneRunPerKey' /\ Within(disk)' /\ Numbered' /\ Answered'
    <3>1. OneRunPerKey'
      BY <1>2 DEF IInv, StoreOK, OneRunPerKey
    <3>2. Within(disk)'
      BY <1>2 DEF IInv, StoreOK, Within
    <3>3. Numbered'
      BY <1>2 DEF IInv, StoreOK, Numbered, cluster
    <3>4. Answered'
      BY <1>2 DEF IInv, TypeOK, StoreOK, Answered
    <3> QED BY <3>1, <3>2, <3>3, <3>4
  <2>2. CancelledOff(disk)' /\ CancelledOff(mem)'
    BY <1>1 DEF IInv, StoreOK, CancelledOff, cluster
  <2>3. BundleIsOver' /\ JobHasRecord'
    BY DEF IInv, StoreOK, BundleIsOver, JobHasRecord, cluster
  <2> QED BY <2>1, <2>2, <2>3 DEF StoreOK
<1>7. HandlerOK(x)' /\ ~Creating(x)'
  <2>1. HandlerOK(x)
    BY DEF IInv, HandlersOK
  <2>2. ~Creating(x)'
    BY <1>3 DEF Creating
  <2>3. /\ Receiving(x)' => then = "answer"
        /\ Posting(x)' => then = "answer"
        /\ then = "answer" => Receiving(x) /\ Posting(x)
    BY <1>3 DEF Receiving, Posting
  <2>4. PostOK(x)'
    BY <1>1, <1>2, <1>3, <2>1, <2>2, <2>3 DEF HandlerOK, PostOK, HasReceipt, cluster
  <2>5. WriteOK(x)' /\ CancelOK(x)'
    BY <1>3 DEF WriteOK, CancelOK
  <2> QED BY <2>2, <2>4, <2>5 DEF HandlerOK
<1>8. \A y \in Handlers \ {x} :
         /\ h[y].pc = "save" => mem'[h[y].run] = None
         /\ Creating(y) => job'[h[y].run] = job[h[y].run]
  <2>1. MaxRuns \in Nat /\ made \in 0..MaxRuns
    BY SubmissionAssumption DEF IInv, TypeOK
  <2>2. \A y \in Handlers : h[y].pc = "save" => h[y].run \in Runs
    BY <2>1 DEF IInv, HandlersOK, HandlerOK, PostOK, Runs
  <2> QED
    BY <1>2, <2>2 DEF IInv, HandlersOK, HandlerOK, PostOK, cluster
<1>9. HandlersOK' /\ OneCreator'
  BY <1>3, <1>5, <1>7, <1>8, OthersOK
<1>10. WorkingJobHasReceipt'
  <2> SUFFICES ASSUME NEW j \in Runs, Working(j)'
               PROVE  \/ HasReceipt(mem'[j])
                      \/ \E y \in Handlers : h'[y].pc = "record" /\ h'[y].run = j
    BY DEF WorkingJobHasReceipt, Working
  <2>1. \/ HasReceipt(mem[j])
        \/ \E y \in Handlers : h[y].pc = "record" /\ h[y].run = j
    BY <1>w DEF IInv, WorkingJobHasReceipt, Working
  <2>2. CASE HasReceipt(mem[j])
    BY <1>w, <2>2
  <2>3. CASE \E y \in Handlers : h[y].pc = "record" /\ h[y].run = j
    BY <1>1, <1>3, <2>3 DEF Receiving, HasReceipt
  <2> QED BY <2>1, <2>2, <2>3
<1>11. Durable'
  <2>1. \A j \in Runs : Recording(j) => Recording(j)'
    BY <1>3 DEF Recording, Receiving
  <2> QED BY <1>w, <2>1 DEF IInv, Durable
<1> QED BY <1>4, <1>6, <1>9, <1>10, <1>11 DEF IInv

\* The receipt is saved on the record the POST created.
LEMMA PostRecordOK ==
    ASSUME IInv, NEW x \in Handlers, PostRecord(x)
    PROVE  IInv'
<1>1. /\ h[x].run \in Runs /\ mem[h[x].run] # None
      /\ mem[h[x].run].key = h[x].key
  BY DEF PostRecord, IInv, HandlersOK, HandlerOK, PostOK, Posting
<1> DEFINE rec == [Accepted(h[x].key) EXCEPT !.receipt = "submitted"]
<1>2. /\ rec \in RunRecord /\ rec.key = mem[h[x].run].key
      /\ rec.receipt = "submitted" /\ rec.status # "cancelled"
  BY <1>1, Types DEF Store, RunRecord, Accepted
<1>3. mem' = [mem EXCEPT ![h[x].run] = rec]
  BY DEF PostRecord
<1> HIDE DEF rec
<1>4. /\ UNCHANGED <<disk, cluster, made, told, lost, erased, faults, crashes>>
      /\ detached' = detached /\ h[x].pc = "record" /\ GoFlush(x, "answer")
  BY DEF PostRecord, history
<1> QED
  BY <1>1, <1>2, <1>3, <1>4, Resave

\* A record is marked cancelled only after its Job was deleted.
LEMMA CancelMarkOK ==
    ASSUME IInv, NEW x \in Handlers, CancelMark(x)
    PROVE  IInv'
<1>1. /\ h[x].pc = "cancel" /\ h[x].run \in Runs
      /\ mem[h[x].run] # None /\ job[h[x].run] \in Off
      /\ UNCHANGED <<disk, cluster, made, told, lost, detached, erased, faults, crashes>>
  BY DEF CancelMark, IInv, HandlersOK, HandlerOK, CancelOK, history
<1>2. mem[h[x].run] \in RunRecord /\ made \in 0..MaxRuns
  BY <1>1, Types DEF Store, IInv, TypeOK
<1>3. CASE /\ mem' = [mem EXCEPT ![h[x].run].status = "cancelled"]
           /\ GoFlush(x, "idle")
  <2> DEFINE rec == [mem[h[x].run] EXCEPT !.status = "cancelled"]
  <2>1. /\ rec \in RunRecord /\ rec.key = mem[h[x].run].key
        /\ rec.receipt = mem[h[x].run].receipt
    BY <1>2 DEF RunRecord
  <2>2. mem' = [mem EXCEPT ![h[x].run] = rec]
    BY <1>3
  <2> HIDE DEF rec
  <2>3. ~Receiving(x)
    BY <1>1 DEF Receiving
  <2> QED
    BY <1>1, <1>3, <2>1, <2>2, <2>3, Resave
<1>4. CASE (Done(x) \/ GoFlush(x, "idle")) /\ UNCHANGED mem
  <2>1. /\ h'[x].pc \in {"idle", "flush"} /\ h'[x].then = "idle"
        /\ \A y \in Handlers \ {x} : h'[y] = h[y]
        /\ h' \in [Handlers -> Handler]
    BY <1>4, Types DEF Done, GoFlush, Idle, Handler, Pcs
  <2>2. UNCHANGED <<store, cluster, made, history, faults, crashes>>
    BY <1>1, <1>4 DEF store, history
  <2>3. TypeOK'
    BY <2>1, <2>2 DEF IInv, TypeOK, Handler, Store, store, cluster, history
  <2>4. HandlerOK(x)' /\ ~Creating(x)'
    BY <2>1 DEF HandlerOK, PostOK, WriteOK, CancelOK, Creating, Posting, Receiving
  <2>5. Answered'
    BY <2>2 DEF IInv, StoreOK, Answered, store, history
  <2> QED
    BY <1>1, <1>2, <2>1, <2>2, <2>3, <2>4, <2>5, QuietStep DEF Receiving, history
<1> QED
  BY <1>3, <1>4 DEF CancelMark

\* An ingest saves its copy over the record of a run whose runner has ended,
\* a report of results over any; the receipt it drops is remembered.
LEMMA SaveOK ==
    ASSUME IInv, NEW x \in Handlers, IngestSave(x) \/ ResultsSave(x)
    PROVE  IInv'
<1>0. PICK i, rec : i = h[x].run /\ rec = h[x].copy
  OBVIOUS
<1>1. /\ h[x].pc \in {"ingest", "results"}
      /\ UNCHANGED <<disk, cluster, made, told, lost, erased, faults, crashes>>
      /\ mem' = [mem EXCEPT ![i] = rec] /\ GoFlush(x, "idle")
  BY <1>0 DEF IngestSave, ResultsSave, history
<1>2. /\ i \in Runs /\ mem[i] # None
      /\ rec \in RunRecord /\ rec.status = "over" /\ rec.key = mem[i].key
  BY <1>0, <1>1 DEF IInv, HandlersOK, HandlerOK, CancelOK
<1>3. mem[i] \in RunRecord /\ rec # None
  BY <1>2, Types, NoneAssumption DEF Store
<1>4. detached' \in {detached, detached \cup {i}}
  BY <1>0 DEF IngestSave, ResultsSave, history
<1>5. Working(i)' => rec.receipt = "submitted" \/ rec.receipt = mem[i].receipt
  <2>1. CASE IngestSave(x)
    BY <1>0, <1>1, <2>1 DEF IngestSave, IInv, HandlersOK, HandlerOK, CancelOK, Working, cluster
  <2>2. CASE ResultsSave(x)
    BY <1>0, <1>2, <1>3, <2>2 DEF ResultsSave, Working, HasReceipt, RunRecord
  <2> QED BY <2>1, <2>2
<1>6. ~Receiving(x)
  BY <1>1 DEF Receiving
<1> QED
  BY <1>1, <1>2, <1>4, <1>5, <1>6, Resave

\* A step of Kubernetes, or of the handler that creates or deletes a Job: one
\* Job changes, never back to "none", never from deleted, and works only when
\* it is new.
LEMMA JobStep ==
    ASSUME IInv, NEW i \in Runs,
           NEW s \in JobState \ {"none"},
           job' = [job EXCEPT ![i] = s],
           job[i] \in Off => s \in Off,
           s = "active" => job[i] = "none",
           Recorded(i), i <= made, detached \subseteq detached',
           UNCHANGED <<store, bundle, made, told, lost, erased>>
    PROVE  /\ Progress /\ StoreOK' /\ job' \in [Runs -> JobState]
           /\ \A j \in Runs : Working(j)' /\ job[j] # "none" => Working(j)
<1> USE DEF store
<1>1. /\ job' \in [Runs -> JobState]
      /\ job'[i] = s /\ s # "none"
      /\ \A j \in Runs \ {i} : job'[j] = job[j]
  BY DEF IInv, TypeOK
<1>w. \A j \in Runs : Working(j)' /\ job[j] # "none" => Working(j)
  BY <1>1 DEF Working
<1>2. Progress
  BY <1>1, <1>w, SubmissionAssumption DEF IInv, TypeOK, Progress, Recorded
<1>3. OneRunPerKey' /\ Within(disk)'
  BY DEF IInv, StoreOK, OneRunPerKey, Within
<1>4. CancelledOff(disk)' /\ CancelledOff(mem)'
  BY <1>1 DEF IInv, StoreOK, CancelledOff
<1>5. Numbered' /\ BundleIsOver'
  BY <1>1 DEF IInv, TypeOK, StoreOK, Numbered, BundleIsOver
<1>6. JobHasRecord'
  BY <1>1 DEF IInv, StoreOK, JobHasRecord, Recorded
<1>7. Answered'
  BY DEF IInv, StoreOK, Answered
<1> QED
  BY <1>1, <1>w, <1>2, <1>3, <1>4, <1>5, <1>6, <1>7 DEF StoreOK

\* A Job is created for a record that is on disk.
LEMMA PostSubmitOK ==
    ASSUME IInv, NEW x \in Handlers, PostSubmit(x)
    PROVE  IInv'
<1> DEFINE i == h[x].run
<1>1. /\ h[x].pc = "submit" /\ Creating(x) /\ Posting(x) /\ HandlerOK(x)
      /\ UNCHANGED <<store, bundle, made, told, lost, erased, crashes>>
  BY DEF PostSubmit, Creating, Posting, Receiving, IInv, HandlersOK
<1>2. /\ i \in Runs /\ job[i] = "none" /\ mem[i] # None /\ mem[i].key = h[x].key
      /\ Recorded(i)
  BY <1>1 DEF HandlerOK, PostOK
<1>3. i <= made /\ made \in 0..MaxRuns
  BY <1>2 DEF IInv, TypeOK, StoreOK, Numbered
<1>4. /\ faults' \in 0..MaxFaults
      /\ detached' \in SUBSET Runs /\ detached \subseteq detached'
  BY <1>2, SubmissionAssumption DEF PostSubmit, Fault, IInv, TypeOK
<1>5. /\ \A y \in Handlers \ {x} : h'[y] = h[y]
      /\ h' \in [Handlers -> Handler]
      /\ \/ h'[x].pc = "idle"
         \/ /\ h'[x].pc = "record" /\ h'[x].run = h[x].run /\ h'[x].key = h[x].key
            /\ job' = [job EXCEPT ![i] = "active"]
  BY Types DEF PostSubmit, Go, Done, Idle, Handler, Pcs
<1>6. /\ ~Creating(x)' /\ ~Receiving(x)
      /\ Posting(x)' => h'[x].pc = "record"
      /\ Receiving(x)' => h'[x].pc = "record"
  BY <1>1, <1>5 DEF Creating, Posting, Receiving
<1>7. HandlerOK(x)'
  <2>1. job' = [job EXCEPT ![i] = "active"] => job'[i] # "none"
    BY <1>2 DEF IInv, TypeOK
  <2>3. PostOK(x)'
    BY <1>1, <1>2, <1>5, <1>6, <2>1 DEF PostOK, store
  <2>2. WriteOK(x)' /\ CancelOK(x)'
    BY <1>5 DEF WriteOK, CancelOK
  <2> QED BY <2>2, <2>3 DEF HandlerOK
<1>8. \A y \in Handlers \ {x} : Creating(y) => h[y].run # i /\ h[y].run \in Runs
  BY <1>1 DEF IInv, OneCreator, HandlersOK, HandlerOK, PostOK
<1>9. \A y \in Handlers \ {x} : h[y].pc = "save" => mem'[h[y].run] = None
  BY <1>1 DEF IInv, HandlersOK, HandlerOK, PostOK, store
<1>10. CASE job' = job
  <2>1. detached' = detached
    <3>1. job[i] # "active"
      BY <1>2
    <3>2. job' # [job EXCEPT ![i] = "active"]
      BY <1>2, <1>10, <3>1 DEF IInv, TypeOK
    <3> QED BY <3>2 DEF PostSubmit
  <2>2. UNCHANGED <<store, cluster, lost, detached, erased>> /\ Answered'
    BY <1>1, <1>10, <2>1 DEF cluster, IInv, StoreOK, Answered, store
  <2>3. TypeOK'
    BY <1>1, <1>4, <1>5, <1>10 DEF IInv, TypeOK, Handler, Store, store
  <2> QED
    BY <1>1, <1>3, <1>5, <1>6, <1>7, <2>2, <2>3, QuietStep
<1>11. CASE /\ job' = [job EXCEPT ![i] = "active"]
            /\ h'[x].pc = "record" \/ i \in detached'
  <2>1. /\ Progress /\ StoreOK' /\ job' \in [Runs -> JobState]
        /\ \A j \in Runs : Working(j)' /\ job[j] # "none" => Working(j)
    BY <1>1, <1>2, <1>3, <1>4, <1>11, JobStep DEF JobState, Off
  <2>2. TypeOK'
    BY <1>1, <1>4, <1>5, <2>1 DEF IInv, TypeOK, Handler, Store, store
  <2>3. \A y \in Handlers \ {x} : Creating(y) => job'[h[y].run] = job[h[y].run]
    BY <1>8, <1>11 DEF IInv, TypeOK
  <2>4. HandlersOK' /\ OneCreator'
    BY <1>5, <1>6, <1>7, <1>9, <2>1, <2>3, OthersOK
  <2>5. ASSUME NEW j \in Runs, Working(j)'
        PROVE  Working(j) \/ (j = i /\ h'[x].pc = "record" /\ h'[x].run = i)
    <3>1. CASE j = i
      BY <1>5, <1>11, <2>5, <3>1 DEF Working
    <3>2. CASE j # i
      <4>1. job[j] # "none"
        BY <1>11, <2>5, <3>2 DEF IInv, TypeOK, Working
      <4> QED BY <2>1, <2>5, <4>1
    <3> QED BY <3>1, <3>2
  <2>6. WorkingJobHasReceipt'
    <3> SUFFICES ASSUME NEW j \in Runs, Working(j)'
                 PROVE  \/ HasReceipt(mem'[j])
                        \/ \E y \in Handlers : h'[y].pc = "record" /\ h'[y].run = j
      BY DEF WorkingJobHasReceipt, Working
    <3>1. CASE Working(j)
      BY <1>1, <1>5, <3>1 DEF IInv, WorkingJobHasReceipt, Working, store
    <3> QED BY <2>5, <3>1
  <2>7. Durable'
    <3> SUFFICES ASSUME NEW j \in Runs, Working(j)'
                 PROVE  HasReceipt(disk'[j]) \/ Recording(j)'
      BY DEF Durable
    <3>1. CASE Working(j)
      <4>1. Recording(j) => Recording(j)'
        BY <1>1, <1>5 DEF Recording
      <4> QED BY <1>1, <3>1, <4>1 DEF IInv, Durable, store
    <3>2. CASE h'[x].pc = "record" /\ h'[x].run = j
      BY <3>2 DEF Recording
    <3> QED BY <2>5, <3>1, <3>2
  <2> QED BY <2>1, <2>2, <2>4, <2>6, <2>7 DEF IInv
<1> QED
  <2>1. \/ job' = job
        \/ job' = [job EXCEPT ![i] = "active"] /\ Go(x, "record")
        \/ job' = [job EXCEPT ![i] = "active"] /\ detached' = detached \cup {i}
    BY DEF PostSubmit
  <2>2. Go(x, "record") => h'[x].pc = "record"
    BY Types DEF Go, Handler
  <2> QED BY <1>10, <1>11, <2>1, <2>2

\* A record saved meanwhile under the same key is found, not replaced.
LEMMA PostSaveOK ==
    ASSUME IInv, NEW x \in Handlers, PostSave(x)
    PROVE  IInv'
<1> DEFINE i == h[x].run
           k == h[x].key
<1>1. /\ h[x].pc = "save" /\ Creating(x) /\ HandlerOK(x)
      /\ UNCHANGED <<disk, cluster, made, lost, detached, erased, faults, crashes>>
  BY DEF PostSave, Creating, IInv, HandlersOK
<1>2. /\ i \in 1..made /\ i \in Runs /\ k \in Keys
      /\ mem[i] = None /\ job[i] = "none" /\ made \in 0..MaxRuns
  BY <1>1 DEF HandlerOK, PostOK, IInv, TypeOK
<1>3. CASE \E j \in Bound(k) : Answer(k, j) /\ Done(x) /\ UNCHANGED mem
  <2>1. PICK j \in Bound(k) : Answer(k, j) /\ Done(x) /\ UNCHANGED mem
    BY <1>3
  <2>2. j \in Runs /\ mem[j] # None /\ mem[j].key = k
    BY DEF Bound
  <2>3. told \in [Keys -> SUBSET Runs]
    BY DEF IInv, TypeOK
  <2>4. /\ told' \in [Keys -> SUBSET Runs]
        /\ \A q \in Keys : told'[q] \subseteq told[q] \cup (IF q = k THEN {j} ELSE {})
    BY <1>2, <2>1, <2>2, <2>3 DEF Answer
  <2>5. Answered'
    BY <1>1, <2>1, <2>2, <2>4 DEF IInv, StoreOK, Answered
  <2>6. /\ h'[x].pc = "idle"
        /\ \A y \in Handlers \ {x} : h'[y] = h[y]
        /\ h' \in [Handlers -> Handler]
    BY <2>1, Types DEF Done, Idle
  <2>7. TypeOK'
    BY <1>1, <2>1, <2>4, <2>6 DEF IInv, TypeOK, Handler, Store, cluster
  <2>8. HandlerOK(x)' /\ ~Creating(x)'
    BY <2>6 DEF HandlerOK, PostOK, WriteOK, CancelOK, Creating, Posting, Receiving
  <2> QED
    BY <1>1, <1>2, <2>1, <2>5, <2>6, <2>7, <2>8, QuietStep DEF store, Receiving, history
<1>4. CASE /\ Bound(k) = {} /\ told' = told /\ GoFlush(x, "submit")
           /\ mem' = [mem EXCEPT ![i] = Accepted(k)]
  <2> DEFINE rec == Accepted(k)
  <2>1. /\ rec \in RunRecord /\ rec # None
        /\ rec.key = k /\ rec.status # "cancelled"
    <3>1. rec \in RunRecord
      BY <1>2 DEF RunRecord, Accepted
    <3>2. rec # None
      BY <3>1, NoneAssumption
    <3> QED BY <3>1, <3>2 DEF Accepted
  <2>2. /\ mem' \in Store /\ mem'[i] = rec
        /\ \A j \in Runs \ {i} : mem'[j] = mem[j]
    BY <1>2, <1>4, <2>1, Types DEF Store
  <2> HIDE DEF rec
  <2>3. \A j \in Runs : mem[j] # None => mem[j].key # k /\ mem'[j] = mem[j]
    BY <1>2, <1>4, <2>2 DEF Bound
  <2>4. /\ h'[x].pc = "flush" /\ h'[x].then = "submit"
        /\ h'[x].run = i /\ h'[x].key = k
        /\ \A y \in Handlers \ {x} : h'[y] = h[y]
        /\ h' \in [Handlers -> Handler]
    BY <1>4, Types DEF GoFlush, Handler, Pcs
  <2>5. TypeOK'
    BY <1>1, <1>4, <2>2, <2>4 DEF IInv, TypeOK, Handler, Store, cluster
  <2>w. \A j : Working(j)' <=> Working(j)
    BY <1>1 DEF Working, cluster
  <2>6. Progress
    BY <1>1, <1>2, <2>3, <2>w, SubmissionAssumption
    DEF Progress, Recorded, HasReceipt, cluster
  <2>7. StoreOK'
    <3>1. OneRunPerKey'
      BY <2>1, <2>2, <2>3 DEF IInv, StoreOK, OneRunPerKey
    <3>2. Within(disk)' /\ CancelledOff(disk)'
      BY <1>1, <2>3 DEF IInv, StoreOK, Within, CancelledOff, cluster
    <3>3. CancelledOff(mem)'
      BY <1>1, <2>1, <2>2 DEF IInv, StoreOK, CancelledOff, cluster
    <3>4. Numbered'
      BY <1>1, <1>2, <2>2 DEF IInv, StoreOK, Numbered, cluster
    <3>5. BundleIsOver' /\ JobHasRecord'
      BY <1>1 DEF IInv, StoreOK, BundleIsOver, JobHasRecord, cluster
    <3>6. Answered'
      BY <1>1, <1>4, <2>3 DEF IInv, TypeOK, StoreOK, Answered
    <3> QED BY <3>1, <3>2, <3>3, <3>4, <3>5, <3>6 DEF StoreOK
  <2>8. HandlerOK(x)'
    <3>1. PostOK(x)'
      BY <1>1, <1>2, <2>1, <2>2, <2>4 DEF PostOK, Creating, Posting, Receiving, cluster
    <3>2. WriteOK(x)' /\ CancelOK(x)'
      BY <2>4 DEF WriteOK, CancelOK
    <3> QED BY <3>1, <3>2 DEF HandlerOK
  <2>9. \A y \in Handlers \ {x} : Creating(y) => h[y].run # i
    BY <1>1 DEF IInv, OneCreator
  <2>10. \A y \in Handlers \ {x} : h[y].pc = "save" => mem'[h[y].run] = None
    <3> SUFFICES ASSUME NEW y \in Handlers \ {x}, h[y].pc = "save"
                 PROVE  mem'[h[y].run] = None
      OBVIOUS
    <3>1. Creating(y) /\ h[y].run # i
      BY <2>9 DEF Creating
    <3>2. h[y].run \in Runs /\ mem[h[y].run] = None
      BY <3>1 DEF IInv, HandlersOK, HandlerOK, PostOK
    <3> QED BY <2>2, <3>1, <3>2
  <2>11. HandlersOK' /\ OneCreator'
    <3>1. \A y \in Handlers \ {x} : Creating(y) => job'[h[y].run] = job[h[y].run]
      BY <1>1 DEF cluster
    <3> QED
      BY <2>4, <2>6, <2>8, <2>9, <2>10, <3>1, OthersOK
  <2>12. WorkingJobHasReceipt'
    <3>1. \A j \in Runs : job'[j] = "active" => j # i /\ mem'[j] = mem[j]
      BY <1>1, <1>2, <2>2 DEF cluster
    <3> QED
      BY <1>1, <2>4, <3>1 DEF IInv, WorkingJobHasReceipt, cluster
  <2>13. Durable'
    <3>1. \A j \in Runs : Recording(j) => Recording(j)'
      BY <1>1, <2>4 DEF Recording
    <3> QED BY <1>1, <2>w, <3>1 DEF IInv, Durable
  <2> QED BY <2>5, <2>7, <2>11, <2>12, <2>13 DEF IInv
<1> QED
  BY <1>3, <1>4 DEF PostSave

\* A Job told to be deleted works on at most until its pod has ended.
LEMMA CancelDeleteOK ==
    ASSUME IInv, NEW x \in Handlers, CancelDelete(x)
    PROVE  IInv'
<1> DEFINE i == h[x].run
           s == Deleted(job[i])
<1>1. /\ h[x].pc = "delete" /\ HandlerOK(x)
      /\ UNCHANGED <<store, bundle, made, told, lost, detached, erased, crashes>>
  BY DEF CancelDelete, IInv, HandlersOK, history
<1>2. i \in Runs /\ mem[i] # None /\ job[i] # "none"
  BY <1>1 DEF HandlerOK, CancelOK
<1>3. i <= made /\ Recorded(i) /\ made \in 0..MaxRuns
  BY <1>2 DEF IInv, TypeOK, StoreOK, Numbered, JobHasRecord, Recorded
<1>4. faults' \in 0..MaxFaults
  BY SubmissionAssumption DEF CancelDelete, Fault, IInv, TypeOK
<1>s. s \in Off /\ s \in JobState \ {"none"} /\ s # "active"
  BY DEF Deleted, Off, JobState
<1> HIDE DEF s
<1>5. /\ \A y \in Handlers \ {x} : h'[y] = h[y]
      /\ h' \in [Handlers -> Handler]
      /\ \/ h'[x].pc = "idle"
         \/ h'[x].pc = "cancel" /\ h'[x].run = i /\ job' = [job EXCEPT ![i] = s]
  BY Types DEF CancelDelete, Go, Done, Idle, Handler, Pcs, s
<1>6. job' = job \/ job' = [job EXCEPT ![i] = s]
  BY DEF CancelDelete, s
<1>7. HandlerOK(x)' /\ ~Creating(x)' /\ ~Receiving(x)
  <2>1. job' = [job EXCEPT ![i] = s] => job'[i] \in Off
    BY <1>2, <1>s DEF IInv, TypeOK
  <2> QED
    BY <1>1, <1>2, <1>5, <2>1
    DEF HandlerOK, PostOK, WriteOK, CancelOK, Creating, Posting, Receiving, store
<1>8. CASE job' = job
  <2>1. TypeOK'
    BY <1>1, <1>4, <1>5, <1>8 DEF IInv, TypeOK, Handler, Store, store
  <2>2. Answered' /\ UNCHANGED cluster
    BY <1>1, <1>8 DEF IInv, StoreOK, Answered, store, cluster
  <2> QED
    BY <1>1, <1>3, <1>5, <1>7, <2>1, <2>2, QuietStep
<1>9. CASE job' = [job EXCEPT ![i] = s]
  <2>1. /\ Progress /\ StoreOK' /\ job' \in [Runs -> JobState]
        /\ \A j \in Runs : Working(j)' /\ job[j] # "none" => Working(j)
    BY <1>1, <1>2, <1>3, <1>9, <1>s, JobStep
  <2>2. TypeOK'
    BY <1>1, <1>4, <1>5, <2>1 DEF IInv, TypeOK, Handler, Store, store
  <2>3. \A y \in Handlers \ {x} :
           /\ h[y].pc = "save" => mem'[h[y].run] = None
           /\ Creating(y) => job'[h[y].run] = job[h[y].run]
    BY <1>1, <1>2, <1>9 DEF IInv, TypeOK, HandlersOK, HandlerOK, PostOK, store
  <2>4. HandlersOK' /\ OneCreator'
    BY <1>5, <1>7, <2>1, <2>3, OthersOK
  <2>5. \A j \in Runs : Working(j)' => Working(j)
    BY <1>9, <1>s, <2>1 DEF IInv, TypeOK, Working
  <2>6. WorkingJobHasReceipt'
    BY <1>1, <1>5, <2>5 DEF IInv, WorkingJobHasReceipt, Working, store
  <2>7. Durable'
    <3>1. \A j \in Runs : Recording(j) => Recording(j)'
      BY <1>5, <1>7 DEF Recording, Receiving
    <3> QED BY <1>1, <2>5, <3>1 DEF IInv, Durable, store
  <2> QED BY <2>1, <2>2, <2>4, <2>6, <2>7 DEF IInv
<1> QED BY <1>6, <1>8, <1>9

\* A Job that ends or expires works no more, nor does one with its bundle.
LEMMA KubernetesOK ==
    ASSUME IInv, NEW i \in Runs, RunnerEnds(i) \/ JobFinishes(i) \/ JobExpires(i)
    PROVE  IInv'
<1>1. /\ UNCHANGED <<store, h, made, told, lost, detached, erased, faults, crashes>>
      /\ job[i] # "none"
  BY DEF RunnerEnds, JobFinishes, JobExpires, Live, history
<1>2. i <= made /\ Recorded(i) /\ made \in 0..MaxRuns
  BY <1>1 DEF IInv, TypeOK, StoreOK, Numbered, JobHasRecord, Recorded
<1>3. /\ Progress /\ StoreOK' /\ TypeOK'
      /\ \A j \in Runs : Working(j)' => Working(j)
      /\ \A j \in Runs : job[j] = "none" => job'[j] = "none"
  <2>1. CASE RunnerEnds(i)
    <3>1. job' = job /\ bundle' = bundle \cup {i}
      BY <2>1 DEF RunnerEnds
    <3>2. \A j \in Runs : Working(j)' => Working(j)
      BY <1>1, <3>1 DEF Working
    <3>3. Progress
      BY <1>1, <1>2, <3>1, <3>2, SubmissionAssumption DEF Progress, Recorded, store
    <3>4. StoreOK'
      BY <1>1, <3>1
      DEF IInv, StoreOK, OneRunPerKey, Within, CancelledOff, Numbered, BundleIsOver,
          Answered, JobHasRecord, store
    <3>5. TypeOK'
      BY <1>1, <3>1 DEF IInv, TypeOK, store
    <3> QED BY <3>1, <3>2, <3>3, <3>4, <3>5
  <2>2. CASE JobFinishes(i) \/ JobExpires(i)
    <3>1. PICK s \in {"over", "gone"} :
             job' = [job EXCEPT ![i] = s] /\ (job[i] \in Off => s \in Off)
      BY <2>2 DEF JobFinishes, JobExpires, Off
    <3>2. bundle' = bundle /\ s \in JobState \ {"none"} /\ s # "active"
      BY <2>2 DEF JobFinishes, JobExpires, JobState
    <3>3. /\ Progress /\ StoreOK' /\ job' \in [Runs -> JobState]
          /\ \A j \in Runs : Working(j)' /\ job[j] # "none" => Working(j)
      BY <1>1, <1>2, <3>1, <3>2, JobStep
    <3>4. \A j \in Runs : job[j] = "none" => job'[j] = "none"
      BY <1>1, <3>1 DEF IInv, TypeOK
    <3>5. \A j \in Runs : Working(j)' => Working(j)
      BY <3>3, <3>4 DEF Working
    <3>6. TypeOK'
      BY <1>1, <3>2, <3>3 DEF IInv, TypeOK, store
    <3> QED BY <3>3, <3>4, <3>5, <3>6
  <2> QED BY <2>1, <2>2
<1>4. HandlersOK' /\ OneCreator'
  <2>1. ASSUME NEW y \in Handlers
        PROVE  HandlerOK(y)' /\ (Creating(y)' <=> Creating(y))
    <3>1. /\ h[y].pc = "save" => mem'[h[y].run] = None
          /\ Creating(y) => job'[h[y].run] = job[h[y].run]
      BY <1>1, <1>3 DEF IInv, HandlersOK, HandlerOK, PostOK, store
    <3> QED BY <1>1, <1>3, <3>1, Frame
  <2> QED BY <1>1, <2>1 DEF HandlersOK, OneCreator, IInv
<1>5. WorkingJobHasReceipt'
  BY <1>1, <1>3 DEF IInv, WorkingJobHasReceipt, Working, store
<1>6. Durable'
  <2>1. \A j \in Runs : Recording(j) => Recording(j)'
    BY <1>1 DEF Recording
  <2> QED BY <1>1, <1>3, <2>1 DEF IInv, Durable, store
<1> QED BY <1>3, <1>4, <1>5, <1>6 DEF IInv

\* A restart reads the disk back: what it holds was within memory, the runs
\* without a record there are lost, and a working Job whose receipt is not
\* there is one whose POST was about to flush it.
LEMMA CrashOK ==
    ASSUME IInv, Crash
    PROVE  IInv'
<1>1. /\ mem' = disk /\ crashes' = crashes + 1 /\ crashes < MaxCrashes
      /\ UNCHANGED <<disk, cluster, made, told, erased, faults>>
      /\ lost' = lost \cup {i \in Runs : mem[i] # None /\ disk[i] = None}
      /\ detached' = detached \cup {i \in Runs : Recording(i) /\ ~HasReceipt(disk[i])}
  BY DEF Crash
<1>2. \A x \in Handlers : h'[x] = Idle /\ h'[x].pc = "idle"
  BY DEF Crash, Idle
<1>3. lost' \in SUBSET Runs /\ detached' \in SUBSET Runs
  BY <1>1 DEF IInv, TypeOK
<1>4. TypeOK'
  <2>1. h' \in [Handlers -> Handler]
    BY Types DEF Crash
  <2>2. crashes' \in 0..MaxCrashes
    BY <1>1, SubmissionAssumption DEF IInv, TypeOK
  <2> QED
    BY <1>1, <1>3, <2>1, <2>2 DEF IInv, TypeOK, Handler, Store, cluster
<1>5. StoreOK'
  <2>1. \A i \in Runs : disk[i] # None => mem[i] # None /\ mem[i].key = disk[i].key
    BY DEF IInv, StoreOK, Within
  <2>2. OneRunPerKey'
    BY <1>1, <2>1 DEF IInv, StoreOK, OneRunPerKey
  <2>3. Within(disk)' /\ CancelledOff(disk)' /\ CancelledOff(mem)'
    BY <1>1 DEF IInv, StoreOK, Within, CancelledOff, cluster
  <2>4. Numbered' /\ BundleIsOver' /\ JobHasRecord'
    BY <1>1, <2>1 DEF IInv, StoreOK, Numbered, BundleIsOver, JobHasRecord, cluster
  <2>5. Answered'
    BY <1>1, <2>1 DEF IInv, TypeOK, StoreOK, Answered
  <2> QED BY <2>2, <2>3, <2>4, <2>5 DEF StoreOK
<1>6. HandlersOK' /\ OneCreator'
  <2>1. \A x \in Handlers : HandlerOK(x)' /\ ~Creating(x)'
    BY <1>2 DEF HandlerOK, PostOK, WriteOK, CancelOK, Creating, Posting, Receiving
  <2> QED BY <2>1 DEF HandlersOK, OneCreator
<1>7. \A i \in Runs : Working(i)' => HasReceipt(disk[i])
  BY <1>1 DEF IInv, Durable, Working, cluster
<1>8. WorkingJobHasReceipt' /\ Durable'
  BY <1>1, <1>7 DEF WorkingJobHasReceipt, Durable, Working
<1> QED BY <1>4, <1>5, <1>6, <1>8 DEF IInv

----------------------------------------------------------------------------
(* The theorems.                                                           *)

\* An empty store has no Job.
LEMMA InitOK == Init => IInv
<1> SUFFICES ASSUME Init PROVE IInv
  OBVIOUS
<1>1. 0 \in 0..MaxRuns /\ 0 \in 0..MaxFaults /\ 0 \in 0..MaxCrashes
  BY SubmissionAssumption
<1>2. \A x \in Handlers : h[x] = Idle /\ h[x].pc = "idle"
  BY DEF Init, Idle
<1>3. TypeOK
  BY <1>1 DEF Init, TypeOK, Idle, Pcs, JobState
<1>4. StoreOK
  BY <1>1 DEF Init, StoreOK, OneRunPerKey, Within, CancelledOff, Numbered, BundleIsOver,
              Answered, JobHasRecord
<1>5. HandlersOK /\ OneCreator
  BY <1>2, IdleOK DEF HandlersOK, OneCreator
<1>6. WorkingJobHasReceipt /\ Durable
  BY DEF Init, WorkingJobHasReceipt, Durable, Working
<1> QED BY <1>3, <1>4, <1>5, <1>6 DEF IInv

\* Every step keeps the inductive invariant.
LEMMA StepOK == IInv /\ [Next]_vars => IInv'
<1> SUFFICES ASSUME IInv, [Next]_vars PROVE IInv'
  OBVIOUS
<1>1. ASSUME NEW x \in Handlers, Post(x) PROVE IInv'
  BY <1>1, PostLookupOK, PostSaveOK, PostSubmitOK, PostRecordOK, PostAnswerOK DEF Post
<1>2. ASSUME NEW x \in Handlers, Cancel(x) PROVE IInv'
  BY <1>2, CancelReadOK, CancelLiveOK, CancelDeleteOK, CancelMarkOK DEF Cancel
<1>3. ASSUME NEW x \in Handlers, Ingest(x) PROVE IInv'
  BY <1>3, ReadOK, SaveOK DEF Ingest
<1>4. ASSUME NEW x \in Handlers, OtherSave(x) \/ FlushCopy(x) \/ FlushWrite(x)
      PROVE  IInv'
  BY <1>4, OtherSaveOK, FlushCopyOK, FlushWriteOK
<1>5. ASSUME NEW i \in Runs, RunnerEnds(i) \/ JobFinishes(i) \/ JobExpires(i) PROVE IInv'
  BY <1>5, KubernetesOK
<1>6. CASE Crash
  BY <1>6, CrashOK
<1>7. CASE UNCHANGED vars
  BY <1>7
  DEF vars, store, cluster, history, IInv, TypeOK, StoreOK, OneRunPerKey, Within, CancelledOff,
      Numbered, BundleIsOver, Answered, JobHasRecord, HandlersOK, HandlerOK, PostOK,
      WriteOK, CancelOK, Recorded, Creating, Posting, Receiving, OneCreator, WorkingJobHasReceipt, Durable, Working, Recording, history
<1> QED
  BY <1>1, <1>2, <1>3, <1>4, <1>5, <1>6, <1>7 DEF Next

\* The invariant holds for any number of request threads, keys and runs.
THEOREM Invariance == Spec => []IInv
BY InitOK, StepOK, PTL DEF Spec

\* Records, copies and Jobs keep their types, whatever overwrites what.
THEOREM TypeCorrect == Spec => []TypeOK
<1>1. IInv => TypeOK
  BY DEF IInv
<1> QED BY <1>1, Invariance, PTL

\* A Job without a record on disk is one whose record a stale flush erased:
\* build_generic_run_record persists before it submits.
THEOREM JobsAreRecordedFirst == Spec => []JobHasRecord
<1>1. IInv => JobHasRecord
  BY DEF IInv, StoreOK
<1> QED BY <1>1, Invariance, PTL

\* Repeated and concurrent POSTs under one key create one Job, across
\* restarts, as long as its record was not erased (save_run).
THEOREM IdempotentSubmission == Spec => []OneJobPerKey
<1>1. IInv => OneJobPerKey
  <2> SUFFICES ASSUME IInv, NEW i \in Runs \ erased, NEW j \in Runs \ erased,
                      job[i] # "none", job[j] # "none", disk[i].key = disk[j].key
               PROVE  i = j
    BY DEF OneJobPerKey
  <2>1. disk[i] # None /\ disk[j] # None
    BY DEF IInv, StoreOK, JobHasRecord
  <2>2. /\ mem[i] # None /\ mem[i].key = disk[i].key
        /\ mem[j] # None /\ mem[j].key = disk[j].key
    BY <2>1 DEF IInv, StoreOK, Within
  <2> QED BY <2>2 DEF IInv, StoreOK, OneRunPerKey
<1> QED BY <1>1, Invariance, PTL

\* A run marked cancelled has no Job that Kubernetes was not told to delete,
\* whoever saves over the mark (cancel_run).
THEOREM CancelIsEffective == Spec => []CancelledIsOff
<1>1. IInv => CancelledIsOff
  BY DEF IInv, StoreOK, CancelledOff, CancelledIsOff, Off
<1> QED BY <1>1, Invariance, PTL

\* A Job at work can be found through its record, unless its receipt was lost
\* in one of the named ways (build_generic_run_record, _flush, results).
THEOREM WorkingJobsAreFound == Spec => []WorkingJobHasReceipt
<1>1. IInv => WorkingJobHasReceipt
  BY DEF IInv
<1> QED BY <1>1, Invariance, PTL

\* All callers that use a key are told the same run, unless a restart did not
\* find its record (get_run_by_idempotency_key, save_run).
THEOREM OneAnswerPerKey == Spec => []AnswersAgree
<1>1. IInv => AnswersAgree
  BY DEF IInv, TypeOK, StoreOK, Answered, OneRunPerKey, AnswersAgree
<1> QED BY <1>1, Invariance, PTL

=============================================================================
