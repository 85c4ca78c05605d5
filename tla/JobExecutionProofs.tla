------------------------- MODULE JobExecutionProofs -------------------------
(***************************************************************************)
(* Proofs about the execution of one approved matrix, for every number of  *)
(* jobs, capacity, deferral cap and number of faults and crashes.  The     *)
(* inductive invariant has three parts: what a row says about the cluster, *)
(* what the loop under way may still assume of the jobs it has to visit    *)
(* (nobody else writes the rows while it holds the run lock), and how much *)
(* of the wave exists in each state the run is in or may be resumed to.    *)
(***************************************************************************)
EXTENDS JobExecution, NumberSets, FiniteSetTheorems

\* What a row says about the cluster.
RowAgrees(j) ==
    /\ job[j].ext => cluster[j] # "NONE" /\ job[j].status # "ABSENT"
    /\ job[j].status \in {"SUCCEEDED", "FAILED"} => cluster[j] = job[j].status
    /\ job[j].status = "CANCELLED" /\ job[j].ext => ~OnCluster(j)
    /\ job[j].status \in {"ABSENT", "QUEUED"} /\ ~job[j].ext => cluster[j] = "NONE"

Rows == \A j \in Jobs : RowAgrees(j)

\* The steps at which no loop is under way, and those in the middle of one.
Between == {"idle", "recover", "advance", "fill", "fill_end", "to_running",
            "to_analyzing", "reconcile"}

Inside == {"fill_submit", "fill_save", "rec_submit", "rec_save", "rec_inspect"}

\* The job the loop is at, and the ones behind it.
Current == Min(todo)

Later == todo \ {Current}

\* What a loop relies on: the jobs it read are as it read them.
Loops ==
    /\ pc \in Between => todo = {}
    /\ pc \in Inside => todo # {}
    /\ pc = "fill_loop" => todo \subseteq Waiting
    /\ pc \in {"fill_submit", "fill_save"} =>
          /\ Later \subseteq Waiting
          /\ job[Current].status = "SUBMITTING" /\ ~job[Current].ext
    /\ pc \in {"rec_loop", "rec_submit", "rec_save"} => todo \subseteq Active
    /\ pc \in {"rec_submit", "rec_save"} => ~job[Current].ext
    /\ pc = "rec_inspect" => Later \subseteq Active /\ job[Current].ext
    /\ pc \in {"cancel", "sweep"} => todo \subseteq Unfinished

\* An answer that is about to be saved is still true.
Answers ==
    pc \in {"fill_save", "rec_save"} =>
       /\ reply # "NONE"
       /\ reply # "ERROR" => cluster[Current] # "NONE"
       /\ reply \in JOB_TERMINAL_STATUSES => cluster[Current] = reply

JobPhase == {"JOB_QUEUED", "JOB_RUNNING"}

\* The run is in one of these states, was paused in one, or is being paused.
In(S) == state \in S \/ resume_state \in S \/ pausing \in S

Created(S) == \A j \in S : job[j].status # "ABSENT"

Ended == \A j \in Jobs : job[j].status \in JOB_TERMINAL_STATUSES

\* The steps that only a run with all its rows comes to.
AllCreated == {"advance", "fill", "fill_loop", "fill_submit", "fill_save", "fill_end",
               "to_running", "to_analyzing", "rec_loop", "rec_submit", "rec_save",
               "rec_inspect"}

\* How much of the wave there is: all rows before the run enters the job
\* phase, all of them terminal before it leaves for the analysis.
Wave ==
    /\ pc = "create" => Created(Jobs \ todo)
    /\ pc \in AllCreated => Created(Jobs)
    /\ In(JobPhase) => Created(Jobs)
    /\ pc = "to_analyzing" => Ended
    /\ In({"BEAKER_ANALYZING"}) =>
          /\ Ended /\ todo = {} /\ pc \in {"idle", "recover", "cancel"}
          /\ state \in {"BEAKER_ANALYZING", "PAUSED", "CANCELLED"}
          /\ state = "PAUSED" => resume_state = "BEAKER_ANALYZING"
    /\ pausing \notin TERMINAL_STATES \cup {"PAUSED"}

\* The jobs that use capacity, with the ones a loop is about to hand over or
\* may still put back.
Looping == {"fill_loop", "fill_submit", "fill_save", "rec_loop", "rec_submit",
            "rec_save", "rec_inspect"}

Claimed == Active \cup (IF pc \in Looping THEN todo ELSE {})

Capacity == Cardinality(Claimed) <= MaxParallel

IInv == TypeOK /\ Rows /\ Loops /\ Answers /\ Wave /\ Capacity

----------------------------------------------------------------------------
(* Capacity.                                                               *)

\* First(n, S) has at most n jobs.
LEMMA FirstIsBounded ==
    ASSUME NEW n \in Nat, NEW S \in SUBSET Jobs
    PROVE  /\ First(n, S) \subseteq S /\ IsFiniteSet(First(n, S))
           /\ Cardinality(First(n, S)) <= n
<1>1. NumJobs \in Nat /\ IsFiniteSet(Jobs)
  BY JobAssumption, FS_Interval DEF Jobs
<1>2. First(n, S) \subseteq S
  BY DEF First
<1>3. IsFiniteSet(S) /\ IsFiniteSet(First(n, S))
  <2>1. First(n, S) \in SUBSET Jobs
    BY <1>2
  <2> QED
    BY <1>1, <2>1, FS_Subset
<1>4. CASE First(n, S) = {}
  BY <1>2, <1>3, <1>4, FS_EmptySet
<1>5. CASE First(n, S) # {}
  <2>1. PICK m \in First(n, S) : \A y \in First(n, S) : y <= m
    <3>1. First(n, S) \in SUBSET (1..NumJobs)
      BY <1>2 DEF Jobs
    <3> QED
      BY <1>1, <1>5, <3>1, GreatestExists
  <2> DEFINE T == {i \in S : i <= m}
  <2>2. Cardinality(T) <= n /\ First(n, S) \subseteq T /\ T \subseteq S
    BY <1>2, <2>1 DEF First
  <2>3. IsFiniteSet(T) /\ Cardinality(First(n, S)) <= Cardinality(T)
    BY <1>3, <2>2, FS_Subset
  <2>4. Cardinality(T) \in Nat /\ Cardinality(First(n, S)) \in Nat
    BY <1>3, <2>3, FS_CardinalityType
  <2> HIDE DEF T
  <2> QED
    BY <1>2, <1>3, <2>2, <2>3, <2>4
<1> QED
  BY <1>4, <1>5

----------------------------------------------------------------------------
(* Jobs and loops.                                                         *)

\* Waiting and active jobs divide the unfinished ones.
LEMMA JobSets ==
    /\ Unfinished \subseteq Jobs /\ Waiting \subseteq Unfinished
    /\ Active \subseteq Unfinished /\ Waiting \cap Active = {}
    /\ \A j \in Jobs : j \in Unfinished <=> job[j].status \notin JOB_TERMINAL_STATUSES \cup {"ABSENT"}
    /\ \A j \in Jobs : j \in Waiting <=> job[j].status = "QUEUED" /\ ~job[j].ext
    /\ \A j \in Jobs : j \in Active <=> j \in Unfinished /\ j \notin Waiting
BY DEF Unfinished, Waiting, Active, JOB_TERMINAL_STATUSES

\* A loop that is not over visits a job.
LEMMA CurrentIsAJob ==
    ASSUME TypeOK, todo # {}
    PROVE  Current \in todo /\ Current \in Jobs
<1>1. todo \in SUBSET Nat
  BY JobAssumption DEF TypeOK, Jobs
<1> QED
  BY <1>1, MinIsMember DEF TypeOK, Current

JobRow == [status : JobStatus \cup {"ABSENT"}, ext : BOOLEAN]

\* A row with its status replaced.
LEMMA StatusSet ==
    ASSUME NEW e \in JobRow, NEW s
    PROVE  [e EXCEPT !.status = s] = [status |-> s, ext |-> e.ext]
BY DEF JobRow

\* The rows after one was written.
LEMMA Written ==
    ASSUME TypeOK, NEW c \in Jobs, NEW s \in JobStatus, NEW x \in BOOLEAN,
           job' = [job EXCEPT ![c] = [status |-> s, ext |-> x]]
    PROVE  /\ job' \in [Jobs -> JobRow]
           /\ job'[c].status = s /\ job'[c].ext = x
           /\ \A j \in Jobs : j # c => job'[j] = job[j]
BY DEF TypeOK, JobRow

\* The same for the sets the loops read.
LEMMA WrittenSets ==
    ASSUME TypeOK, NEW c \in Jobs, NEW s \in JobStatus, NEW x \in BOOLEAN,
           job' = [job EXCEPT ![c] = [status |-> s, ext |-> x]]
    PROVE  /\ Unfinished' \ {c} = Unfinished \ {c}
           /\ Waiting' \ {c} = Waiting \ {c}
           /\ Active' \ {c} = Active \ {c}
           /\ c \in Unfinished' <=> s \notin JOB_TERMINAL_STATUSES
           /\ c \in Waiting' <=> s = "QUEUED" /\ ~x
           /\ c \in Active' <=> s \notin JOB_TERMINAL_STATUSES /\ ~(s = "QUEUED" /\ ~x)
<1>1. /\ job'[c].status = s /\ job'[c].ext = x
      /\ \A j \in Jobs : j # c => job'[j] = job[j]
  BY Written
<1>2. s # "ABSENT"
  BY DEF JobStatus
<1>3. /\ Unfinished' \ {c} = Unfinished \ {c}
      /\ c \in Unfinished' <=> s \notin JOB_TERMINAL_STATUSES
  BY <1>1, <1>2 DEF Unfinished
<1>4. /\ Waiting' \ {c} = Waiting \ {c}
      /\ c \in Waiting' <=> s = "QUEUED" /\ ~x
  BY <1>1, <1>3 DEF Waiting, JOB_TERMINAL_STATUSES
<1> QED
  BY <1>3, <1>4 DEF Active

\* One row, or one run on the cluster, changes and still agrees.
LEMMA RowsKept ==
    ASSUME Rows, NEW c \in Jobs,
           \A j \in Jobs : j # c => job'[j] = job[j] /\ cluster'[j] = cluster[j],
           job'[c].ext => cluster'[c] # "NONE" /\ job'[c].status # "ABSENT",
           job'[c].status \in {"SUCCEEDED", "FAILED"} => cluster'[c] = job'[c].status,
           job'[c].status = "CANCELLED" /\ job'[c].ext => cluster'[c] \notin {"QUEUED", "RUNNING"},
           job'[c].status \in {"ABSENT", "QUEUED"} /\ ~job'[c].ext => cluster'[c] = "NONE"
    PROVE  Rows'
<1>1. \A j \in Jobs : j # c => RowAgrees(j)'
  BY DEF Rows, RowAgrees, OnCluster
<1>2. RowAgrees(c)'
  BY DEF RowAgrees, OnCluster
<1> QED
  BY <1>1, <1>2 DEF Rows

\* Taking no more capacity is safe.
LEMMA CapacityKept ==
    ASSUME TypeOK, Capacity, Claimed' \subseteq Claimed
    PROVE  Capacity'
<1>1. IsFiniteSet(Claimed)
  <2>1. Claimed \in SUBSET Jobs
    BY JobSets DEF Claimed, TypeOK
  <2>2. IsFiniteSet(Jobs)
    BY JobAssumption, FS_Interval DEF Jobs
  <2> QED
    BY <2>1, <2>2, FS_Subset
<1>2. IsFiniteSet(Claimed') /\ Cardinality(Claimed') <= Cardinality(Claimed)
  BY <1>1, FS_Subset
<1>3. Cardinality(Claimed') \in Nat /\ Cardinality(Claimed) \in Nat /\ MaxParallel \in Nat
  BY <1>1, <1>2, FS_CardinalityType, JobAssumption
<1> HIDE DEF Claimed
<1> QED
  BY <1>2, <1>3 DEF Capacity

----------------------------------------------------------------------------
(* The steps that write a row or call the cluster.                         *)

\* A loop in progress keeps what is known of the wave.
LEMMA WaveFrame ==
    ASSUME IInv, UNCHANGED <<state, resume_state, pausing>>, pc # "create", todo # {},
           \A j \in Jobs : job[j].status # "ABSENT" => job'[j].status # "ABSENT",
           pc' \notin {"create", "to_analyzing"},
           pc' \in AllCreated => pc \in AllCreated
    PROVE  Wave'
<1>1. Wave
  BY DEF IInv
<1>2. ~In({"BEAKER_ANALYZING"}) /\ ~In({"BEAKER_ANALYZING"})'
  BY <1>1 DEF Wave, In
<1>3. Created(Jobs) => Created(Jobs)'
  BY DEF Created
<1>4. In(JobPhase)' => In(JobPhase)
  BY DEF In
<1> QED
  BY <1>1, <1>2, <1>3, <1>4 DEF Wave

\* create_job_if_absent adds a row the cluster knows nothing of.
LEMMA CreateKeeps ==
    ASSUME IInv, create_job_if_absent
    PROVE  IInv'
<1>1. /\ TypeOK /\ Rows /\ Wave /\ pc = "create" /\ todo # {} /\ todo' = Later
      /\ UNCHANGED <<state, resume_state, approved, cluster, pc, reply, errors, deferrals,
                     pausing, cancelling, recovering, faults, crashes>>
  BY DEF IInv, create_job_if_absent, run, callers, bounds, Later, Current
<1>2. Current \in todo /\ Current \in Jobs
  BY <1>1, CurrentIsAJob
<1> DEFINE c == Current
<1>3. todo' \in SUBSET Jobs
  BY <1>1 DEF TypeOK, Later
<1>4. ~In({"BEAKER_ANALYZING"}) /\ ~In({"BEAKER_ANALYZING"})'
  BY <1>1 DEF Wave, In
<1>5. CASE job[c].status # "ABSENT"
  <2>1. job' = job
    BY <1>5 DEF create_job_if_absent, Current
  <2>2. TypeOK'
    BY <1>1, <1>3, <2>1 DEF TypeOK
  <2>3. Rows' /\ Active' = Active
    BY <1>1, <2>1 DEF Rows, RowAgrees, OnCluster, Active, Unfinished, Waiting
  <2>4. Created(Jobs \ todo)'
    BY <1>1, <1>5, <2>1 DEF Wave, Created, Later
  <2>5. Wave'
    BY <1>1, <1>4, <2>1, <2>4 DEF Wave, In, Created, AllCreated
  <2>6. Loops' /\ Answers'
    BY <1>1 DEF Loops, Answers, Between, Inside
  <2>7. Claimed' = Claimed
    BY <1>1, <2>3 DEF Claimed, Looping
  <2> QED
    BY <1>1, <2>2, <2>3, <2>5, <2>6, <2>7, CapacityKept DEF IInv
<1>6. CASE job[c].status = "ABSENT"
  <2>1. job[c].ext = FALSE /\ cluster[c] = "NONE" /\ job[c] \in JobRow
    BY <1>1, <1>2, <1>6 DEF Rows, RowAgrees, TypeOK, JobRow
  <2>2. job' = [job EXCEPT ![c] = [status |-> "QUEUED", ext |-> FALSE]]
    <3>1. job' = [job EXCEPT ![c].status = "QUEUED"]
      BY <1>6 DEF create_job_if_absent, Current
    <3>2. [job[c] EXCEPT !.status = "QUEUED"] = [status |-> "QUEUED", ext |-> FALSE]
      BY <2>1, StatusSet
    <3> HIDE DEF c
    <3>3. job' = [job EXCEPT ![c] = [job[c] EXCEPT !.status = "QUEUED"]]
      BY <3>1
    <3> QED
      BY <3>2, <3>3
  <2>3. /\ job' \in [Jobs -> JobRow]
        /\ job'[c].status = "QUEUED" /\ job'[c].ext = FALSE
        /\ \A j \in Jobs : j # c => job'[j] = job[j]
    BY <1>1, <1>2, <2>2, Written DEF JobStatus
  <2>4. TypeOK'
    BY <1>1, <1>3, <2>3 DEF TypeOK, JobRow
  <2>5. Rows'
    BY <1>1, <1>2, <2>1, <2>3 DEF Rows, RowAgrees, OnCluster
  <2>6. Active' \ {c} = Active \ {c} /\ c \notin Active' /\ c \notin Active
    <3>1. "QUEUED" \in JobStatus
      BY DEF JobStatus
    <3> QED
      BY <1>1, <1>2, <1>6, <2>2, <3>1, WrittenSets, JobSets
  <2>7. Created(Jobs \ todo)' /\ (Created(Jobs) => Created(Jobs)')
    BY <1>1, <1>2, <2>3 DEF Wave, Created, Later
  <2>8. Wave'
    BY <1>1, <1>4, <2>7 DEF Wave, In, AllCreated
  <2>9. Loops' /\ Answers'
    BY <1>1 DEF Loops, Answers, Between, Inside
  <2>10. Claimed' = Claimed
    BY <1>1, <2>6 DEF Claimed, Looping
  <2> QED
    BY <1>1, <2>4, <2>5, <2>8, <2>9, <2>10, CapacityKept DEF IInv
<1> QED
  BY <1>5, <1>6

\* _fill_job_capacity claims the next job it has room for.
LEMMA FillNextKeeps ==
    ASSUME IInv, FillNext
    PROVE  IInv'
<1>1. /\ TypeOK /\ Rows /\ Loops /\ Wave /\ Capacity /\ pc = "fill_loop"
      /\ UNCHANGED <<state, resume_state, approved, cluster, reply, errors, deferrals,
                     pausing, cancelling, recovering, faults, crashes>>
  BY DEF IInv, FillNext, run, callers, bounds
<1>2. ~In({"BEAKER_ANALYZING"}) /\ ~In({"BEAKER_ANALYZING"})'
  BY <1>1 DEF Wave, In
<1>3. CASE job' = job /\ pc' = "fill_end" /\ todo' = {}
  <2>1. TypeOK'
    BY <1>1, <1>3 DEF TypeOK
  <2>2. Rows' /\ Active' = Active
    BY <1>1, <1>3 DEF Rows, RowAgrees, OnCluster, Active, Unfinished, Waiting
  <2>3. Wave'
    BY <1>1, <1>2, <1>3 DEF Wave, In, Created, AllCreated
  <2>4. Loops' /\ Answers'
    BY <1>3 DEF Loops, Answers, Between, Inside
  <2>5. Claimed' \subseteq Claimed
    BY <1>1, <1>3, <2>2 DEF Claimed, Looping
  <2> QED
    BY <1>1, <2>1, <2>2, <2>3, <2>4, <2>5, CapacityKept DEF IInv
<1>4. CASE todo # {} /\ todo' = todo /\ pc' = "fill_submit" /\ update_job(Current, "SUBMITTING", FALSE)
  <2> DEFINE c == Current
  <2>1. c \in todo /\ c \in Jobs /\ c \in Waiting
    BY <1>1, <1>4, CurrentIsAJob DEF Loops
  <2>2. "SUBMITTING" \in JobStatus /\ FALSE \in BOOLEAN
        /\ job' = [job EXCEPT ![c] = [status |-> "SUBMITTING", ext |-> FALSE]]
    BY <1>4 DEF update_job, JobStatus
  <2>3. /\ job' \in [Jobs -> JobRow]
        /\ job'[c].status = "SUBMITTING" /\ job'[c].ext = FALSE
        /\ \A j \in Jobs : j # c => job'[j] = job[j]
    BY <1>1, <2>1, <2>2, Written
  <2>4. /\ Waiting' \ {c} = Waiting \ {c} /\ Active' \ {c} = Active \ {c}
    BY <1>1, <2>1, <2>2, WrittenSets
  <2>5. Current' = c /\ Later' = Later
    BY <1>4 DEF Later, Current
  <2> HIDE DEF c
  <2>6. TypeOK'
    BY <1>1, <1>4, <2>3 DEF TypeOK, JobRow
  <2>7. Rows'
    BY <1>1, <2>3 DEF Rows, RowAgrees, OnCluster
  <2>8. Wave'
    BY <1>1, <1>4, <2>3, WaveFrame DEF AllCreated
  <2>9. Later' \subseteq Waiting'
    BY <1>1, <2>4, <2>5 DEF Loops, Later, c
  <2>10. Loops' /\ Answers'
    BY <1>4, <2>3, <2>5, <2>9 DEF Loops, Answers, Between, Inside
  <2>11. Claimed' \subseteq Claimed
    BY <1>1, <1>4, <2>1, <2>4 DEF Claimed, Looping
  <2> QED
    BY <1>1, <2>6, <2>7, <2>8, <2>10, <2>11, CapacityKept DEF IInv
<1> QED
  BY <1>3, <1>4 DEF FillNext, Current

\* cluster.submit touches one job; its answer is true when it is given.
LEMMA Submitted ==
    ASSUME TypeOK, NEW c \in Jobs, Submit(c)
    PROVE  /\ cluster' \in [Jobs -> ClusterStatus]
           /\ \A j \in Jobs : j # c => cluster'[j] = cluster[j]
           /\ reply' \in ClusterStatus \cup {"ERROR"} /\ reply' # "NONE"
           /\ reply' # "ERROR" => cluster'[c] # "NONE"
           /\ reply' \in JOB_TERMINAL_STATUSES => cluster'[c] = reply'
           /\ faults' \in 0..MaxFaults
<1>1. faults' \in 0..MaxFaults
  BY JobAssumption DEF TypeOK, Submit, Fault
<1>2. CASE UNCHANGED cluster /\ reply' = "ERROR"
  BY <1>1, <1>2 DEF TypeOK, JOB_TERMINAL_STATUSES
<1>3. CASE /\ cluster' = [cluster EXCEPT ![c] = IF @ = "NONE" THEN "QUEUED" ELSE @]
           /\ reply' \in {cluster'[c], "QUEUED", "ERROR"}
  <2>1. /\ cluster' \in [Jobs -> ClusterStatus] /\ cluster'[c] # "NONE"
        /\ \A j \in Jobs : j # c => cluster'[j] = cluster[j]
    BY <1>3 DEF TypeOK, ClusterStatus
  <2>2. cluster'[c] \in ClusterStatus /\ "QUEUED" \in ClusterStatus
    BY <2>1 DEF ClusterStatus
  <2> QED
    BY <1>1, <1>3, <2>1, <2>2 DEF JOB_TERMINAL_STATUSES
<1> QED
  BY <1>2, <1>3 DEF Submit

\* Whatever a submission answers, the cluster has one run per job at most.
LEMMA SubmitKeeps ==
    ASSUME IInv, FillSubmit \/ ReconcileSubmit
    PROVE  IInv'
<1>1. /\ TypeOK /\ Rows /\ Loops /\ Wave /\ Capacity /\ Submit(Current)
      /\ (pc = "fill_submit" /\ pc' = "fill_save") \/ (pc = "rec_submit" /\ pc' = "rec_save")
      /\ UNCHANGED <<state, resume_state, approved, job, todo, errors, deferrals,
                     pausing, cancelling, recovering, crashes>>
  BY DEF IInv, FillSubmit, ReconcileSubmit, run, callers, Current
<1> DEFINE c == Current
<1>2. todo # {} /\ c \in todo /\ c \in Jobs
  BY <1>1, CurrentIsAJob DEF Loops, Inside
<1>3. /\ cluster' \in [Jobs -> ClusterStatus]
      /\ \A j \in Jobs : j # c => cluster'[j] = cluster[j]
      /\ reply' \in ClusterStatus \cup {"ERROR"} /\ reply' # "NONE"
      /\ reply' # "ERROR" => cluster'[c] # "NONE"
      /\ reply' \in JOB_TERMINAL_STATUSES => cluster'[c] = reply'
      /\ faults' \in 0..MaxFaults
  BY <1>1, <1>2, Submitted
<1>4. UNCHANGED <<Current, Later, Waiting, Active, Unfinished>>
  BY <1>1 DEF Current, Later, Waiting, Active, Unfinished
<1>5. job[c].status \notin {"ABSENT", "QUEUED", "SUCCEEDED", "FAILED", "CANCELLED"} /\ ~job[c].ext
  BY <1>1, <1>2, JobSets DEF Loops, JOB_TERMINAL_STATUSES
<1> HIDE DEF c
<1>6. TypeOK'
  BY <1>1, <1>3 DEF TypeOK
<1>7. Rows'
  BY <1>1, <1>3, <1>5 DEF Rows, RowAgrees, OnCluster
<1>8. Wave'
  BY <1>1, <1>2, WaveFrame DEF AllCreated
<1>9. Loops'
  BY <1>1, <1>4 DEF Loops, Between, Inside
<1>10. Answers'
  BY <1>3, <1>4 DEF Answers, c
<1>11. Claimed' = Claimed
  BY <1>1, <1>4 DEF Claimed, Looping
<1> QED
  BY <1>1, <1>6, <1>7, <1>8, <1>9, <1>10, <1>11, CapacityKept DEF IInv

\* The answer saved is the one the cluster gave.
LEMMA FillSaveKeeps ==
    ASSUME IInv, FillSave
    PROVE  IInv'
<1>1. /\ TypeOK /\ Rows /\ Loops /\ Answers /\ Wave /\ Capacity
      /\ pc = "fill_save" /\ pc' = "fill_loop" /\ todo' = Later /\ reply' = "NONE"
      /\ UNCHANGED <<state, resume_state, approved, cluster, errors, deferrals,
                     pausing, cancelling, recovering, faults, crashes>>
  BY DEF IInv, FillSave, run, callers, bounds, Later, Current
<1> DEFINE c == Current
<1>2. todo # {} /\ c \in todo /\ c \in Jobs
  BY <1>1, CurrentIsAJob DEF Loops, Inside
<1>3. PICK s \in {"UNKNOWN", "QUEUED", "RUNNING"}, x \in BOOLEAN :
         /\ job' = [job EXCEPT ![c] = [status |-> s, ext |-> x]]
         /\ x => cluster[c] # "NONE"
         /\ s = "QUEUED" => x
  <2>1. CASE reply = "ERROR"
    BY <2>1 DEF FillSave, update_job, Current
  <2>2. CASE reply # "ERROR"
    <3> DEFINE s == IF reply \in {"QUEUED", "RUNNING"} THEN reply ELSE "RUNNING"
    <3>1. s \in {"UNKNOWN", "QUEUED", "RUNNING"}
      OBVIOUS
    <3>2. job' = [job EXCEPT ![c] = [status |-> s, ext |-> TRUE]]
      BY <2>2 DEF FillSave, update_job, Current
    <3>3. cluster[c] # "NONE"
      BY <1>1, <2>2 DEF Answers
    <3> QED
      BY <3>1, <3>2, <3>3
  <2> QED
    BY <2>1, <2>2
<1>4. s \in JobStatus /\ s \notin JOB_TERMINAL_STATUSES
  BY <1>3 DEF JobStatus, JOB_TERMINAL_STATUSES
<1>5. /\ job' \in [Jobs -> JobRow] /\ job'[c].status = s /\ job'[c].ext = x
      /\ \A j \in Jobs : j # c => job'[j] = job[j]
  BY <1>1, <1>2, <1>3, <1>4, Written
<1>6. Waiting' \ {c} = Waiting \ {c} /\ Active' \ {c} = Active \ {c}
  BY <1>1, <1>2, <1>3, <1>4, WrittenSets
<1> HIDE DEF c
<1>7. TypeOK'
  <2>1. todo' \in SUBSET Jobs /\ "NONE" \in ClusterStatus
    BY <1>1 DEF TypeOK, Later, ClusterStatus
  <2> QED
    BY <1>1, <1>5, <2>1 DEF TypeOK, JobRow
<1>8. Rows'
  BY <1>1, <1>2, <1>3, <1>5, RowsKept
<1>9. Wave'
  BY <1>1, <1>2, <1>3, <1>5, WaveFrame DEF AllCreated
<1>10. Loops' /\ Answers'
  BY <1>1, <1>6 DEF Loops, Answers, Between, Inside, Later, c
<1>11. Claimed' \subseteq Claimed
  BY <1>1, <1>2, <1>6 DEF Claimed, Looping, Later, c
<1> QED
  BY <1>1, <1>7, <1>8, <1>9, <1>10, <1>11, CapacityKept DEF IInv

\* The same for an answer of reconcile_run.
LEMMA ReconcileSaveKeeps ==
    ASSUME IInv, ReconcileSave
    PROVE  IInv'
<1>1. /\ TypeOK /\ Rows /\ Loops /\ Answers /\ Wave /\ Capacity
      /\ pc = "rec_save" /\ reply' = "NONE"
      /\ UNCHANGED <<state, resume_state, approved, cluster, errors, deferrals,
                     pausing, cancelling, recovering, faults, crashes>>
  BY DEF IInv, ReconcileSave, run, callers, bounds
<1> DEFINE c == Current
<1>2. todo # {} /\ c \in todo /\ c \in Jobs
  BY <1>1, CurrentIsAJob DEF Loops, Inside
<1>3. PICK s \in JobStatus, x \in BOOLEAN :
         /\ job' = [job EXCEPT ![c] = [status |-> s, ext |-> x]]
         /\ \/ s = "UNKNOWN" /\ ~x /\ todo' = Later /\ pc' = "rec_loop"
            \/ /\ x /\ todo' = todo /\ pc' = "rec_inspect"
               /\ cluster[c] # "NONE" /\ (s \in JOB_TERMINAL_STATUSES => cluster[c] = s)
  <2>1. CASE reply = "ERROR"
    <3>1. "UNKNOWN" \in JobStatus
      BY DEF JobStatus
    <3> QED
      BY <2>1, <3>1 DEF ReconcileSave, update_job, Current, Later
  <2>2. CASE reply # "ERROR"
    <3>1. reply \in JobStatus
      BY <1>1, <2>2 DEF TypeOK, ClusterStatus, JobStatus, Answers
    <3>2. /\ job' = [job EXCEPT ![c] = [status |-> reply, ext |-> TRUE]]
          /\ todo' = todo /\ pc' = "rec_inspect"
      BY <2>2 DEF ReconcileSave, update_job, Current
    <3>3. cluster[c] # "NONE" /\ (reply \in JOB_TERMINAL_STATUSES => cluster[c] = reply)
      BY <1>1, <2>2 DEF Answers
    <3> QED
      BY <3>1, <3>2, <3>3
  <2> QED
    BY <2>1, <2>2
<1>4. s # "ABSENT"
  BY DEF JobStatus
<1>5. /\ job' \in [Jobs -> JobRow] /\ job'[c].status = s /\ job'[c].ext = x
      /\ \A j \in Jobs : j # c => job'[j] = job[j]
  BY <1>1, <1>2, <1>3, Written
<1>6. Active' \ {c} = Active \ {c}
  BY <1>1, <1>2, <1>3, WrittenSets
<1> HIDE DEF c
<1>7. todo' \in SUBSET Jobs /\ todo' \subseteq todo
  BY <1>1, <1>3 DEF TypeOK, Later
<1>8. TypeOK'
  <2>1. "NONE" \in ClusterStatus
    BY DEF ClusterStatus
  <2> QED
    BY <1>1, <1>3, <1>5, <1>7, <2>1 DEF TypeOK, JobRow
<1>9. Rows'
  <2>1. /\ x => cluster[c] # "NONE"
        /\ s \in {"SUCCEEDED", "FAILED", "CANCELLED"} => cluster[c] = s
        /\ s = "QUEUED" => x
    BY <1>3 DEF JOB_TERMINAL_STATUSES
  <2> QED
    BY <1>1, <1>2, <1>4, <1>5, <2>1, RowsKept
<1>10. Wave'
  BY <1>1, <1>2, <1>3, <1>4, <1>5, WaveFrame DEF AllCreated
<1>11. Later \subseteq Active'
  BY <1>1, <1>6 DEF Loops, Later, c
<1>12. Loops' /\ Answers'
  <2>1. CASE todo' = Later /\ pc' = "rec_loop"
    BY <1>11, <2>1 DEF Loops, Answers, Between, Inside
  <2>2. CASE x /\ todo' = todo /\ pc' = "rec_inspect"
    <3>1. Current' = c /\ Later' = Later
      BY <2>2 DEF Current, Later, c
    <3> QED
      BY <1>2, <1>5, <1>11, <2>2, <3>1 DEF Loops, Answers, Between, Inside
  <2> QED
    BY <1>3, <2>1, <2>2
<1>13. Claimed' \subseteq Claimed
  BY <1>1, <1>2, <1>3, <1>6, <1>7 DEF Claimed, Looping
<1> QED
  BY <1>1, <1>8, <1>9, <1>10, <1>12, <1>13, CapacityKept DEF IInv

\* An inspection finds the cluster's own status, or fails.
LEMMA InspectKeeps ==
    ASSUME IInv, ReconcileInspect
    PROVE  IInv'
<1>1. /\ TypeOK /\ Rows /\ Loops /\ Answers /\ Wave /\ Capacity /\ pc = "rec_inspect"
      /\ UNCHANGED <<state, resume_state, approved, cluster, reply, errors, deferrals,
                     pausing, cancelling, recovering, crashes>>
  BY DEF IInv, ReconcileInspect, run, callers
<1>f. faults' \in 0..MaxFaults
  <2>1. faults \in 0..MaxFaults /\ (faults' = faults \/ Fault)
    BY <1>1 DEF ReconcileInspect, TypeOK
  <2> QED
    BY <2>1, JobAssumption DEF Fault
<1> DEFINE c == Current
<1>2. todo # {} /\ c \in todo /\ c \in Jobs /\ job[c].ext
  BY <1>1, CurrentIsAJob DEF Loops, Inside
<1>3. cluster[c] \in JobStatus /\ cluster[c] # "NONE"
  BY <1>1, <1>2 DEF Rows, RowAgrees, TypeOK, ClusterStatus, JobStatus
<1>4. CASE pc' = "idle" /\ todo' = {} /\ job' = job
  <2>1. ~In({"BEAKER_ANALYZING"}) /\ ~In({"BEAKER_ANALYZING"})'
    BY <1>1 DEF Wave, In
  <2>2. TypeOK'
    BY <1>1, <1>f, <1>4 DEF TypeOK
  <2>3. Rows' /\ Active' = Active
    BY <1>1, <1>4 DEF Rows, RowAgrees, OnCluster, Active, Unfinished, Waiting
  <2>4. Wave'
    BY <1>1, <1>4, <2>1 DEF Wave, In, Created, AllCreated
  <2>5. Loops' /\ Answers'
    BY <1>4 DEF Loops, Answers, Between, Inside
  <2>6. Claimed' \subseteq Claimed
    BY <1>1, <1>4, <2>3 DEF Claimed, Looping
  <2> QED
    BY <1>1, <2>2, <2>3, <2>4, <2>5, <2>6, CapacityKept DEF IInv
<1>5. ASSUME NEW s \in {cluster[c], "UNKNOWN"}, pc' = "rec_loop", todo' = Later,
             job' = [job EXCEPT ![c] = [status |-> s, ext |-> TRUE]]
      PROVE  IInv'
  <2>1. s \in JobStatus /\ s # "ABSENT"
    BY <1>3 DEF JobStatus
  <2>2. /\ job' \in [Jobs -> JobRow] /\ job'[c].status = s /\ job'[c].ext = TRUE
        /\ \A j \in Jobs : j # c => job'[j] = job[j]
    BY <1>1, <1>2, <1>5, <2>1, Written
  <2>3. Active' \ {c} = Active \ {c}
    BY <1>1, <1>2, <1>5, <2>1, WrittenSets
  <2> HIDE DEF c
  <2>4. TypeOK'
    <3>1. todo' \in SUBSET Jobs
      BY <1>1, <1>5 DEF TypeOK, Later
    <3> QED
      BY <1>1, <1>f, <1>5, <2>2, <3>1 DEF TypeOK, JobRow
  <2>5. Rows'
    BY <1>1, <1>2, <1>3, <1>5, <2>1, <2>2, RowsKept
  <2>6. Wave'
    BY <1>1, <1>2, <1>5, <2>1, <2>2, WaveFrame DEF AllCreated
  <2>7. Loops' /\ Answers'
    BY <1>1, <1>5, <2>3 DEF Loops, Answers, Between, Inside, Later, c
  <2>8. Claimed' \subseteq Claimed
    BY <1>1, <1>2, <1>5, <2>3 DEF Claimed, Looping, Later
  <2> QED
    BY <1>1, <2>4, <2>5, <2>6, <2>7, <2>8, CapacityKept DEF IInv
<1> QED
  BY <1>4, <1>5 DEF ReconcileInspect, update_job, Current, Later

\* A cancelled row is of a job the cluster does not have, or has ended.
LEMMA CancelNextKeeps ==
    ASSUME IInv, CancelNext
    PROVE  IInv'
<1>1. /\ TypeOK /\ Rows /\ Loops /\ Answers /\ Wave /\ Capacity
      /\ pc \in {"cancel", "sweep"} /\ todo # {} /\ todo' = Later /\ CancelJob(Current)
      /\ UNCHANGED <<state, resume_state, approved, pc, reply, deferrals,
                     pausing, cancelling, recovering, crashes>>
  BY DEF IInv, CancelNext, run, callers, Current, Later
<1> DEFINE c == Current
<1>2. c \in todo /\ c \in Jobs /\ c \in Unfinished
  BY <1>1, CurrentIsAJob DEF Loops
<1>3. /\ job[c].status \notin {"ABSENT", "SUCCEEDED", "FAILED", "CANCELLED"}
      /\ job[c].ext \in BOOLEAN
  BY <1>1, <1>2, JobSets DEF JOB_TERMINAL_STATUSES, TypeOK
<1>4. /\ cluster' \in [Jobs -> ClusterStatus]
      /\ \A j \in Jobs : j # c => cluster'[j] = cluster[j]
      /\ job[c].ext => cluster'[c] # "NONE"
      /\ ~job[c].ext => cluster'[c] = cluster[c]
  <2>1. job[c].ext => cluster[c] # "NONE"
    BY <1>1, <1>2 DEF Rows, RowAgrees
  <2>2. \/ cluster' = cluster
        \/ job[c].ext /\ cluster' = [cluster EXCEPT ![c] = IF OnCluster(c) THEN "CANCELLED" ELSE @]
        \/ job[c].ext /\ cluster' = [cluster EXCEPT ![c] = "CANCELLED"]
    BY <1>1 DEF CancelJob
  <2> QED
    BY <1>1, <1>2, <2>1, <2>2 DEF TypeOK, ClusterStatus
<1>5. errors' \in BOOLEAN /\ faults' \in 0..MaxFaults
  <2>1. /\ faults \in 0..MaxFaults /\ (faults' = faults \/ Fault)
        /\ errors \in BOOLEAN /\ (errors' = errors \/ errors' = TRUE)
    BY <1>1 DEF CancelJob, TypeOK
  <2>2. errors' \in BOOLEAN
    BY <2>1
  <2> QED
    BY <2>1, <2>2, JobAssumption DEF Fault
<1>6. /\ job' \in [Jobs -> JobRow] /\ \A j \in Jobs : j # c => job'[j] = job[j]
      /\ job'[c].ext = job[c].ext
      /\ \/ job'[c].status = job[c].status
         \/ job'[c].status = "CANCELLED" /\ (job[c].ext => cluster'[c] \notin {"QUEUED", "RUNNING"})
      /\ Unfinished' \ {c} = Unfinished \ {c} /\ Active' \subseteq Active
  <2>1. CASE job' = job
    BY <1>1, <2>1 DEF TypeOK, JobRow, Unfinished, Active, Waiting
  <2>2. CASE /\ job' = [job EXCEPT ![c] = [status |-> "CANCELLED", ext |-> job[c].ext]]
             /\ job[c].ext => cluster' = [cluster EXCEPT ![c] = IF OnCluster(c) THEN "CANCELLED" ELSE @]
    <3>1. "CANCELLED" \in JobStatus /\ "CANCELLED" \in JOB_TERMINAL_STATUSES
      BY DEF JobStatus, JOB_TERMINAL_STATUSES
    <3>2. /\ job' \in [Jobs -> JobRow] /\ job'[c].status = "CANCELLED"
          /\ job'[c].ext = job[c].ext
          /\ \A j \in Jobs : j # c => job'[j] = job[j]
      BY <1>1, <1>2, <1>3, <2>2, <3>1, Written
    <3>3. /\ Unfinished' \ {c} = Unfinished \ {c} /\ Active' \ {c} = Active \ {c}
          /\ c \notin Active'
      BY <1>1, <1>2, <1>3, <2>2, <3>1, WrittenSets
    <3>4. job[c].ext => cluster'[c] \notin {"QUEUED", "RUNNING"}
      BY <1>1, <1>2, <2>2 DEF OnCluster, TypeOK
    <3> QED
      BY <3>2, <3>3, <3>4
  <2> QED
    BY <1>1, <2>1, <2>2 DEF CancelJob, update_job
<1> HIDE DEF c
<1>7. TypeOK'
  <2>1. todo' \in SUBSET Jobs
    BY <1>1 DEF TypeOK, Later
  <2> QED
    BY <1>1, <1>4, <1>5, <1>6, <2>1 DEF TypeOK, JobRow
<1>8. Rows'
  <2>1. job[c].status \in {"ABSENT", "QUEUED"} /\ ~job[c].ext => cluster[c] = "NONE"
    BY <1>1, <1>2 DEF Rows, RowAgrees
  <2> QED
    BY <1>1, <1>2, <1>3, <1>4, <1>6, <2>1, RowsKept
<1>9. Wave'
  BY <1>1, <1>2, <1>3, <1>6, WaveFrame DEF AllCreated
<1>10. Loops' /\ Answers'
  BY <1>1, <1>6 DEF Loops, Answers, Between, Inside, Later, c
<1>11. Claimed' \subseteq Claimed
  BY <1>1, <1>6 DEF Claimed, Looping
<1> QED
  BY <1>1, <1>7, <1>8, <1>9, <1>10, <1>11, CapacityKept DEF IInv

\* The cluster moves only jobs it has; what a row or an answer says of a
\* finished one stays true.
LEMMA ClusterKeeps ==
    ASSUME IInv, NEW c \in Jobs, ClusterStarts(c) \/ ClusterFinishes(c)
    PROVE  IInv'
<1>1. /\ TypeOK /\ Rows /\ Loops /\ Answers /\ Wave /\ Capacity /\ OnCluster(c)
      /\ UNCHANGED <<state, resume_state, approved, job, pc, todo, reply, errors, deferrals,
                     pausing, cancelling, recovering, faults, crashes>>
  BY DEF IInv, ClusterStarts, ClusterFinishes, OnCluster, run, worker, callers, bounds
<1>2. PICK s \in {"RUNNING", "SUCCEEDED", "FAILED", "CANCELLED"} :
         cluster' = [cluster EXCEPT ![c] = s]
  BY DEF ClusterStarts, ClusterFinishes
<1>3. /\ cluster' \in [Jobs -> ClusterStatus] /\ cluster'[c] # "NONE"
      /\ \A j \in Jobs : j # c => cluster'[j] = cluster[j]
  BY <1>1, <1>2 DEF TypeOK, ClusterStatus
<1>4. UNCHANGED <<Current, Later, Waiting, Active, Unfinished>>
  BY <1>1 DEF Current, Later, Waiting, Active, Unfinished
<1>5. TypeOK'
  BY <1>1, <1>3 DEF TypeOK
<1>6. Rows'
  BY <1>1, <1>3 DEF Rows, RowAgrees, OnCluster
<1>7. Answers'
  <2>1. pc \in {"fill_save", "rec_save"} => Current \in Jobs
    BY <1>1, CurrentIsAJob DEF Loops, Inside
  <2> QED
    BY <1>1, <1>3, <1>4, <2>1 DEF Answers, OnCluster, JOB_TERMINAL_STATUSES
<1>8. Loops' /\ Wave' /\ Claimed' = Claimed
  BY <1>1, <1>4 DEF Loops, Wave, Created, In, Ended, Claimed
<1> QED
  BY <1>1, <1>5, <1>6, <1>7, <1>8, CapacityKept DEF IInv

----------------------------------------------------------------------------
(* The steps that write no row and call no cluster.                        *)

\* Without a write to a row or the cluster no job changes its class.
LEMMA QuietSets ==
    ASSUME UNCHANGED <<job, cluster>>, Rows
    PROVE  /\ UNCHANGED <<Unfinished, Waiting, Active>>
           /\ Rows'
           /\ \A S : Created(S) <=> (\A j \in S : job'[j].status # "ABSENT")
           /\ Ended' = Ended
BY DEF Unfinished, Waiting, Active, Rows, RowAgrees, OnCluster, Created, Ended

\* A step that writes neither rows nor cluster keeps what was true of them.
LEMMA QuietKeeps ==
    ASSUME IInv, UNCHANGED <<job, cluster>>, TypeOK', Loops', Answers', Wave',
           Claimed' \subseteq Claimed
    PROVE  IInv'
BY QuietSets, CapacityKept DEF IInv

\* Steps that leave the run alone and take the lock, give it back, or go on.
LEMMA SubmitStepsKeep ==
    ASSUME IInv, approve_action \/ SubmitRecheck \/ SubmitAdvance
    PROVE  IInv'
<1>1. /\ TypeOK /\ Rows /\ Loops /\ Answers /\ Wave
      /\ UNCHANGED <<resume_state, job, cluster, reply, errors, deferrals,
                     pausing, cancelling, recovering, faults, crashes>>
      /\ \/ /\ pc = "idle" /\ state = "AWAITING_EXECUTION_APPROVAL" /\ state' = state
            /\ approved' = TRUE /\ pc' = "create" /\ todo' = Jobs
         \/ /\ pc = "create" /\ todo = {} /\ todo' = todo /\ pc' \in {"advance", "idle"}
            /\ UNCHANGED <<state, approved>>
         \/ /\ pc = "advance" /\ todo' = todo /\ approved' = approved
            /\ (pc' = "fill" /\ state' = "JOB_QUEUED") \/ (pc' = "idle" /\ state' = state)
  BY DEF IInv, approve_action, SubmitRecheck, SubmitAdvance, Advance, Goto, run, callers, bounds
<1>2. UNCHANGED Active
  BY <1>1, QuietSets
<1>3. TypeOK'
  <2>1. approved \in BOOLEAN /\ (approved' = approved \/ approved' = TRUE)
    BY <1>1 DEF TypeOK
  <2>2. approved' \in BOOLEAN
    BY <2>1
  <2>3. state' \in JobStates /\ todo' \in SUBSET Jobs
    BY <1>1 DEF TypeOK, JobStates
  <2>4. pc' \in {"create", "advance", "idle", "fill"}
    BY <1>1
  <2> QED
    BY <1>1, <2>2, <2>3, <2>4 DEF TypeOK
<1>4. Loops' /\ Answers'
  BY <1>1 DEF Loops, Answers, Between, Inside
<1>5. ~In({"BEAKER_ANALYZING"}) /\ ~In({"BEAKER_ANALYZING"})'
  BY <1>1 DEF Wave, In
<1>6. Wave'
  <2>1. pc' # "create" => Created(Jobs) \/ pc' = "idle"
    BY <1>1 DEF Wave, Created, AllCreated
  <2>2. In(JobPhase)' => In(JobPhase) \/ pc = "advance"
    BY <1>1 DEF In
  <2>3. Created(Jobs) => Created(Jobs)'
    BY <1>1 DEF Created
  <2>4. pc' = "create" => Created(Jobs \ todo)'
    BY <1>1 DEF Created
  <2>5. In(JobPhase)' => Created(Jobs)
    BY <1>1, <2>2 DEF Wave, AllCreated
  <2> QED
    BY <1>1, <1>5, <2>1, <2>3, <2>4, <2>5 DEF Wave, AllCreated
<1>7. Claimed' \subseteq Claimed
  BY <1>1, <1>2 DEF Claimed, Looping
<1> QED
  BY <1>1, <1>3, <1>4, <1>6, <1>7, QuietKeeps

\* The loop starts from the rows as they are.
LEMMA FillReadKeeps ==
    ASSUME IInv, FillRead
    PROVE  IInv'
<1>1. /\ TypeOK /\ Rows /\ Loops /\ Wave /\ Capacity /\ pc = "fill" /\ pc' = "fill_loop"
      /\ todo' = First(MaxParallel - Cardinality(Active), Waiting)
      /\ UNCHANGED <<state, resume_state, approved, job, cluster, reply, errors, deferrals,
                     pausing, cancelling, recovering, faults, crashes>>
  BY DEF IInv, FillRead, run, callers, bounds
<1>2. UNCHANGED <<Unfinished, Waiting, Active>> /\ Rows'
  BY <1>1, QuietSets
<1>3. Active \in SUBSET Jobs /\ Waiting \in SUBSET Jobs /\ IsFiniteSet(Jobs)
  BY JobSets, JobAssumption, FS_Interval DEF Jobs
<1>4. IsFiniteSet(Active) /\ Cardinality(Active) \in Nat
  BY <1>3, FS_Subset, FS_CardinalityType
<1>5. Cardinality(Active) <= MaxParallel
  BY <1>1 DEF Capacity, Claimed, Looping
<1> DEFINE n == MaxParallel - Cardinality(Active)
<1>6. n \in Nat /\ Cardinality(Active) + n = MaxParallel
  BY <1>4, <1>5, JobAssumption
<1> HIDE DEF n
<1>7. /\ todo' \subseteq Waiting /\ IsFiniteSet(todo') /\ Cardinality(todo') <= n
  BY <1>1, <1>3, <1>6, FirstIsBounded DEF n
<1>8. TypeOK'
  BY <1>1, <1>3, <1>7 DEF TypeOK
<1>9. Loops' /\ Answers'
  BY <1>1, <1>2, <1>7 DEF Loops, Answers, Between, Inside
<1>10. Wave'
  <2>1. ~In({"BEAKER_ANALYZING"})'
    BY <1>1 DEF Wave, In
  <2> QED
    BY <1>1, <2>1 DEF Wave, In, AllCreated, Created
<1>11. Capacity'
  <2>1. Claimed' = Active \cup todo'
    BY <1>1, <1>2 DEF Claimed, Looping
  <2>2. /\ IsFiniteSet(Active \cup todo')
        /\ Cardinality(Active \cup todo') <= Cardinality(Active) + Cardinality(todo')
    <3>1. Cardinality(Active \cap todo') \in Nat /\ Cardinality(todo') \in Nat
      BY <1>4, <1>7, FS_Intersection, FS_CardinalityType
    <3>2. /\ IsFiniteSet(Active \cup todo')
          /\ Cardinality(Active \cup todo') =
                Cardinality(Active) + Cardinality(todo') - Cardinality(Active \cap todo')
      BY <1>4, <1>7, FS_Union
    <3> QED
      BY <1>4, <3>1, <3>2
  <2>3. Cardinality(todo') \in Nat /\ Cardinality(Active \cup todo') \in Nat
    BY <1>7, <2>2, FS_CardinalityType
  <2>4. Cardinality(Active \cup todo') <= MaxParallel
    BY <1>4, <1>6, <1>7, <2>2, <2>3, JobAssumption
  <2> QED
    BY <2>1, <2>4 DEF Capacity
<1> QED
  BY <1>2, <1>8, <1>9, <1>10, <1>11 DEF IInv

\* The wave is over only when every row is terminal.
LEMMA FillEndKeeps ==
    ASSUME IInv, FillEnd
    PROVE  IInv'
<1>1. /\ TypeOK /\ Rows /\ Loops /\ Wave /\ pc = "fill_end"
      /\ UNCHANGED <<state, resume_state, approved, job, cluster, todo, reply, errors,
                     pausing, cancelling, recovering, faults, crashes>>
  BY DEF IInv, FillEnd, FillEndWith, run, callers, bounds
<1>2. UNCHANGED <<Unfinished, Waiting, Active>>
  BY <1>1, QuietSets
<1>3. /\ pc' \in {"to_running", "idle", "to_analyzing"}
      /\ pc' = "to_analyzing" => Unfinished = {}
  BY DEF FillEnd, FillEndWith
<1>4. deferrals' \in 0..DeferralCap
  <2>1. \/ deferrals' = deferrals \/ deferrals' = 0
        \/ deferrals < DeferralCap /\ deferrals' = deferrals + 1
    BY DEF FillEnd, FillEndWith
  <2>2. deferrals \in 0..DeferralCap
    BY <1>1 DEF TypeOK
  <2> QED
    BY <2>1, <2>2, JobAssumption
<1>5. TypeOK'
  BY <1>1, <1>3, <1>4 DEF TypeOK
<1>6. Loops' /\ Answers'
  BY <1>1, <1>3 DEF Loops, Answers, Between, Inside
<1>7. Wave'
  <2>1. ~In({"BEAKER_ANALYZING"})'
    BY <1>1 DEF Wave, In
  <2>2. pc' = "to_analyzing" => Ended'
    BY <1>1, <1>3, JobSets DEF Wave, AllCreated, Created, Ended
  <2> QED
    BY <1>1, <1>3, <2>1, <2>2 DEF Wave, In, AllCreated, Created
<1>8. Claimed' \subseteq Claimed
  BY <1>1, <1>2, <1>3 DEF Claimed, Looping
<1> QED
  BY <1>1, <1>5, <1>6, <1>7, <1>8, QuietKeeps

\* The moves of the run between the job states keep the wave.
LEMMA FillMovesKeep ==
    ASSUME IInv, FillToRunning \/ FillToAnalyzing
    PROVE  IInv'
<1>1. /\ TypeOK /\ Rows /\ Loops /\ Wave /\ pc \in {"to_running", "to_analyzing"} /\ pc' = "idle"
      /\ \/ state' = state
         \/ state' = "JOB_RUNNING"
         \/ state' = "BEAKER_ANALYZING" /\ pc = "to_analyzing"
      /\ UNCHANGED <<resume_state, approved, job, cluster, todo, reply, errors, deferrals,
                     pausing, cancelling, recovering, faults, crashes>>
  BY DEF IInv, FillToRunning, FillToAnalyzing, Advance, callers, bounds
<1>2. UNCHANGED <<Unfinished, Waiting, Active>>
  BY <1>1, QuietSets
<1>3. TypeOK'
  BY <1>1 DEF TypeOK, JobStates
<1>4. Loops' /\ Answers'
  BY <1>1 DEF Loops, Answers, Between, Inside
<1>5. Wave'
  <2>1. /\ ~In({"BEAKER_ANALYZING"}) /\ Created(Jobs) /\ todo' = {}
        /\ pc = "to_analyzing" => Ended
    BY <1>1 DEF Wave, In, AllCreated, Loops, Between
  <2>2. Created(Jobs)' /\ (pc = "to_analyzing" => Ended')
    BY <1>1, <2>1 DEF Created, Ended
  <2>3. In({"BEAKER_ANALYZING"})' => Ended' /\ state' = "BEAKER_ANALYZING"
    BY <1>1, <2>1, <2>2 DEF In
  <2> QED
    BY <1>1, <2>1, <2>2, <2>3 DEF Wave, AllCreated
<1>6. Claimed' \subseteq Claimed
  BY <1>1, <1>2 DEF Claimed, Looping
<1> QED
  BY <1>1, <1>3, <1>4, <1>5, <1>6, QuietKeeps

\* reconcile_run starts and ends from the rows as they are.
LEMMA ReconcileStepsKeep ==
    ASSUME IInv, WatcherPoll \/ ReconcileRead \/ ReconcileNext
    PROVE  IInv'
<1>1. /\ TypeOK /\ Rows /\ Loops /\ Wave
      /\ UNCHANGED <<state, resume_state, approved, job, cluster, reply, errors, deferrals,
                     pausing, cancelling, recovering, faults, crashes>>
      /\ \/ /\ pc = "idle" /\ pc' = "reconcile" /\ todo' = todo /\ state \in JobPhase
         \/ pc = "reconcile" /\ state \in JobPhase /\ pc' = "rec_loop" /\ todo' = Active
         \/ pc = "reconcile" /\ pc' = "idle" /\ todo' = {}
         \/ /\ pc = "rec_loop" /\ todo' = todo
            /\ \/ todo = {} /\ pc' = "fill"
               \/ todo # {} /\ job[Current].ext /\ pc' = "rec_inspect"
               \/ todo # {} /\ ~job[Current].ext /\ pc' = "rec_submit"
  BY DEF IInv, WatcherPoll, ReconcileRead, ReconcileNext, Goto, run, callers, bounds, JobPhase,
         Current
<1>2. UNCHANGED <<Unfinished, Waiting, Active>>
  BY <1>1, QuietSets
<1>3. todo' \in SUBSET Jobs /\ (pc = "rec_loop" => UNCHANGED <<Current, Later>>)
  BY <1>1, JobSets DEF TypeOK, Current, Later
<1>4. TypeOK'
  <2>1. pc' \in {"reconcile", "rec_loop", "idle", "fill", "rec_inspect", "rec_submit"}
    BY <1>1
  <2> QED
    BY <1>1, <1>3, <2>1 DEF TypeOK
<1>5. Loops' /\ Answers'
  <2>1. CASE pc = "rec_loop"
    <3>1. todo \subseteq Active /\ Later \subseteq Active
      BY <1>1, <2>1 DEF Loops, Later
    <3> QED
      BY <1>1, <1>2, <1>3, <2>1, <3>1 DEF Loops, Answers, Between, Inside
  <2>2. CASE pc # "rec_loop"
    BY <1>1, <1>2, <2>2 DEF Loops, Answers, Between, Inside
  <2> QED
    BY <2>1, <2>2
<1>6. Wave'
  <2>1. In({"BEAKER_ANALYZING"})' => In({"BEAKER_ANALYZING"}) /\ pc' = "idle" /\ todo' = {}
    BY <1>1 DEF Wave, In, JobPhase
  <2>2. pc' \in AllCreated => Created(Jobs)'
    BY <1>1 DEF Wave, In, AllCreated, Created
  <2>3. pc' \notin {"create", "to_analyzing"}
    BY <1>1
  <2> QED
    BY <1>1, <2>1, <2>2, <2>3 DEF Wave, In, Created, Ended
<1>7. Claimed' \subseteq Claimed
  BY <1>1, <1>2 DEF Claimed, Looping
<1> QED
  BY <1>1, <1>4, <1>5, <1>6, <1>7, QuietKeeps

\* cancel_run and the sweep list every job that is not terminal.
LEMMA CancelStepsKeep ==
    ASSUME IInv, CancelStart \/ SweepStart \/ CancelEnd \/ SweepEnd
    PROVE  IInv'
<1>1. /\ TypeOK /\ Rows /\ Loops /\ Wave
      /\ UNCHANGED <<resume_state, approved, job, cluster, reply, deferrals,
                     pausing, recovering, faults, crashes>>
      /\ \/ pc = "idle" /\ pc' = "cancel" /\ todo' = Unfinished /\ state' = state
         \/ pc = "idle" /\ pc' = "sweep" /\ todo' = Unfinished /\ Unfinished # {} /\ state' = state
         \/ /\ pc \in {"cancel", "sweep"} /\ pc' = "idle" /\ todo = {} /\ todo' = {}
            /\ state' \in {state, "CANCELLED"}
  BY DEF IInv, CancelStart, SweepStart, CancelEnd, SweepEnd, Advance, run, callers, bounds
<1>2. UNCHANGED <<Unfinished, Waiting, Active>>
  BY <1>1, QuietSets
<1>3. TypeOK'
  <2>1. (cancelling' = cancelling \/ cancelling' = FALSE) /\ (errors' = errors \/ errors' = FALSE)
    BY DEF CancelStart, SweepStart, CancelEnd, SweepEnd, callers
  <2>2. cancelling \in BOOLEAN /\ errors \in BOOLEAN
    BY <1>1 DEF TypeOK
  <2>3. cancelling' \in BOOLEAN /\ errors' \in BOOLEAN
    BY <2>1, <2>2
  <2>4. state' \in JobStates /\ todo' \in SUBSET Jobs /\ pc' \in {"cancel", "sweep", "idle"}
    BY <1>1, JobSets DEF TypeOK, JobStates
  <2> QED
    BY <1>1, <2>3, <2>4 DEF TypeOK
<1>4. Loops' /\ Answers'
  BY <1>1, <1>2 DEF Loops, Answers, Between, Inside
<1>5. Wave'
  <2>1. In(JobPhase)' => In(JobPhase)
    BY <1>1 DEF In, JobPhase
  <2>2. In({"BEAKER_ANALYZING"})' => In({"BEAKER_ANALYZING"})
    BY <1>1 DEF In
  <2>3. Ended => Unfinished = {}
    BY JobSets DEF Ended
  <2>4. (Created(Jobs) => Created(Jobs)') /\ Ended' = Ended
    BY <1>1 DEF Created, Ended
  <2>5. pc' \notin AllCreated \cup {"create", "to_analyzing"}
    BY <1>1 DEF AllCreated
  <2>6. In({"BEAKER_ANALYZING"})' =>
            /\ Ended' /\ todo' = {} /\ pc' \in {"idle", "recover", "cancel"}
            /\ state' \in {"BEAKER_ANALYZING", "PAUSED", "CANCELLED"}
            /\ state' = "PAUSED" => resume_state' = "BEAKER_ANALYZING"
    BY <1>1, <2>2, <2>3, <2>4 DEF Wave
  <2> QED
    BY <1>1, <2>1, <2>4, <2>5, <2>6 DEF Wave
<1>6. Claimed' \subseteq Claimed
  BY <1>1, <1>2 DEF Claimed, Looping
<1> QED
  BY <1>1, <1>3, <1>4, <1>5, <1>6, QuietKeeps

\* Steps of handlers that do not hold the lock.
LEMMA CallersKeep ==
    ASSUME IInv, CancelRequest \/ AbandonedCancel \/ PauseRead \/ PauseWrite \/ RecoverFails
    PROVE  IInv'
<1>1. /\ TypeOK /\ Rows /\ Loops /\ Answers /\ Wave
      /\ UNCHANGED <<approved, job, cluster, pc, todo, reply, errors, deferrals, crashes>>
  BY DEF IInv, CancelRequest, AbandonedCancel, PauseRead, PauseWrite, RecoverFails,
         run, worker, callers, bounds
<1>2. \/ UNCHANGED <<state, resume_state, pausing>>
      \/ /\ state = "PAUSED" /\ state' = "CANCELLED" /\ UNCHANGED <<resume_state, pausing>>
      \/ /\ UNCHANGED <<state, resume_state>> /\ pausing' = state
         /\ state \notin TERMINAL_STATES \cup {"PAUSED"}
      \/ /\ state' = "PAUSED" /\ resume_state' = pausing /\ pausing' = "NONE" /\ pausing # "NONE"
      \/ /\ UNCHANGED <<state, resume_state>> /\ pausing' = "NONE"
      \/ /\ state \in {"AWAITING_EXECUTION_APPROVAL", "JOB_QUEUED", "JOB_RUNNING"}
         /\ state' = "FAILED" /\ UNCHANGED <<resume_state, pausing>>
  BY DEF CancelRequest, AbandonedCancel, PauseRead, PauseWrite, RecoverFails, run, callers
<1>3. UNCHANGED <<Unfinished, Waiting, Active, Current, Later>>
  BY <1>1, QuietSets DEF Current, Later
<1>4. TypeOK'
  <2>1. faults' \in 0..MaxFaults
    <3>1. faults \in 0..MaxFaults /\ (faults' = faults \/ Fault)
      BY <1>1 DEF TypeOK, CancelRequest, AbandonedCancel, PauseRead, PauseWrite, RecoverFails, bounds
    <3> QED
      BY <3>1, JobAssumption DEF Fault
  <2>2. cancelling' \in BOOLEAN /\ recovering' \in BOOLEAN
    <3>1. (cancelling' = cancelling \/ cancelling' = TRUE) /\ (recovering' = recovering \/ recovering' = FALSE)
      BY DEF CancelRequest, AbandonedCancel, PauseRead, PauseWrite, RecoverFails, callers
    <3>2. cancelling \in BOOLEAN /\ recovering \in BOOLEAN
      BY <1>1 DEF TypeOK
    <3> QED
      BY <3>1, <3>2
  <2>3. pausing \notin TERMINAL_STATES \cup {"PAUSED"}
    BY <1>1 DEF Wave
  <2>4. /\ state' \in JobStates /\ pausing' \in JobStates \cup {"NONE"}
        /\ resume_state' \in (JobStates \ (TERMINAL_STATES \cup {"PAUSED"})) \cup {"NONE"}
    BY <1>1, <1>2, <2>3 DEF TypeOK, JobStates
  <2> QED
    BY <1>1, <2>1, <2>2, <2>4 DEF TypeOK
<1>5. Loops' /\ Answers'
  BY <1>1, <1>3 DEF Loops, Answers
<1>6. Wave'
  <2>1. In(JobPhase)' => In(JobPhase)
    BY <1>2 DEF In, JobPhase
  <2>2. Created(Jobs)' = Created(Jobs) /\ Ended' = Ended /\ Created(Jobs \ todo)' = Created(Jobs \ todo)
    BY <1>1 DEF Created, Ended
  <2>3. pausing' \notin TERMINAL_STATES \cup {"PAUSED"}
    BY <1>1, <1>2 DEF Wave, TERMINAL_STATES
  <2>4. In({"BEAKER_ANALYZING"})' =>
            /\ In({"BEAKER_ANALYZING"})
            /\ state' \in {"BEAKER_ANALYZING", "PAUSED", "CANCELLED"}
            /\ state' = "PAUSED" => resume_state' = "BEAKER_ANALYZING"
    <3>1. In({"BEAKER_ANALYZING"})' => In({"BEAKER_ANALYZING"})
      BY <1>2 DEF In
    <3>2. In({"BEAKER_ANALYZING"}) =>
            /\ state \in {"BEAKER_ANALYZING", "PAUSED", "CANCELLED"}
            /\ state = "PAUSED" => resume_state = "BEAKER_ANALYZING"
      BY <1>1 DEF Wave
    <3> QED
      BY <1>2, <3>1, <3>2 DEF In
  <2> QED
    BY <1>1, <2>1, <2>2, <2>3, <2>4 DEF Wave
<1>7. Claimed' \subseteq Claimed
  BY <1>1, <1>3 DEF Claimed
<1> QED
  BY <1>1, <1>4, <1>5, <1>6, <1>7, QuietKeeps

\* Resumes and recovery go on from the rows as they are.
LEMMA RecoveryKeeps ==
    ASSUME IInv, resume_run \/ RecoverStart \/ RecoverDispatch
    PROVE  IInv'
<1>1. /\ TypeOK /\ Rows /\ Loops /\ Wave
      /\ UNCHANGED <<approved, job, cluster, reply, errors, deferrals, pausing, cancelling,
                     faults, crashes>>
  BY DEF IInv, resume_run, RecoverStart, RecoverDispatch, Goto, run, callers, bounds
<1>2. \/ /\ pc = "idle" /\ state = "PAUSED" /\ resume_state # "NONE" /\ state' = resume_state
         /\ resume_state' = "NONE" /\ pc' = "recover" /\ todo' = todo
      \/ /\ pc = "idle" /\ pc' \in {"idle", "recover"} /\ todo' = todo
         /\ UNCHANGED <<state, resume_state>>
      \/ /\ pc = "recover" /\ UNCHANGED <<state, resume_state>>
         /\ \/ pc' = "create" /\ todo' = Jobs /\ state = "AWAITING_EXECUTION_APPROVAL"
            \/ pc' = "reconcile" /\ todo' = todo /\ state \in JobPhase
            \/ pc' = "idle" /\ todo' = todo
  BY DEF resume_run, RecoverStart, RecoverDispatch, Goto, run, JobPhase
<1>3. UNCHANGED <<Unfinished, Waiting, Active>> /\ todo = {}
  BY <1>1, <1>2, QuietSets DEF Loops, Between
<1>4. TypeOK'
  <2>1. recovering' \in BOOLEAN
    <3>1. recovering' = recovering \/ recovering' = FALSE
      BY DEF resume_run, RecoverStart, RecoverDispatch, callers
    <3>2. recovering \in BOOLEAN
      BY <1>1 DEF TypeOK
    <3> QED
      BY <3>1, <3>2
  <2>2. /\ state' \in JobStates /\ todo' \in SUBSET Jobs
        /\ resume_state' \in (JobStates \ (TERMINAL_STATES \cup {"PAUSED"})) \cup {"NONE"}
    BY <1>1, <1>2 DEF TypeOK
  <2>3. pc' \in {"idle", "recover", "create", "reconcile"}
    BY <1>2
  <2> QED
    BY <1>1, <2>1, <2>2, <2>3 DEF TypeOK
<1>5. Loops' /\ Answers'
  BY <1>2, <1>3 DEF Loops, Answers, Between, Inside
<1>6. Wave'
  <2>1. In(JobPhase)' => In(JobPhase)
    BY <1>1, <1>2 DEF In, JobPhase
  <2>2. Created(Jobs)' = Created(Jobs) /\ Ended' = Ended /\ (pc' = "create" => Created(Jobs \ todo)')
    BY <1>1, <1>2 DEF Created, Ended
  <2>3. pc' \notin AllCreated
    BY <1>2 DEF AllCreated
  <2>4. In({"BEAKER_ANALYZING"})' =>
            /\ In({"BEAKER_ANALYZING"}) /\ todo' = {} /\ pc' \in {"idle", "recover", "cancel"}
            /\ state' \in {"BEAKER_ANALYZING", "PAUSED", "CANCELLED"}
            /\ state' = "PAUSED" => resume_state' = "BEAKER_ANALYZING"
    <3>1. In({"BEAKER_ANALYZING"})' => In({"BEAKER_ANALYZING"})
      BY <1>1, <1>2 DEF In
    <3>2. In({"BEAKER_ANALYZING"}) =>
            /\ state \in {"BEAKER_ANALYZING", "PAUSED", "CANCELLED"}
            /\ state = "PAUSED" => resume_state = "BEAKER_ANALYZING"
      BY <1>1 DEF Wave
    <3> QED
      BY <1>2, <1>3, <3>1, <3>2 DEF JobPhase
  <2> QED
    BY <1>1, <1>2, <2>1, <2>2, <2>3, <2>4 DEF Wave
<1>7. Claimed' \subseteq Claimed
  BY <1>2, <1>3 DEF Claimed, Looping
<1> QED
  BY <1>1, <1>4, <1>5, <1>6, <1>7, QuietKeeps

\* A crash loses the loop and the deferrals, and no row.
LEMMA CrashKeeps ==
    ASSUME IInv, Crash
    PROVE  IInv'
<1>1. /\ TypeOK /\ Rows /\ Wave
      /\ UNCHANGED <<state, resume_state, approved, job, cluster, faults>>
      /\ pc' = "idle" /\ todo' = {} /\ reply' = "NONE" /\ deferrals' = 0
      /\ pausing' = "NONE" /\ crashes < MaxCrashes /\ crashes' = crashes + 1
  BY DEF IInv, Crash, run
<1>2. UNCHANGED <<Unfinished, Waiting, Active>>
  BY <1>1, QuietSets
<1>3. TypeOK'
  <2>1. crashes' \in 0..MaxCrashes /\ deferrals' \in 0..DeferralCap
    BY <1>1, JobAssumption DEF TypeOK
  <2>2. errors' \in BOOLEAN /\ cancelling' \in BOOLEAN /\ recovering' \in BOOLEAN
    BY DEF Crash
  <2>3. reply' \in ClusterStatus
    BY <1>1 DEF ClusterStatus
  <2> QED
    BY <1>1, <2>1, <2>2, <2>3 DEF TypeOK
<1>4. Loops' /\ Answers'
  BY <1>1 DEF Loops, Answers, Between, Inside
<1>5. Wave'
  <2>1. In(JobPhase)' => In(JobPhase)
    BY <1>1 DEF In, JobPhase
  <2>2. In({"BEAKER_ANALYZING"})' => In({"BEAKER_ANALYZING"})
    BY <1>1 DEF In
  <2>3. Created(Jobs)' = Created(Jobs) /\ Ended' = Ended
    BY <1>1 DEF Created, Ended
  <2>4. pausing' \notin TERMINAL_STATES \cup {"PAUSED"}
    BY <1>1 DEF TERMINAL_STATES
  <2> QED
    BY <1>1, <2>1, <2>2, <2>3, <2>4 DEF Wave, AllCreated
<1>6. Claimed' \subseteq Claimed
  BY <1>1, <1>2 DEF Claimed, Looping
<1> QED
  BY <1>1, <1>3, <1>4, <1>5, <1>6, QuietKeeps

----------------------------------------------------------------------------
(* The invariant and the theorems.                                         *)

\* Before the approval there is no row.
LEMMA InitIInv ==
    ASSUME Init
    PROVE  IInv
<1>1. TypeOK
  <2>1. job \in [Jobs -> [status : JobStatus \cup {"ABSENT"}, ext : BOOLEAN]]
    BY DEF Init
  <2>2. cluster \in [Jobs -> ClusterStatus] /\ reply \in ClusterStatus \cup {"ERROR"}
    BY DEF Init, ClusterStatus
  <2>3. approved \in BOOLEAN /\ errors \in BOOLEAN /\ cancelling \in BOOLEAN /\ recovering \in BOOLEAN
    BY DEF Init
  <2>4. deferrals \in 0..DeferralCap /\ faults \in 0..MaxFaults /\ crashes \in 0..MaxCrashes
    BY JobAssumption DEF Init
  <2>5. /\ state \in JobStates /\ pausing = "NONE" /\ resume_state = "NONE" /\ todo = {} /\ pc = "idle"
    BY DEF Init, JobStates
  <2> QED
    BY <2>1, <2>2, <2>3, <2>4, <2>5 DEF TypeOK
<1>2. \A j \in Jobs : job[j].status = "ABSENT" /\ job[j].ext = FALSE /\ cluster[j] = "NONE"
  BY DEF Init
<1>3. Rows /\ Unfinished = {}
  BY <1>2 DEF Rows, RowAgrees, OnCluster, Unfinished
<1>4. Loops /\ Answers
  BY DEF Init, Loops, Answers, Between, Inside
<1>5. Wave
  BY DEF Init, Wave, In, JobPhase, AllCreated, TERMINAL_STATES
<1>6. Capacity
  <2>1. Claimed = {}
    BY <1>3, JobSets DEF Init, Claimed, Looping
  <2> QED
    BY <2>1, FS_EmptySet, JobAssumption DEF Capacity
<1> QED
  BY <1>1, <1>3, <1>4, <1>5, <1>6 DEF IInv

\* Every step keeps the inductive invariant.
LEMMA StepIInv ==
    ASSUME IInv, [Next]_vars
    PROVE  IInv'
<1>1. CASE UNCHANGED vars
  <2>1. UNCHANGED <<state, resume_state, approved, job, cluster, pc, todo, reply, errors, deferrals,
                    pausing, cancelling, recovering, faults, crashes>>
    BY <1>1 DEF vars, run, worker, callers, bounds
  <2>2. UNCHANGED <<Unfinished, Waiting, Active, Current, Later>>
    BY <2>1 DEF Unfinished, Waiting, Active, Current, Later
  <2>3. TypeOK'
    BY <2>1 DEF IInv, TypeOK
  <2>4. Loops' /\ Answers'
    BY <2>1, <2>2 DEF IInv, Loops, Answers
  <2>5. Wave'
    BY <2>1 DEF IInv, Wave, In, Created, Ended
  <2>6. Claimed' = Claimed
    BY <2>1, <2>2 DEF Claimed
  <2> QED
    BY <2>1, <2>3, <2>4, <2>5, <2>6, QuietKeeps
<1>2. CASE create_job_if_absent
  BY <1>2, CreateKeeps
<1>3. CASE approve_action \/ SubmitRecheck \/ SubmitAdvance
  BY <1>3, SubmitStepsKeep
<1>4. CASE FillRead
  BY <1>4, FillReadKeeps
<1>5. CASE FillNext
  BY <1>5, FillNextKeeps
<1>6. CASE FillSubmit \/ ReconcileSubmit
  BY <1>6, SubmitKeeps
<1>7. CASE FillSave
  BY <1>7, FillSaveKeeps
<1>8. CASE FillEnd
  BY <1>8, FillEndKeeps
<1>9. CASE FillToRunning \/ FillToAnalyzing
  BY <1>9, FillMovesKeep
<1>10. CASE WatcherPoll \/ ReconcileRead \/ ReconcileNext
  BY <1>10, ReconcileStepsKeep
<1>11. CASE ReconcileSave
  BY <1>11, ReconcileSaveKeeps
<1>12. CASE ReconcileInspect
  BY <1>12, InspectKeeps
<1>13. CASE CancelNext
  BY <1>13, CancelNextKeeps
<1>14. CASE CancelStart \/ SweepStart \/ CancelEnd \/ SweepEnd
  BY <1>14, CancelStepsKeep
<1>15. CASE CancelRequest \/ AbandonedCancel \/ PauseRead \/ PauseWrite \/ RecoverFails
  BY <1>15, CallersKeep
<1>16. CASE resume_run \/ RecoverStart \/ RecoverDispatch
  BY <1>16, RecoveryKeeps
<1>17. CASE Crash
  BY <1>17, CrashKeeps
<1>18. CASE \E j \in Jobs : ClusterStarts(j) \/ ClusterFinishes(j)
  BY <1>18, ClusterKeeps
<1> QED
  BY <1>1, <1>2, <1>3, <1>4, <1>5, <1>6, <1>7, <1>8, <1>9, <1>10, <1>11, <1>12, <1>13, <1>14,
     <1>15, <1>16, <1>17, <1>18 DEF Next, WorkerStep

\* The inductive invariant holds in every state an execution of the wave
\* reaches.
LEMMA Invariance == Spec => []IInv
<1>1. Init => IInv
  BY InitIInv
<1>2. IInv /\ [Next]_vars => IInv'
  BY StepIInv
<1> QED
  BY <1>1, <1>2, PTL DEF Spec

\* Every variable of the wave keeps its type: the run stays in the states of
\* the job phase and what surrounds it, rows hold a status of the jobs table,
\* and resume_run always has a state it may return the run to.
THEOREM TypeCorrect == Spec => []TypeOK
<1>1. IInv => TypeOK
  BY DEF IInv
<1> QED
  BY <1>1, Invariance, PTL

\* _fill_job_capacity and reconcile_run never have more than
\* maximum_parallel_jobs of the run's jobs on the cluster, however many jobs
\* the matrix expands to and whichever answers are lost: a submission is
\* repeated only for a row that already counts against the capacity.
THEOREM CapacityHolds == Spec => []CapacityRespected
<1>1. ASSUME IInv PROVE CapacityRespected
  <2> DEFINE L == {j \in Jobs : OnCluster(j) /\ job[j].status # "CANCELLED"}
  <2>1. L \subseteq Active
    <3>1. SUFFICES ASSUME NEW j \in Jobs, OnCluster(j), job[j].status # "CANCELLED"
                   PROVE  j \in Active
      OBVIOUS
    <3>2. RowAgrees(j)
      BY <1>1 DEF IInv, Rows
    <3>3. /\ job[j].status \notin JOB_TERMINAL_STATUSES \cup {"ABSENT"}
          /\ ~(job[j].status = "QUEUED" /\ ~job[j].ext)
      BY <3>1, <3>2 DEF RowAgrees, OnCluster, JOB_TERMINAL_STATUSES
    <3> QED
      BY <3>3, JobSets
  <2> HIDE DEF L
  <2>2. L \subseteq Claimed /\ Claimed \in SUBSET Jobs
    BY <1>1, <2>1, JobSets DEF Claimed, IInv, TypeOK
  <2>3. IsFiniteSet(Jobs)
    BY JobAssumption, FS_Interval DEF Jobs
  <2>4. IsFiniteSet(Claimed)
    BY <2>2, <2>3, FS_Subset
  <2>5. IsFiniteSet(L) /\ Cardinality(L) <= Cardinality(Claimed)
    BY <2>2, <2>4, FS_Subset
  <2>6. Cardinality(L) \in Nat /\ Cardinality(Claimed) \in Nat /\ MaxParallel \in Nat
    BY <2>4, <2>5, FS_CardinalityType, JobAssumption
  <2>7. Cardinality(L) <= MaxParallel
    BY <1>1, <2>5, <2>6 DEF IInv, Capacity
  <2> QED
    BY <2>7 DEF CapacityRespected, L
<1> QED
  BY <1>1, Invariance, PTL

\* update_job records SUCCEEDED or FAILED only for a job the cluster has
\* finished that way, in _fill_job_capacity as in reconcile_run: an answer
\* that is saved late is still true, and a lost one is saved as UNKNOWN.
THEOREM FinishedIsTrue == Spec => []NeverFalselyFinished
<1>1. IInv => NeverFalselyFinished
  BY DEF IInv, Rows, RowAgrees, NeverFalselyFinished
<1> QED
  BY <1>1, Invariance, PTL

\* A run on the cluster whose external id was saved keeps a row that
\* reconcile_run, cancel_run and sweep_cancelled_run_jobs list.
THEOREM SavedRunsStayListed == Spec => []SavedRunsAreWatched
<1>1. ASSUME IInv PROVE SavedRunsAreWatched
  <2>1. SUFFICES ASSUME NEW j \in Jobs, OnCluster(j), job[j].ext
                 PROVE  j \in Unfinished
    BY DEF SavedRunsAreWatched
  <2>2. RowAgrees(j)
    BY <1>1 DEF IInv, Rows
  <2>3. job[j].status \notin JOB_TERMINAL_STATUSES \cup {"ABSENT"}
    BY <2>1, <2>2 DEF RowAgrees, OnCluster, JOB_TERMINAL_STATUSES
  <2> QED
    BY <2>3, JobSets
<1> QED
  BY <1>1, Invariance, PTL

\* The run enters BEAKER_ANALYZING, from _fill_job_capacity or by resume_run
\* after a pause, only when every job of the matrix has a terminal row.
THEOREM AnalysisWaitsForTheWave == Spec => []AnalysisSeesWholeWave
<1>1. IInv => AnalysisSeesWholeWave
  BY DEF IInv, Wave, In, Ended, AnalysisSeesWholeWave
<1> QED
  BY <1>1, Invariance, PTL

----------------------------------------------------------------------------
(* What a step may do to a row.                                            *)

\* What FinishedNeverRunsAgain says of one row.
RowStep(j) ==
    /\ job[j].status \in JOB_TERMINAL_STATUSES => job'[j].status \in {job[j].status, "UNKNOWN"}
    /\ job[j].status = "CANCELLED" => job'[j] = job[j]
    /\ job[j].ext => job'[j].ext

\* A row that has not finished may be written; its id must be kept.
LEMMA UnfinishedMoves ==
    ASSUME TypeOK, NEW c \in Jobs, NEW s \in JobStatus, NEW x \in BOOLEAN,
           job' = [job EXCEPT ![c] = [status |-> s, ext |-> x]],
           c \in Unfinished \/ job[c].status = "ABSENT", job[c].ext => x
    PROVE  \A j \in Jobs : RowStep(j)
<1>1. /\ job'[c].status = s /\ job'[c].ext = x
      /\ \A j \in Jobs : j # c => job'[j] = job[j]
  BY Written
<1>2. job[c].status \notin JOB_TERMINAL_STATUSES /\ job[c].status # "CANCELLED"
  BY JobSets DEF JOB_TERMINAL_STATUSES
<1>3. job'[c].status = s /\ (job[c].ext => job'[c].ext)
  BY <1>1
<1> QED
  BY <1>1, <1>2, <1>3 DEF RowStep

\* create_job_if_absent writes over no row.
LEMMA CreateMoves ==
    ASSUME IInv, create_job_if_absent
    PROVE  \A j \in Jobs : RowStep(j)
<1> DEFINE c == Current
<1>1. TypeOK /\ Rows /\ c \in Jobs
  BY CurrentIsAJob DEF IInv, create_job_if_absent
<1>2. CASE job[c].status # "ABSENT"
  BY <1>2 DEF create_job_if_absent, Current, RowStep
<1>3. CASE job[c].status = "ABSENT"
  <2>1. job' = [job EXCEPT ![c].status = "QUEUED"]
    BY <1>3 DEF create_job_if_absent, Current
  <2>2. job[c] \in JobRow /\ job[c].ext \in BOOLEAN
    BY <1>1 DEF TypeOK, JobRow
  <2>3. [job[c] EXCEPT !.status = "QUEUED"] = [status |-> "QUEUED", ext |-> job[c].ext]
    BY <2>2, StatusSet
  <2> HIDE DEF c
  <2>4. job' = [job EXCEPT ![c] = [status |-> "QUEUED", ext |-> job[c].ext]]
    BY <2>1, <2>3
  <2>5. "QUEUED" \in JobStatus
    BY DEF JobStatus
  <2> QED
    BY <1>1, <1>3, <2>2, <2>4, <2>5, UnfinishedMoves
<1> QED
  BY <1>2, <1>3

\* _fill_job_capacity writes over no finished row.
LEMMA FillMoves ==
    ASSUME IInv, FillNext \/ FillSave
    PROVE  \A j \in Jobs : RowStep(j)
<1> DEFINE c == Current
<1>1. TypeOK /\ Loops
  BY DEF IInv
<1>2. CASE job' = job
  BY <1>2 DEF RowStep
<1>3. CASE job' # job
  <2>1. todo # {}
    BY <1>1, <1>3 DEF FillNext, FillSave, Loops, Inside
  <2>2. c \in Jobs
    BY <1>1, <2>1, CurrentIsAJob
  <2>3. c \in Unfinished /\ ~job[c].ext
    <3>1. CASE FillNext
      BY <1>1, <2>1, <2>2, <3>1, JobSets, CurrentIsAJob DEF FillNext, Loops
    <3>2. CASE FillSave
      BY <1>1, <2>2, <3>2, JobSets DEF FillSave, Loops, JOB_TERMINAL_STATUSES
    <3> QED
      BY <3>1, <3>2
  <2>4. PICK s \in JobStatus, x \in BOOLEAN : job' = [job EXCEPT ![c] = [status |-> s, ext |-> x]]
    <3>1. \E s \in {"SUBMITTING", "UNKNOWN", "QUEUED", "RUNNING"}, x \in BOOLEAN :
             job' = [job EXCEPT ![c] = [status |-> s, ext |-> x]]
      <4>1. CASE FillNext
        BY <1>3, <4>1 DEF FillNext, update_job, Current
      <4>2. CASE FillSave
        <5> DEFINE s == IF reply \in {"QUEUED", "RUNNING"} THEN reply ELSE "RUNNING"
        <5>1. s \in {"SUBMITTING", "UNKNOWN", "QUEUED", "RUNNING"}
          OBVIOUS
        <5>2. \/ job' = [job EXCEPT ![c] = [status |-> "UNKNOWN", ext |-> FALSE]]
              \/ job' = [job EXCEPT ![c] = [status |-> s, ext |-> TRUE]]
          BY <4>2 DEF FillSave, update_job, Current
        <5> HIDE DEF s
        <5> QED
          BY <5>1, <5>2
      <4> QED
        BY <4>1, <4>2
    <3> QED
      BY <3>1 DEF JobStatus
  <2> HIDE DEF c
  <2> QED
    BY <1>1, <2>2, <2>3, <2>4, UnfinishedMoves
<1> QED
  BY <1>2, <1>3

\* reconcile_run saves on unfinished rows only.
LEMMA ReconcileMoves ==
    ASSUME IInv, ReconcileSave
    PROVE  \A j \in Jobs : RowStep(j)
<1> DEFINE c == Current
<1>1. TypeOK /\ Loops /\ Answers /\ pc = "rec_save"
  BY DEF IInv, ReconcileSave
<1>2. c \in todo /\ c \in Jobs
  BY <1>1, CurrentIsAJob DEF Loops, Inside
<1>3. c \in Unfinished /\ ~job[c].ext
  BY <1>1, <1>2, JobSets DEF Loops
<1>4. PICK s \in JobStatus, x \in BOOLEAN : job' = [job EXCEPT ![c] = [status |-> s, ext |-> x]]
  <2>1. "UNKNOWN" \in JobStatus /\ (reply # "ERROR" => reply \in JobStatus)
    BY <1>1 DEF JobStatus, TypeOK, ClusterStatus, Answers
  <2>2. \/ job' = [job EXCEPT ![c] = [status |-> "UNKNOWN", ext |-> FALSE]]
        \/ reply # "ERROR" /\ job' = [job EXCEPT ![c] = [status |-> reply, ext |-> TRUE]]
    BY DEF ReconcileSave, update_job, Current
  <2> HIDE DEF c
  <2> QED
    BY <2>1, <2>2
<1> HIDE DEF c
<1> QED
  BY <1>1, <1>2, <1>3, <1>4, UnfinishedMoves

\* An inspection puts no finished row back in line.
LEMMA InspectMoves ==
    ASSUME IInv, ReconcileInspect
    PROVE  \A j \in Jobs : RowStep(j)
<1> DEFINE c == Current
<1>1. TypeOK /\ Rows /\ Loops /\ pc = "rec_inspect"
  BY DEF IInv, ReconcileInspect
<1>2. c \in Jobs /\ job[c].ext
  BY <1>1, CurrentIsAJob DEF Loops, Inside
<1>3. /\ cluster[c] \in JobStatus /\ "UNKNOWN" \in JobStatus
      /\ job[c].status \in {"SUCCEEDED", "FAILED"} => cluster[c] = job[c].status
  BY <1>1, <1>2 DEF Rows, RowAgrees, TypeOK, ClusterStatus, JobStatus
<1>4. CASE job' = job
  BY <1>4 DEF RowStep
<1>5. ASSUME NEW s \in {cluster[c], "UNKNOWN"}, job[c].status = "CANCELLED" => s = "CANCELLED",
             job' = [job EXCEPT ![c] = [status |-> s, ext |-> TRUE]]
      PROVE  \A j \in Jobs : RowStep(j)
  <2>1. s \in JobStatus
    BY <1>3
  <2>2. /\ job'[c].status = s /\ job'[c].ext = TRUE
        /\ \A j \in Jobs : j # c => job'[j] = job[j]
    BY <1>1, <1>2, <1>5, <2>1, Written
  <2>3. job[c].status = "CANCELLED" => job'[c] = job[c]
    <3>1. SUFFICES ASSUME job[c].status = "CANCELLED" PROVE job'[c] = job[c]
      OBVIOUS
    <3>2. job[c] = [status |-> "CANCELLED", ext |-> TRUE]
      BY <1>1, <1>2, <3>1 DEF TypeOK
    <3>3. job'[c] = [status |-> s, ext |-> TRUE]
      BY <1>1, <1>2, <1>5 DEF TypeOK
    <3> QED
      BY <1>5, <3>1, <3>2, <3>3
  <2>4. job[c].status \in JOB_TERMINAL_STATUSES => s \in {job[c].status, "UNKNOWN"}
    BY <1>3, <1>5 DEF JOB_TERMINAL_STATUSES
  <2> HIDE DEF c
  <2> QED
    BY <2>2, <2>3, <2>4 DEF RowStep
<1> QED
  BY <1>4, <1>5 DEF ReconcileInspect, update_job, Current

\* Cancellation writes over no finished row.
LEMMA CancelMoves ==
    ASSUME IInv, CancelNext
    PROVE  \A j \in Jobs : RowStep(j)
<1> DEFINE c == Current
<1>1. TypeOK /\ Loops /\ pc \in {"cancel", "sweep"} /\ todo # {} /\ CancelJob(c)
  BY DEF IInv, CancelNext, Current
<1>2. c \in Jobs /\ c \in Unfinished /\ job[c].ext \in BOOLEAN
  BY <1>1, CurrentIsAJob DEF Loops, TypeOK
<1>3. CASE job' = job
  BY <1>3 DEF RowStep
<1>4. CASE job' = [job EXCEPT ![c] = [status |-> "CANCELLED", ext |-> job[c].ext]]
  <2>1. "CANCELLED" \in JobStatus
    BY DEF JobStatus
  <2> HIDE DEF c
  <2> QED
    BY <1>1, <1>2, <1>4, <2>1, UnfinishedMoves
<1> QED
  BY <1>1, <1>3, <1>4 DEF CancelJob, update_job

\* create_job_if_absent, update_job and the loops that call them never put a
\* finished job back in line: a terminal row keeps its status or turns
\* UNKNOWN, a CANCELLED one is never written over, and a saved external id
\* stays saved, whatever pause, resume, crash or repeated approval intervenes.
THEOREM FinishedStaysFinished == Spec => FinishedNeverRunsAgain
<1>1. ASSUME IInv, [Next]_vars PROVE \A j \in Jobs : RowStep(j)
  <2>1. CASE job' = job
    BY <2>1 DEF RowStep
  <2>2. CASE create_job_if_absent
    BY <1>1, <2>2, CreateMoves
  <2>3. CASE FillNext \/ FillSave
    BY <1>1, <2>3, FillMoves
  <2>4. CASE ReconcileSave
    BY <1>1, <2>4, ReconcileMoves
  <2>5. CASE ReconcileInspect
    BY <1>1, <2>5, InspectMoves
  <2>6. CASE CancelNext
    BY <1>1, <2>6, CancelMoves
  <2>7. CASE approve_action \/ SubmitRecheck \/ SubmitAdvance \/ FillRead \/ FillSubmit \/ FillEnd
             \/ FillToRunning \/ FillToAnalyzing
    BY <2>1, <2>7 DEF approve_action, SubmitRecheck, SubmitAdvance, FillRead, FillSubmit, FillEnd,
       FillEndWith, FillToRunning, FillToAnalyzing
  <2>8. CASE WatcherPoll \/ ReconcileRead \/ ReconcileNext \/ ReconcileSubmit
    BY <2>1, <2>8 DEF WatcherPoll, ReconcileRead, ReconcileNext, ReconcileSubmit
  <2>9. CASE CancelEnd \/ SweepEnd \/ CancelRequest \/ CancelStart \/ SweepStart \/ AbandonedCancel
    BY <2>1, <2>9 DEF CancelEnd, SweepEnd, CancelRequest, CancelStart, SweepStart, AbandonedCancel
  <2>10. CASE PauseRead \/ PauseWrite \/ resume_run \/ Crash \/ RecoverStart \/ RecoverFails
              \/ RecoverDispatch
    BY <2>1, <2>10 DEF PauseRead, PauseWrite, resume_run, Crash, RecoverStart, RecoverFails,
       RecoverDispatch
  <2>11. CASE \E j \in Jobs : ClusterStarts(j) \/ ClusterFinishes(j)
    BY <2>1, <2>11 DEF ClusterStarts, ClusterFinishes
  <2>12. CASE UNCHANGED vars
    BY <2>1, <2>12 DEF vars
  <2> QED
    BY <1>1, <2>2, <2>3, <2>4, <2>5, <2>6, <2>7, <2>8, <2>9, <2>10, <2>11, <2>12
    DEF Next, WorkerStep
<1>2. IInv /\ [Next]_vars =>
        [\A j \in Jobs :
          /\ job[j].status \in JOB_TERMINAL_STATUSES =>
                 job'[j].status \in {job[j].status, "UNKNOWN"}
          /\ job[j].status = "CANCELLED" => job'[j] = job[j]
          /\ job[j].ext => job'[j].ext]_vars
  BY <1>1 DEF RowStep
<1> QED
  BY <1>2, Invariance, PTL DEF Spec, FinishedNeverRunsAgain
=============================================================================
