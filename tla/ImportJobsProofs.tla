-------------------------- MODULE ImportJobsProofs --------------------------
(***************************************************************************)
(* Proofs about ImportJobs, for any jobs, submissions, workers and stages: *)
(* the types, and that it implements JobLedger.                            *)
(*                                                                         *)
(* A step of a worker is a step of the ledger because of what the worker   *)
(* holds: one job, which is running and which no other worker holds.       *)
(***************************************************************************)
EXTENDS ImportJobs, TLAPS

OneJobEach == \A w \in Worker : worker[w].on = {} \/ \E j \in Job : worker[w].on = {j}

AtWork == \A w \in Worker : \A j \in worker[w].on : job[j] = "running"

JobsInv == JobsTypeOK /\ OneJobEach /\ AtWork

SubmissionType == [step : {"idle", "fresh", "insert", "enqueue"}, on : SUBSET Job]
WorkerType == [todo : SUBSET Job, on : SUBSET Job, stage : 0..Stages]
-----------------------------------------------------------------------------
LEMMA RestTypes == NotSubmitting \in SubmissionType /\ NotWorking \in WorkerType
BY ImportJobsAssumption DEF NotSubmitting, NotWorking, SubmissionType, WorkerType

LEMMA JobsInvInit == JobsInit => JobsInv
<1> SUFFICES ASSUME JobsInit PROVE JobsInv
  OBVIOUS
<1>1. /\ backend \in {"inprocess", "cloudtasks"}
      /\ patrols \in [Job -> SUBSET PatrolName] /\ sweep \subseteq [Job -> SUBSET (1..Stages)]
      /\ job \in [Job -> JobStatus] /\ rows \in [Job -> SUBSET (1..Stages)]
      /\ tasks \subseteq Job /\ unsent \subseteq Job
      /\ deaths \in Nat /\ resets \in Nat /\ claims \in [Job -> Nat]
  BY DEF JobsInit, JobStatus
<1>2. submission \in [Requester -> SubmissionType] /\ worker \in [Worker -> WorkerType]
  BY RestTypes DEF JobsInit
<1>3. \A w \in Worker : worker[w].on = {}
  BY DEF JobsInit, NotWorking
<1>4. JobsTypeOK
  BY <1>1, <1>2, <1>3 DEF JobsTypeOK, SubmissionType, WorkerType
<1>5. OneJobEach /\ AtWork
  BY <1>3 DEF OneJobEach, AtWork
<1> QED
  BY <1>4, <1>5 DEF JobsInv

\* Steps of submissions, and faults, take nothing from the workers.
LEMMA WorkersKept ==
    ASSUME JobsInv,
           \A w \in Worker : worker'[w].on \in {{}, worker[w].on},
           \A j \in Job : job[j] = "running" => job'[j] = "running"
    PROVE  OneJobEach' /\ AtWork'
<1>1. \A w \in Worker : worker[w].on \subseteq Job
  BY DEF JobsInv, JobsTypeOK
<1> QED
  BY <1>1 DEF JobsInv, OneJobEach, AtWork

LEMMA JobsInvStep == JobsInv /\ [JobsNext]_jobsVars => JobsInv'
<1> SUFFICES ASSUME JobsInv, [JobsNext]_jobsVars PROVE JobsInv'
  OBVIOUS
<1>0. /\ backend \in {"inprocess", "cloudtasks"}
      /\ patrols \in [Job -> SUBSET PatrolName] /\ sweep \subseteq [Job -> SUBSET (1..Stages)]
      /\ job \in [Job -> JobStatus] /\ rows \in [Job -> SUBSET (1..Stages)]
      /\ tasks \subseteq Job /\ unsent \subseteq Job
      /\ submission \in [Requester -> SubmissionType] /\ worker \in [Worker -> WorkerType]
      /\ \A v, w \in Worker : v # w => worker[v].on \cap worker[w].on = {}
      /\ deaths \in Nat /\ resets \in Nat /\ claims \in [Job -> Nat]
      /\ \A w \in Worker : worker[w].on \subseteq Job
  BY DEF JobsInv, JobsTypeOK, SubmissionType, WorkerType
<1>t. ASSUME backend' \in {"inprocess", "cloudtasks"},
             patrols' \in [Job -> SUBSET PatrolName],
             sweep' \subseteq [Job -> SUBSET (1..Stages)],
             job' \in [Job -> JobStatus], rows' \in [Job -> SUBSET (1..Stages)],
             tasks' \subseteq Job, unsent' \subseteq Job,
             submission' \in [Requester -> SubmissionType], worker' \in [Worker -> WorkerType],
             \A v, w \in Worker : v # w => worker'[v].on \cap worker'[w].on = {},
             deaths' \in Nat, resets' \in Nat, claims' \in [Job -> Nat]
      PROVE  JobsTypeOK'
  BY <1>t DEF JobsTypeOK, SubmissionType, WorkerType
<1>s. \A r \in Requester : \A to \in SubmissionType :
        submission' = [submission EXCEPT ![r] = to] => submission' \in [Requester -> SubmissionType]
  BY <1>0
<1>1. ASSUME NEW r \in Requester, Submit(r) \/ RejectIfActive(r) PROVE JobsInv'
  <2>1. /\ UNCHANGED <<backend, patrols, sweep, job, rows, tasks, worker, deaths, resets, unsent, claims>>
        /\ \E to \in SubmissionType : submission' = [submission EXCEPT ![r] = to]
    BY <1>1, RestTypes DEF Submit, RejectIfActive, Step, NotSubmitting, SubmissionType, Given
  <2> QED
    BY <1>0, <1>t, <1>s, <2>1, WorkersKept DEF JobsInv
<1>2. ASSUME NEW r \in Requester, NEW j \in Job, InsertJob(r, j) PROVE JobsInv'
  <2>1. /\ UNCHANGED <<backend, patrols, sweep, rows, tasks, worker, deaths, resets, unsent, claims>>
        /\ \E to \in SubmissionType : submission' = [submission EXCEPT ![r] = to]
        /\ job' \in [Job -> JobStatus]
        /\ \A k \in Job : job[k] = "running" => job'[k] = "running"
    BY <1>0, <1>2, RestTypes DEF InsertJob, Step, SubmissionType, JobStatus, Given
  <2> QED
    BY <1>0, <1>t, <1>s, <2>1, WorkersKept DEF JobsInv
<1>3. ASSUME NEW r \in Requester, EnqueueImportJob(r) PROVE JobsInv'
  <2>1. /\ UNCHANGED <<backend, patrols, sweep, job, rows, worker, deaths, resets, claims>>
        /\ \E to \in SubmissionType : submission' = [submission EXCEPT ![r] = to]
    BY <1>3, RestTypes DEF EnqueueImportJob, Step, Given
  <2>2. submission[r].on \subseteq Job
    BY <1>0 DEF SubmissionType
  <2>3. tasks' \subseteq Job /\ unsent' \subseteq Job
    BY <1>0, <1>3, <2>2 DEF EnqueueImportJob, Given
  <2> QED
    BY <1>0, <1>t, <1>s, <2>1, <2>3, WorkersKept DEF JobsInv
<1>4. ASSUME NEW r \in Requester, RequesterDies(r) PROVE JobsInv'
  <2>1. /\ UNCHANGED <<backend, patrols, sweep, job, rows, tasks, worker, resets, unsent, claims>>
        /\ \E to \in SubmissionType : submission' = [submission EXCEPT ![r] = to]
    BY <1>4, RestTypes DEF RequesterDies, Given
  <2>2. deaths' \in Nat
    BY <1>0, <1>4 DEF RequesterDies, Given
  <2> QED
    BY <1>0, <1>t, <1>s, <2>1, <2>2, WorkersKept DEF JobsInv
\* A worker that changes its list, or dies.
<1>w. ASSUME NEW w \in Worker, NEW to \in WorkerType, worker' = [worker EXCEPT ![w] = to],
             to.on \in {{}, worker[w].on},
             tasks' \subseteq tasks, deaths' \in Nat,
             UNCHANGED <<backend, patrols, sweep, job, rows, submission, resets, unsent, claims>>
      PROVE  JobsInv'
  <2>1. worker' \in [Worker -> WorkerType]
    BY <1>0, <1>w
  <2>2. \A v \in Worker : worker'[v].on \in {{}, worker[v].on}
    BY <1>0, <1>w
  <2>3. \A u, v \in Worker : u # v => worker'[u].on \cap worker'[v].on = {}
    BY <1>0, <2>2
  <2> QED
    BY <1>0, <1>t, <1>w, <2>1, <2>2, <2>3, WorkersKept DEF JobsInv
<1>5. ASSUME NEW w \in Worker, ImportPass(w) PROVE JobsInv'
  <2> DEFINE to == [worker[w] EXCEPT !.todo = {j \in Job : job[j] = "queued"}]
  <2>1. to \in WorkerType /\ to.on = worker[w].on
    BY <1>0 DEF WorkerType
  <2>2. worker' = [worker EXCEPT ![w] = to]
    BY <1>0, <1>5 DEF ImportPass, Given
  <2> HIDE DEF to
  <2> QED
    BY <1>0, <1>5, <1>w, <2>1, <2>2 DEF ImportPass, Given
<1>6. ASSUME NEW w \in Worker, NEW j \in Job, ExecuteImportJob(w, j) PROVE JobsInv'
  <2> DEFINE to == [worker[w] EXCEPT !.todo = {j}]
  <2>1. to \in WorkerType /\ to.on = worker[w].on
    BY <1>0 DEF WorkerType
  <2>2. worker' = [worker EXCEPT ![w] = to]
    BY <1>0, <1>6 DEF ExecuteImportJob, Given
  <2> HIDE DEF to
  <2> QED
    BY <1>0, <1>6, <1>w, <2>1, <2>2 DEF ExecuteImportJob, Given
<1>7. ASSUME NEW w \in Worker, NEW j \in Job, NotClaimed(w, j) PROVE JobsInv'
  <2> DEFINE to == [worker[w] EXCEPT !.todo = @ \ {j}]
  <2>1. to \in WorkerType /\ to.on = worker[w].on
    BY <1>0 DEF WorkerType
  <2>2. worker' = [worker EXCEPT ![w] = to]
    BY <1>0, <1>7 DEF NotClaimed, Given
  <2> HIDE DEF to
  <2> QED
    BY <1>0, <1>7, <1>w, <2>1, <2>2 DEF NotClaimed, Given
<1>8. ASSUME NEW w \in Worker, WorkerDies(w) PROVE JobsInv'
  <2>1. NotWorking.on = {} /\ NotWorking \in WorkerType
    BY RestTypes DEF NotWorking
  <2>2. deaths' \in Nat
    BY <1>0, <1>8 DEF WorkerDies, Given
  <2>3. /\ worker' = [worker EXCEPT ![w] = NotWorking]
        /\ UNCHANGED <<backend, patrols, sweep, job, rows, tasks, submission, resets, unsent, claims>>
    BY <1>8 DEF WorkerDies, Given
  <2> QED
    BY <1>w, <2>1, <2>2, <2>3
<1>9. ASSUME NEW w \in Worker, NEW j \in Job, ClaimJob(w, j) PROVE JobsInv'
  <2> DEFINE to == [todo |-> worker[w].todo \ {j}, on |-> {j}, stage |-> 0]
  <2>1. to \in WorkerType /\ to.on = {j} /\ to.stage = 0
    BY <1>0, ImportJobsAssumption DEF WorkerType
  <2>2. worker' = [worker EXCEPT ![w] = to]
    BY <1>0, <1>9 DEF ClaimJob, Given
  <2>3. /\ worker[w].on = {} /\ job[j] = "queued" /\ job' = [job EXCEPT ![j] = "running"]
        /\ claims' = [claims EXCEPT ![j] = @ + 1]
        /\ UNCHANGED <<backend, patrols, sweep, rows, tasks, submission, deaths, resets, unsent>>
    BY <1>9 DEF ClaimJob, Given
  <2> HIDE DEF to
  <2>4. \A v \in Worker : j \notin worker[v].on
    BY <2>3 DEF JobsInv, AtWork
  <2>5. \A v \in Worker : worker'[v] = IF v = w THEN to ELSE worker[v]
    BY <1>0, <2>2
  <2>6. JobsTypeOK'
    <3>1. job' \in [Job -> JobStatus] /\ claims' \in [Job -> Nat]
      BY <1>0, <2>3 DEF JobStatus
    <3>2. worker' \in [Worker -> WorkerType]
      BY <1>0, <2>1, <2>2
    <3>3. \A u, v \in Worker : u # v => worker'[u].on \cap worker'[v].on = {}
      BY <1>0, <2>1, <2>4, <2>5
    <3> QED
      BY <1>0, <1>t, <2>3, <3>1, <3>2, <3>3
  <2>7. OneJobEach'
    BY <2>1, <2>5 DEF JobsInv, OneJobEach
  <2>8. AtWork'
    <3> SUFFICES ASSUME NEW v \in Worker, NEW k \in worker'[v].on
                 PROVE  job'[k] = "running"
      BY DEF AtWork
    <3>1. CASE v = w
      BY <1>0, <2>1, <2>3, <2>5, <3>1
    <3>2. CASE v # w
      BY <1>0, <2>3, <2>4, <2>5, <3>2 DEF JobsInv, AtWork
    <3> QED
      BY <3>1, <3>2
  <2> QED
    BY <2>6, <2>7, <2>8 DEF JobsInv
<1>10. ASSUME NEW w \in Worker, RunStage(w) PROVE JobsInv'
  <2>1. PICK j \in Job : worker[w].on = {j}
    BY <1>10 DEF RunStage, StageCommitted, JobsInv, OneJobEach
  <2> DEFINE s == worker[w].stage
             to == [worker[w] EXCEPT !.stage = s + 1]
  <2>2. s \in 0..Stages /\ s < Stages /\ s + 1 \in 1..Stages
    BY <1>0, <1>10, ImportJobsAssumption DEF RunStage, StageCommitted, WorkerType, Given
  <2>3. /\ rows' = [rows EXCEPT ![j] = @ \cup {s + 1}]
        /\ worker' = [worker EXCEPT ![w] = to]
        /\ UNCHANGED <<backend, patrols, sweep, job, tasks, submission, deaths, resets, unsent, claims>>
    BY <1>0, <1>10, <2>1 DEF RunStage, StageCommitted, Given
  <2>4. to \in WorkerType /\ to.on = {j} /\ to.stage = s + 1
    BY <1>0, <2>1, <2>2 DEF WorkerType
  <2> HIDE DEF to, s
  <2>7. \A v \in Worker : worker'[v] = IF v = w THEN to ELSE worker[v]
    BY <1>0, <2>3
  <2>9. JobsTypeOK'
    <3>1. rows' \in [Job -> SUBSET (1..Stages)] /\ worker' \in [Worker -> WorkerType]
      BY <1>0, <2>2, <2>3, <2>4
    <3>2. \A u, v \in Worker : u # v => worker'[u].on \cap worker'[v].on = {}
      BY <1>0, <2>1, <2>4, <2>7
    <3> QED
      BY <1>0, <1>t, <2>3, <3>1, <3>2
  <2>10. OneJobEach'
    BY <2>4, <2>7 DEF JobsInv, OneJobEach
  <2>11. AtWork'
    <3> SUFFICES ASSUME NEW v \in Worker, NEW k \in worker'[v].on
                 PROVE  job'[k] = "running"
      BY DEF AtWork
    <3>1. CASE v = w
      BY <2>1, <2>3, <2>4, <2>7, <3>1 DEF JobsInv, AtWork
    <3>2. CASE v # w
      BY <2>3, <2>7, <3>2 DEF JobsInv, AtWork
    <3> QED
      BY <3>1, <3>2
  <2> QED
    BY <2>9, <2>10, <2>11 DEF JobsInv
<1>11. ASSUME NEW w \in Worker, NEW result \in {"succeeded", "failed"}, Outcome(w, result)
       PROVE  JobsInv'
  <2> DEFINE to == [worker[w] EXCEPT !.on = {}, !.stage = 0]
  <2>0. worker[w] \in WorkerType /\ 0 \in 0..Stages
    BY <1>0, ImportJobsAssumption
  <2>1. to \in WorkerType /\ to.on = {} /\ to.stage = 0
    BY <2>0 DEF WorkerType
  <2>2. /\ worker' = [worker EXCEPT ![w] = to]
        /\ job' = [j \in Job |-> IF j \in worker[w].on THEN result ELSE job[j]]
        /\ tasks' = tasks \ worker[w].on
        /\ UNCHANGED <<backend, patrols, sweep, rows, submission, deaths, resets, unsent, claims>>
    BY <1>0, <1>11 DEF Outcome, Given
  <2> HIDE DEF to
  <2>3. \A v \in Worker : worker'[v] = IF v = w THEN to ELSE worker[v]
    BY <1>0, <2>2
  <2>4. JobsTypeOK'
    <3>1. job' \in [Job -> JobStatus] /\ worker' \in [Worker -> WorkerType] /\ tasks' \subseteq Job
      BY <1>0, <2>1, <2>2 DEF JobStatus
    <3>2. \A u, v \in Worker : u # v => worker'[u].on \cap worker'[v].on = {}
      BY <1>0, <2>1, <2>3
    <3> QED
      BY <1>0, <1>t, <2>2, <3>1, <3>2
  <2>5. OneJobEach'
    BY <2>1, <2>3 DEF JobsInv, OneJobEach
  <2>6. AtWork'
    <3> SUFFICES ASSUME NEW v \in Worker, NEW k \in worker'[v].on
                 PROVE  job'[k] = "running"
      BY DEF AtWork
    <3>1. v # w /\ k \in worker[v].on /\ k \in Job /\ k \notin worker[w].on
      BY <1>0, <2>1, <2>3
    <3> QED
      BY <2>2, <2>3, <3>1 DEF JobsInv, AtWork
  <2> QED
    BY <2>4, <2>5, <2>6 DEF JobsInv
\* A reset touches rows only.
<1>12. ASSUME StartReset \/ CommitReset \/ ResetFails PROVE JobsInv'
  <2>1. /\ rows' \in [Job -> SUBSET (1..Stages)] /\ sweep' \subseteq [Job -> SUBSET (1..Stages)]
        /\ resets' \in Nat
        /\ UNCHANGED <<backend, patrols, job, tasks, submission, worker, deaths, unsent, claims>>
    BY <1>0, <1>12 DEF StartReset, CommitReset, ResetFails
  <2>2. JobsTypeOK'
    BY <1>0, <1>t, <2>1
  <2>3. OneJobEach' /\ AtWork'
    BY <2>1 DEF JobsInv, OneJobEach, AtWork
  <2> QED
    BY <2>2, <2>3 DEF JobsInv
<1>13. CASE UNCHANGED jobsVars
  BY <1>13 DEF jobsVars, JobsInv, JobsTypeOK, OneJobEach, AtWork
<1> QED
  BY <1>1, <1>2, <1>3, <1>4, <1>5, <1>6, <1>7, <1>8, <1>9, <1>10, <1>11, <1>12, <1>13
     DEF JobsNext, SubmissionGoesOn, WorkerGoesOn, FailJob, SucceedJob

(* The types hold, and no two workers are at one job, for any number of them. *)
THEOREM JobsTypeCorrect == JobsSpec => []JobsTypeOK
<1>1. JobsInv => JobsTypeOK
  BY DEF JobsInv
<1> QED
  BY <1>1, JobsInvInit, JobsInvStep, PTL DEF JobsSpec
-----------------------------------------------------------------------------
(* The refinement. *)

Loaded == {j \in Job : rows[j] # {}}

LEMMA LedgerInit == JobsInit => Ledger!Init
BY DEF JobsInit, Ledger!Init

\* What a step leaves to the ledger.
LedgerKept == UNCHANGED <<job, claims, rows>>

LEMMA LedgerStutters == LedgerKept => UNCHANGED Ledger!vars
BY DEF LedgerKept, Ledger!vars

LEMMA LedgerStep == JobsInv /\ [JobsNext]_jobsVars => [Ledger!Next]_(Ledger!vars)
<1> SUFFICES ASSUME JobsInv, [JobsNext]_jobsVars PROVE [Ledger!Next]_(Ledger!vars)
  OBVIOUS
<1>0. /\ job \in [Job -> JobStatus] /\ rows \in [Job -> SUBSET (1..Stages)]
      /\ claims \in [Job -> Nat] /\ \A w \in Worker : worker[w].on \subseteq Job
      /\ worker \in [Worker -> WorkerType]
  BY DEF JobsInv, JobsTypeOK, WorkerType
<1>1. ASSUME NEW r \in Requester,
             Submit(r) \/ RejectIfActive(r) \/ EnqueueImportJob(r) \/ RequesterDies(r)
      PROVE  LedgerKept
  BY <1>1 DEF Submit, RejectIfActive, EnqueueImportJob, RequesterDies, LedgerKept
<1>2. ASSUME NEW r \in Requester, NEW j \in Job, InsertJob(r, j)
      PROVE  Ledger!Queue(j) \/ LedgerKept
  <2>1. CASE ActiveJobs = {}
    <3>1. \A k \in Job : job[k] \notin {"queued", "running"}
      BY <2>1 DEF ActiveJobs
    <3> QED
      BY <1>2, <2>1, <3>1 DEF InsertJob, Ledger!Queue
  <2>2. CASE ActiveJobs # {}
    BY <1>2, <2>2 DEF InsertJob, LedgerKept
  <2> QED
    BY <2>1, <2>2
<1>3. ASSUME NEW w \in Worker, ImportPass(w) \/ WorkerDies(w)
      PROVE  LedgerKept
  BY <1>3 DEF ImportPass, WorkerDies, LedgerKept
<1>4. ASSUME NEW w \in Worker, NEW j \in Job, ExecuteImportJob(w, j) \/ NotClaimed(w, j)
      PROVE  LedgerKept
  BY <1>4 DEF ExecuteImportJob, NotClaimed, LedgerKept
<1>5. ASSUME NEW w \in Worker, NEW j \in Job, ClaimJob(w, j)
      PROVE  Ledger!Start(j)
  BY <1>5 DEF ClaimJob, Ledger!Start
<1>6. ASSUME NEW w \in Worker, RunStage(w)
      PROVE  \E j \in Job : Ledger!Load(j)
  <2>1. PICK j \in Job : worker[w].on = {j}
    BY <1>6 DEF RunStage, StageCommitted, JobsInv, OneJobEach
  <2>2. job[j] = "running"
    BY <2>1 DEF JobsInv, AtWork
  <2>3. rows' = [rows EXCEPT ![j] = @ \cup {worker[w].stage + 1}] /\ UNCHANGED <<job, claims>>
    BY <1>0, <1>6, <2>1 DEF RunStage, StageCommitted
  <2>4. Loaded' = Loaded \cup {j}
    BY <1>0, <2>3 DEF Loaded
  <2> QED
    BY <2>2, <2>3, <2>4 DEF Ledger!Load, Loaded
<1>7. ASSUME NEW w \in Worker, NEW result \in {"succeeded", "failed"}, Outcome(w, result)
      PROVE  \E j \in Job : Ledger!Settle(j)
  <2>1. PICK j \in Job : worker[w].on = {j}
    BY <1>7 DEF Outcome, JobsInv, OneJobEach
  <2>2. job[j] = "running"
    BY <2>1 DEF JobsInv, AtWork
  <2>3. job' = [job EXCEPT ![j] = result] /\ UNCHANGED <<rows, claims>>
    BY <1>0, <1>7, <2>1 DEF Outcome
  <2> QED
    BY <2>2, <2>3 DEF Ledger!Settle
<1>8. ASSUME StartReset \/ ResetFails PROVE LedgerKept
  BY <1>8 DEF StartReset, ResetFails, LedgerKept
<1>11. ASSUME CommitReset PROVE Ledger!Clear
  <2>1. \A j \in Job : rows'[j] \subseteq rows[j]
    BY <1>11 DEF CommitReset
  <2>2. Loaded' \subseteq Loaded
    BY <2>1 DEF Loaded
  <2> QED
    BY <1>11, <2>2 DEF CommitReset, Ledger!Clear, Loaded
<1>9. CASE UNCHANGED jobsVars
  BY <1>9 DEF jobsVars, Ledger!vars
<1>10. CASE JobsNext
  BY <1>1, <1>2, <1>3, <1>4, <1>5, <1>6, <1>7, <1>8, <1>10, <1>11, LedgerStutters
     DEF JobsNext, SubmissionGoesOn, WorkerGoesOn, FailJob, SucceedJob, Ledger!Next
<1> QED
  BY <1>9, <1>10

(* The queue, its submissions, deliveries and workers implement the ledger, for
   any number of jobs, submissions, workers and stages. *)
THEOREM ImplementsLedger == JobsSpec => KeepsLedger
BY JobsInvInit, JobsInvStep, LedgerInit, LedgerStep, PTL DEF JobsSpec, KeepsLedger, Ledger!Spec
=============================================================================
