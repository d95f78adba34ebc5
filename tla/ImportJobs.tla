----------------------------- MODULE ImportJobs -----------------------------
(***************************************************************************)
(* TroopWebHost imports of one tenant: the request that queues a job       *)
(* (backend/app/routers/imports.py), its dispatch (core/import_queue.py)   *)
(* and the workers (core/import_jobs.py), which commit stage by stage.     *)
(* Every statement reads what is committed, and each handler's commits are *)
(* actions of their own.                                                   *)
(***************************************************************************)
EXTENDS Integers, FiniteSets

CONSTANTS
    Job,         \* the jobs that may be created
    Requester,   \* submissions under way at once
    Worker,      \* loops, drain scripts or pushed tasks under way at once
    Stages,      \* how many stages an import has; members are the second
    PatrolName,  \* names an export may give its patrols
    MaxFaults    \* bound on processes that die and on resets

ASSUME ImportJobsAssumption == Stages \in Nat /\ Stages >= 2 /\ MaxFaults \in Nat

VARIABLES
    backend,    \* IMPORT_QUEUE_BACKEND
    patrols,    \* the names of the patrols in each job's export
    job,        \* the status of each row
    rows,       \* the stages whose rows the tenant has, by job
    sweep,      \* what a reset under way met when it began
    tasks,      \* Cloud Tasks that are not acknowledged
    submission, \* each submission: [step, on]
    worker,     \* each worker: [todo, on, stage]
    deaths, resets, \* counters
    unsent,     \* history: jobs whose dispatch failed
    claims      \* history: how often each job was claimed

jobsVars == <<backend, patrols, job, rows, sweep, tasks, submission, worker, deaths, resets,
              unsent, claims>>

\* What the requests and workers leave to the export and to the reset.
Given == UNCHANGED <<backend, patrols, sweep>>

JobStatus == {"none", "queued", "running", "succeeded", "failed"}
NotSubmitting == [step |-> "idle", on |-> {}]
NotWorking == [todo |-> {}, on |-> {}, stage |-> 0]
ActiveJobs == {j \in Job : job[j] \in {"queued", "running"}}

\* A member with source_system "twh" exists.
AlreadyImported == \E j \in Job : 2 \in rows[j]

Step(r, from, to) ==
    /\ submission[r].step = from
    /\ submission' = [submission EXCEPT ![r] = to]
-----------------------------------------------------------------------------
(* POST /import/twh *)

Submit(r) ==
    /\ Step(r, "idle", IF AlreadyImported THEN NotSubmitting
                       ELSE [NotSubmitting EXCEPT !.step = "fresh"])
    /\ Given /\ UNCHANGED <<job, rows, tasks, worker, deaths, resets, unsent, claims>>

RejectIfActive(r) ==
    /\ Step(r, "fresh", IF ActiveJobs = {} THEN [NotSubmitting EXCEPT !.step = "insert"]
                        ELSE NotSubmitting)
    /\ Given /\ UNCHANGED <<job, rows, tasks, worker, deaths, resets, unsent, claims>>

\* Without the partial unique index.
InsertAnyJob(r, j) ==
    /\ job[j] = "none"
    /\ Step(r, "insert", [step |-> "enqueue", on |-> {j}])
    /\ job' = [job EXCEPT ![j] = "queued"]
    /\ Given /\ UNCHANGED <<rows, tasks, worker, deaths, resets, unsent, claims>>

\* uix_import_jobs_one_active_per_tenant turns a second active job into a 409.
InsertJob(r, j) ==
    /\ job[j] = "none"
    /\ Step(r, "insert", IF ActiveJobs = {} THEN [step |-> "enqueue", on |-> {j}]
                         ELSE NotSubmitting)
    /\ job' = IF ActiveJobs = {} THEN [job EXCEPT ![j] = "queued"] ELSE job
    /\ Given /\ UNCHANGED <<rows, tasks, worker, deaths, resets, unsent, claims>>

\* After the commit: a task is created, or the request is a 500 and it is not.
EnqueueImportJob(r) ==
    /\ Step(r, "enqueue", NotSubmitting)
    /\ CASE backend = "inprocess" -> UNCHANGED <<tasks, unsent>>
         [] backend = "cloudtasks" ->
              \/ tasks' = tasks \cup submission[r].on /\ UNCHANGED unsent
              \/ unsent' = unsent \cup submission[r].on /\ UNCHANGED tasks
    /\ Given /\ UNCHANGED <<job, rows, worker, deaths, resets, claims>>

RequesterDies(r) ==
    /\ submission[r].step # "idle" /\ deaths + resets < MaxFaults
    /\ submission' = [submission EXCEPT ![r] = NotSubmitting]
    /\ deaths' = deaths + 1
    /\ Given /\ UNCHANGED <<job, rows, tasks, worker, resets, unsent, claims>>
-----------------------------------------------------------------------------
(* The workers. *)

\* run_import_pass lists the queued jobs.
ImportPass(w) ==
    /\ backend = "inprocess" /\ worker[w] = NotWorking
    /\ \E j \in Job : job[j] = "queued"
    /\ worker' = [worker EXCEPT ![w].todo = {j \in Job : job[j] = "queued"}]
    /\ Given /\ UNCHANGED <<job, rows, tasks, submission, deaths, resets, unsent, claims>>

\* Cloud Tasks pushes, as often as it is not answered.
ExecuteImportJob(w, j) ==
    /\ j \in tasks /\ worker[w] = NotWorking
    /\ worker' = [worker EXCEPT ![w].todo = {j}]
    /\ Given /\ UNCHANGED <<job, rows, tasks, submission, deaths, resets, unsent, claims>>

\* Claiming whatever state the job is in.
ClaimAnyway(w, j) ==
    /\ worker[w].on = {} /\ j \in worker[w].todo
    /\ job' = [job EXCEPT ![j] = "running"]
    /\ worker' = [worker EXCEPT ![w] = [todo |-> @.todo \ {j}, on |-> {j}, stage |-> 0]]
    /\ claims' = [claims EXCEPT ![j] = @ + 1]
    /\ Given /\ UNCHANGED <<rows, tasks, submission, deaths, resets, unsent>>

\* process_import_job: UPDATE ... WHERE status = 'queued'.
ClaimJob(w, j) ==
    /\ worker[w].on = {} /\ j \in worker[w].todo /\ job[j] = "queued"
    /\ job' = [job EXCEPT ![j] = "running"]
    /\ worker' = [worker EXCEPT ![w] = [todo |-> @.todo \ {j}, on |-> {j}, stage |-> 0]]
    /\ claims' = [claims EXCEPT ![j] = @ + 1]
    /\ Given /\ UNCHANGED <<rows, tasks, submission, deaths, resets, unsent>>

\* No row updated: the push is answered all the same.
NotClaimed(w, j) ==
    /\ worker[w].on = {} /\ j \in worker[w].todo /\ job[j] # "queued"
    /\ worker' = [worker EXCEPT ![w].todo = @ \ {j}]
    /\ tasks' = tasks \ {j}
    /\ Given /\ UNCHANGED <<job, rows, submission, deaths, resets, unsent, claims>>

\* Patrols are the first stage, and uq_groups_tenant_name is the only
\* constraint of an import on another's rows: the flush is refused when a
\* patrol of that name is there.
Conflicts(w) ==
    /\ worker[w].stage = 0
    /\ \E j \in worker[w].on, k \in Job : 1 \in rows[k] /\ patrols[j] \cap patrols[k] # {}

StageCommitted(w) ==
    /\ worker[w].on # {} /\ worker[w].stage < Stages
    /\ rows' = [j \in Job |-> IF j \in worker[w].on THEN rows[j] \cup {worker[w].stage + 1}
                                                    ELSE rows[j]]
    /\ worker' = [worker EXCEPT ![w].stage = @ + 1]
    /\ Given /\ UNCHANGED <<job, tasks, submission, deaths, resets, unsent, claims>>

\* One stage of TwhImporter.run with on_stage's commit.
RunStage(w) == ~Conflicts(w) /\ StageCommitted(w)

Outcome(w, result) ==
    /\ worker[w].on # {}
    /\ job' = [j \in Job |-> IF j \in worker[w].on THEN result ELSE job[j]]
    /\ worker' = [worker EXCEPT ![w] = [@ EXCEPT !.on = {}, !.stage = 0]]
    /\ tasks' = tasks \ worker[w].on
    /\ Given /\ UNCHANGED <<rows, submission, deaths, resets, unsent, claims>>

\* Rolling back an error and giving up on the job without telling.
FailSilently(w) == worker[w].stage < Stages /\ Outcome(w, "running")

\* A duplicate key or any other error: the stage is rolled back, the stages
\* committed before it stay.
FailJob(w) == worker[w].stage < Stages /\ Outcome(w, "failed")

SucceedJob(w) == worker[w].stage = Stages /\ Outcome(w, "succeeded")

WorkerDies(w) ==
    /\ worker[w] # NotWorking /\ deaths + resets < MaxFaults
    /\ worker' = [worker EXCEPT ![w] = NotWorking]
    /\ deaths' = deaths + 1
    /\ Given /\ UNCHANGED <<job, rows, tasks, submission, resets, unsent, claims>>

\* uv run reset-tenant, whatever imports are at work ...
StartReset ==
    /\ sweep = {} /\ deaths + resets < MaxFaults
    /\ sweep' = {rows}
    /\ resets' = resets + 1
    /\ UNCHANGED <<backend, patrols, job, rows, tasks, submission, worker, deaths, unsent, claims>>

\* ... deletes table by table: a stage committed meanwhile is met or left, in
\* part too, and members linked to an account are kept.
CommitReset ==
    /\ \E met \in sweep, left \in [Job -> SUBSET (1..Stages)] :
          /\ \A j \in Job : left[j] \subseteq rows[j] /\ left[j] \cap met[j] \subseteq {2}
          /\ rows' = left
    /\ sweep' = {}
    /\ UNCHANGED <<backend, patrols, job, tasks, submission, worker, deaths, resets, unsent, claims>>

\* A row it wants to delete is referred to by one it leaves.
ResetFails ==
    /\ sweep # {} /\ sweep' = {}
    /\ UNCHANGED <<backend, patrols, job, rows, tasks, submission, worker, deaths, resets, unsent, claims>>
-----------------------------------------------------------------------------
JobsInit ==
    /\ backend \in {"inprocess", "cloudtasks"}
    /\ patrols \in [Job -> SUBSET PatrolName]
    /\ job = [j \in Job |-> "none"]
    /\ rows = [j \in Job |-> {}] /\ sweep = {}
    /\ tasks = {} /\ unsent = {}
    /\ submission = [r \in Requester |-> NotSubmitting]
    /\ worker = [w \in Worker |-> NotWorking]
    /\ deaths = 0 /\ resets = 0
    /\ claims = [j \in Job |-> 0]

SubmissionGoesOn(r) ==
    RejectIfActive(r) \/ (\E j \in Job : InsertJob(r, j)) \/ EnqueueImportJob(r)

WorkerGoesOn(w) ==
    \/ ImportPass(w)
    \/ \E j \in Job : ExecuteImportJob(w, j)
    \/ \E j \in Job : ClaimJob(w, j)
    \/ \E j \in Job : NotClaimed(w, j)
    \/ RunStage(w) \/ FailJob(w) \/ SucceedJob(w)

JobsNext ==
    \/ \E r \in Requester : Submit(r)
    \/ \E r \in Requester : SubmissionGoesOn(r)
    \/ \E r \in Requester : RequesterDies(r)
    \/ \E w \in Worker : WorkerGoesOn(w)
    \/ \E w \in Worker : WorkerDies(w)
    \/ StartReset \/ CommitReset \/ ResetFails

JobsSpec == JobsInit /\ [][JobsNext]_jobsVars

\* Submissions end, and one of the loops, scripts or pushes goes on.
JobsFairness ==
    /\ \A r \in Requester : WF_jobsVars(SubmissionGoesOn(r))
    /\ WF_jobsVars(\E w \in Worker : WorkerGoesOn(w))

FairJobsSpec == JobsSpec /\ JobsFairness
-----------------------------------------------------------------------------
(* Type correctness of jobs, queue, submissions and workers; no two workers are
   at one job. *)
JobsTypeOK ==
    /\ backend \in {"inprocess", "cloudtasks"}
    /\ patrols \in [Job -> SUBSET PatrolName]
    /\ job \in [Job -> JobStatus] /\ rows \in [Job -> SUBSET (1..Stages)]
    /\ sweep \subseteq [Job -> SUBSET (1..Stages)]
    /\ tasks \subseteq Job /\ unsent \subseteq Job
    /\ submission \in [Requester -> [step : {"idle", "fresh", "insert", "enqueue"},
                                     on : SUBSET Job]]
    /\ worker \in [Worker -> [todo : SUBSET Job, on : SUBSET Job, stage : 0..Stages]]
    /\ \A v, w \in Worker : v # w => worker[v].on \cap worker[w].on = {}
    /\ deaths \in Nat /\ resets \in Nat /\ claims \in [Job -> Nat]

Ledger == INSTANCE JobLedger WITH
              Entry <- Job, ledger <- job, runs <- claims,
              loaded <- {j \in Job : rows[j] # {}}

(* The queue implements the ledger: one active job, each job run once under
   repeated delivery and overlapping passes, outcomes final, and rows that
   only a running job adds, whatever resets do beside it. *)
KeepsLedger == Ledger!Spec

(* No job holds the tenant's imports up for ever: one that is queued or
   running is settled, unless a process died or its dispatch failed.  (A job
   whose worker died stays RUNNING, and one whose dispatch failed stays
   QUEUED, and either blocks the tenant.) *)
EveryJobEnds ==
    \A j \in Job : []<>(\/ job[j] \notin {"queued", "running"}
                         \/ deaths > 0 \/ j \in unsent)
=============================================================================
