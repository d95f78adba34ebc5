----------------------------- MODULE JobLedger ------------------------------
(***************************************************************************)
(* What the import queue promises (backend/app/core/import_jobs.py, the    *)
(* docstring of process_import_job, and models/import_job.py): a tenant    *)
(* has one active job at a time, a job is run once however often it is     *)
(* delivered, an outcome is final, and only the job that is running adds   *)
(* rows.  How submissions, queues and workers do it is left open.          *)
(***************************************************************************)
EXTENDS Naturals

CONSTANT Entry

VARIABLES
    ledger,  \* the status of each job
    runs,    \* how often each job was started
    loaded   \* the jobs whose rows the tenant has

vars == <<ledger, runs, loaded>>

Init == /\ ledger = [j \in Entry |-> "none"]
        /\ runs = [j \in Entry |-> 0]
        /\ loaded = {}

Queue(j) ==
    /\ \A k \in Entry : ledger[k] \notin {"queued", "running"}
    /\ ledger[j] = "none"
    /\ ledger' = [ledger EXCEPT ![j] = "queued"]
    /\ UNCHANGED <<runs, loaded>>

Start(j) ==
    /\ ledger[j] = "queued"
    /\ ledger' = [ledger EXCEPT ![j] = "running"]
    /\ runs' = [runs EXCEPT ![j] = @ + 1]
    /\ UNCHANGED loaded

Load(j) ==
    /\ ledger[j] = "running"
    /\ loaded' = loaded \cup {j}
    /\ UNCHANGED <<ledger, runs>>

Settle(j) ==
    /\ ledger[j] = "running"
    /\ \E outcome \in {"succeeded", "failed"} : ledger' = [ledger EXCEPT ![j] = outcome]
    /\ UNCHANGED <<runs, loaded>>

\* Rows may be taken away, all or some, at any time.
Clear == (\E left \in SUBSET loaded : loaded' = left) /\ UNCHANGED <<ledger, runs>>

Next == (\E j \in Entry : Queue(j) \/ Start(j) \/ Load(j) \/ Settle(j)) \/ Clear

Spec == Init /\ [][Next]_vars
=============================================================================
