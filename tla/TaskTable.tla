------------------------------ MODULE TaskTable ------------------------------
(***************************************************************************)
(* The job table of migration 0002 and the statements TaskService issues    *)
(* against it (src/src/sqlstack/domain/system/services/_task.py).           *)
(*                                                                          *)
(* Outside begin_transaction() every statement of the service commits on    *)
(* its own, so one statement is one step.  claim_task and cancel_task are   *)
(* transactions that lock the row they select, so each is one step too.     *)
(* Nothing a worker does between two statements is protected by a lock.     *)
(*                                                                          *)
(* Time is counted in heartbeat intervals (settings.task.HEARTBEAT_INTERVAL)*)
(* since the row's heartbeat_at.  The age matters only while the row is     *)
(* running and every claim resets it, so it is 0 in the other states.       *)
(***************************************************************************)
EXTENDS Integers, FiniteSets

CONSTANTS
    Jobs,             \* the ids of the rows that may come to exist
    MaxRetries,       \* the rows' max_retries column
    StaleAfter,       \* STALE_AFTER_MINUTES, in heartbeat intervals
    StartStaleAfter,  \* requeue_stale_running's default of 5 minutes, likewise
    MaxRequeues       \* BOUND: how often stale recovery may requeue one row

ASSUME TableAssumption ==
    /\ MaxRetries \in Nat
    /\ StaleAfter \in Nat
    /\ StartStaleAfter \in Nat
    /\ MaxRequeues \in Nat

VARIABLES
    job,       \* job[j]: the row's status, retry_count, heartbeat age, due time
    claims,    \* history: claims[j], the times claim_task took the row
    requeues,  \* history: requeues[j], the times stale recovery put it back
    gaveUp     \* history: the rows fail_task was told not to retry

tableVars == <<job, claims, requeues, gaveUp>>

Queued   == {"pending", "scheduled"}
Terminal == {"completed", "failed", "cancelled"}
Status   == {"absent", "deleted", "running"} \union Queued \union Terminal

\* Ages past the longer of the two stale limits tell nothing apart.
AgeCap == 1 + (IF StaleAfter > StartStaleAfter THEN StaleAfter ELSE StartStaleAfter)
Ages   == 0 .. AgeCap

JobRow == [status : Status, retryCount : Nat, age : Ages, due : BOOLEAN]

TableTypeOK ==
    /\ job \in [Jobs -> JobRow]
    /\ claims \in [Jobs -> Nat]
    /\ requeues \in [Jobs -> 0 .. MaxRequeues]
    /\ gaveUp \subseteq Jobs

TableInit ==
    /\ job = [j \in Jobs |->
                [status |-> "absent", retryCount |-> 0, age |-> 0, due |-> FALSE]]
    /\ claims = [j \in Jobs |-> 0]
    /\ requeues = [j \in Jobs |-> 0]
    /\ gaveUp = {}

Exists(j)     == job[j].status \notin {"absent", "deleted"}
IsQueued(j)   == job[j].status \in Queued
IsRunning(j)  == job[j].status = "running"
IsTerminal(j) == job[j].status \in Terminal

\* The statuses as JobLifecycle has them.
AbstractStatus == [j \in Jobs |-> IF IsQueued(j) THEN "queued" ELSE job[j].status]

\* What get_pending_tasks selects: queued, and past its scheduled_at if any.
Eligible == {j \in Jobs : IsQueued(j) /\ job[j].due}

\* What the statements do to a row: a new status, its heartbeat age starting afresh.
SetStatus(row, status) == [row EXCEPT !.status = status, !.age = 0]

\* Back to the queue, one retry spent.
PutBack(row) == [row EXCEPT !.status = "pending", !.age = 0, !.retryCount = @ + 1]

-----------------------------------------------------------------------------
(* create_task without a key: "scheduled" with a future scheduled_at, else   *)
(* "pending".                                                                *)
CreateTask(j, scheduled) ==
    /\ job[j].status = "absent"
    /\ job' = [job EXCEPT ![j].status = IF scheduled THEN "scheduled" ELSE "pending",
                          ![j].due = ~scheduled]
    /\ UNCHANGED <<claims, requeues, gaveUp>>

\* The clock passes the row's scheduled_at.
FallDue(j) ==
    /\ IsQueued(j)
    /\ ~job[j].due
    /\ job' = [job EXCEPT ![j].due = TRUE]
    /\ UNCHANGED <<claims, requeues, gaveUp>>

\* Mutant: claim_task without its WHERE status and row lock.
ClaimTaskUnlocked(j) ==
    /\ Exists(j)
    /\ job' = [job EXCEPT ![j] = SetStatus(@, "running")]
    /\ claims' = [claims EXCEPT ![j] = @ + 1]
    /\ UNCHANGED <<requeues, gaveUp>>

\* Mutant: claim_task that also takes a row somebody is running.
ClaimTaskRunning(j) ==
    /\ IsQueued(j) \/ IsRunning(j)
    /\ job' = [job EXCEPT ![j] = SetStatus(@, "running")]
    /\ claims' = [claims EXCEPT ![j] = @ + 1]
    /\ UNCHANGED <<requeues, gaveUp>>

\* claim_task returning True.  Returning False changes nothing.
ClaimTask(j) ==
    /\ IsQueued(j)
    /\ job' = [job EXCEPT ![j] = SetStatus(@, "running")]
    /\ claims' = [claims EXCEPT ![j] = @ + 1]
    /\ UNCHANGED <<requeues, gaveUp>>

\* Mutant: complete_task writes a status the rest of the code does not know.
CompleteTaskMisspelt(j) ==
    /\ job' = IF Exists(j) THEN [job EXCEPT ![j] = SetStatus(@, "complete")] ELSE job
    /\ UNCHANGED <<claims, requeues, gaveUp>>

\* complete_task: UPDATE ... WHERE id, whatever the row's status has become.
CompleteTask(j) ==
    /\ job' = IF Exists(j)
              THEN [job EXCEPT ![j] = SetStatus(@, "completed")]
              ELSE job
    /\ UNCHANGED <<claims, requeues, gaveUp>>

\* Mutant: the retry is not counted.
FailTaskUncounted(j, retry) ==
    LET again == retry /\ job[j].retryCount < MaxRetries
    IN  /\ job' = IF ~Exists(j) THEN job
                  ELSE IF again
                  THEN [job EXCEPT ![j] = SetStatus(@, "pending")]
                  ELSE [job EXCEPT ![j] = SetStatus(@, "failed")]
        /\ gaveUp' = IF retry THEN gaveUp ELSE gaveUp \union {j}
        /\ UNCHANGED <<claims, requeues>>

\* Mutant: the last retry is withheld (off by one).
FailTaskEarly(j, retry) ==
    LET again == retry /\ job[j].retryCount + 1 < MaxRetries
    IN  /\ job' = IF ~Exists(j) THEN job
                  ELSE IF again
                  THEN [job EXCEPT ![j] = PutBack(@)]
                  ELSE [job EXCEPT ![j] = SetStatus(@, "failed")]
        /\ gaveUp' = IF retry THEN gaveUp ELSE gaveUp \union {j}
        /\ UNCHANGED <<claims, requeues>>

\* fail_task: also by id alone.  Each put-back spends one retry.
FailTask(j, retry) ==
    LET again == retry /\ job[j].retryCount < MaxRetries
    IN  /\ job' = IF ~Exists(j) THEN job
                  ELSE IF again
                  THEN [job EXCEPT ![j] = PutBack(@)]
                  ELSE [job EXCEPT ![j] = SetStatus(@, "failed")]
        /\ gaveUp' = IF retry THEN gaveUp ELSE gaveUp \union {j}
        /\ UNCHANGED <<claims, requeues>>

\* cancel_task returning True.
CancelTask(j) ==
    /\ IsQueued(j)
    /\ job' = [job EXCEPT ![j] = SetStatus(@, "cancelled")]
    /\ UNCHANGED <<claims, requeues, gaveUp>>

\* cleanup_old_jobs: terminal rows past the cutoff, which is the caller's.
CleanupOldJobs(js) ==
    /\ js # {}
    /\ \A j \in js : IsTerminal(j)
    /\ job' = [j \in Jobs |-> IF j \in js THEN SetStatus(job[j], "deleted")
                                          ELSE job[j]]
    /\ UNCHANGED <<claims, requeues, gaveUp>>

(* requeue_stale_running: every running row whose heartbeat is older than    *)
(* the limit.  A row of exactly that age is within one interval of the       *)
(* cutoff and may fall on either side of it.  Unlike fail_task the           *)
(* statement does not look at max_retries.                                   *)
Stale(js, limit) ==
    /\ \A j \in js : IsRunning(j) /\ job[j].age >= limit
    /\ \A j \in Jobs : IsRunning(j) /\ job[j].age > limit => j \in js

RequeueStaleRunning(js, limit) ==
    /\ Stale(js, limit)
    /\ \A j \in js : requeues[j] < MaxRequeues
    /\ job' = [j \in Jobs |-> IF j \in js THEN PutBack(job[j]) ELSE job[j]]
    /\ requeues' = [j \in Jobs |-> IF j \in js THEN requeues[j] + 1 ELSE requeues[j]]
    /\ UNCHANGED <<claims, gaveUp>>

\* HeartbeatManager's batch UPDATE: the running rows among js, whoever runs them.
UpdateHeartbeats(js) ==
    /\ job' = [j \in Jobs |-> IF j \in js /\ IsRunning(j)
                              THEN [job[j] EXCEPT !.age = 0] ELSE job[j]]
    /\ UNCHANGED <<claims, requeues, gaveUp>>

\* One heartbeat interval passes.
AgeHeartbeats ==
    /\ job' = [j \in Jobs |-> IF IsRunning(j) /\ job[j].age < AgeCap
                              THEN [job[j] EXCEPT !.age = @ + 1] ELSE job[j]]
    /\ UNCHANGED <<claims, requeues, gaveUp>>
=============================================================================
