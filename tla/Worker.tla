-------------------------------- MODULE Worker --------------------------------
(***************************************************************************)
(* A pool of background workers over one job table                          *)
(* (src/src/sqlstack/utils/worker/worker.py and heartbeat.py).              *)
(*                                                                          *)
(* Each worker is one asyncio process: the polling loop of _run, one        *)
(* coroutine _execute_task per claimed job, and the heartbeat manager's     *)
(* loop.  They interleave at every await, so the steps below are the pieces *)
(* of code between two awaits that touch shared state; the workers share    *)
(* only the table.                                                          *)
(***************************************************************************)
EXTENDS TaskTable

CONSTANTS
    Workers,            \* worker processes
    MaxConcurrentJobs,  \* slots of Worker._job_semaphore
    Faults,             \* the kinds of trouble this instance lets happen
    MaxFaults           \* BOUND: faults in one behaviour, timeouts apart

(* "crash"     the process dies                                             *)
(* "shutdown"  SIGTERM, cancellation of start(), or an exception that _run  *)
(*             does not catch                                               *)
(* "timeout"   a job outlives its timeout                                   *)
(* "publish"   an error after the job's row is settled: publishing the      *)
(*             status, closing the request container                        *)
(* "statement" the worker's statement fails                                 *)
(* "heartbeat" the heartbeat manager's statement fails                      *)
FaultKinds == {"crash", "shutdown", "timeout", "publish", "statement", "heartbeat"}

ASSUME WorkerAssumption ==
    /\ MaxConcurrentJobs \in Nat \ {0}
    /\ Faults \subseteq FaultKinds
    /\ MaxFaults \in Nat

VARIABLES
    mode,      \* mode[w]: life of the process, see Modes
    fetched,   \* fetched[w]: rows of get_pending_tasks the loop has yet to claim
    pc,        \* pc[w][j]: where w's _execute_task for j is, "idle" if there is none
    active,    \* active[w]: HeartbeatManager._active_jobs
    fails,     \* fails[w]: HeartbeatManager._consecutive_failures
    beatDue,   \* beatDue[w]: the manager's sleep(interval) is over
    faults     \* faults so far

workerVars == <<mode, fetched, pc, active, fails, beatDue, faults>>
vars == <<job, claims, requeues, gaveUp, mode, fetched, pc, active, fails, beatDue, faults>>

(* "grace": _cleanup waits graceful_shutdown_timeout for the executions;    *)
(* "overdue": the same, and a heartbeat interval has passed meanwhile;      *)
(* "draining": they are cancelled and _cleanup waits for them to unwind.    *)
Modes == {"down", "up", "grace", "overdue", "draining"}

(* waiting    claimed, at `async with self._job_semaphore`                  *)
(* body       registered with the heartbeat manager, job function running   *)
(* timedout   the function timed out, _run_job_function about to fail_task  *)
(* completing the function returned, complete_task next                     *)
(* publishing complete_task done, status not yet published                  *)
(* failing    an exception reached _job_failed, fail_task(retry) next       *)
(* failingPermanently   the same for a NonRetryableError                    *)
(* cancelling _job_cancelled, fail_task(retry=True) next                    *)
(* unwinding  the handlers are done, `finally` next                         *)
(* flushing   unregistered, flushing job logs, still in running_tasks       *)
PCs == {"idle", "waiting", "body", "timedout", "completing", "publishing", "failing",
        "failingPermanently", "cancelling", "unwinding", "flushing"}

TypeOK ==
    /\ TableTypeOK
    /\ mode \in [Workers -> Modes]
    /\ fetched \in [Workers -> SUBSET Jobs]
    /\ pc \in [Workers -> [Jobs -> PCs]]
    /\ active \in [Workers -> SUBSET Jobs]
    /\ fails \in [Workers -> Nat]
    /\ beatDue \in [Workers -> BOOLEAN]
    /\ faults \in 0 .. MaxFaults

Init ==
    /\ TableInit
    /\ mode = [w \in Workers |-> "down"]
    /\ fetched = [w \in Workers |-> {}]
    /\ pc = [w \in Workers |-> [j \in Jobs |-> "idle"]]
    /\ active = [w \in Workers |-> {}]
    /\ fails = [w \in Workers |-> 0]
    /\ beatDue = [w \in Workers |-> FALSE]
    /\ faults = 0

Fault(kind) ==
    /\ kind \in Faults
    /\ faults < MaxFaults
    /\ faults' = faults + 1

Goto(w, j, place) == pc' = [pc EXCEPT ![w][j] = place]

\* The executions that hold a slot of the semaphore.
Inside(w)   == {j \in Jobs : pc[w][j] \notin {"idle", "waiting"}}
Idle(w)     == \A j \in Jobs : pc[w][j] = "idle"
SlotFree(w) == Cardinality(Inside(w)) < MaxConcurrentJobs

-----------------------------------------------------------------------------
(* Clients and the clock.                                                    *)

Create(j) ==
    /\ \E scheduled \in BOOLEAN : CreateTask(j, scheduled)
    /\ UNCHANGED workerVars

TimeArrives(j) ==
    /\ FallDue(j)
    /\ UNCHANGED workerVars

Cancel(j) ==
    /\ CancelTask(j)
    /\ UNCHANGED workerVars

Cleanup ==
    /\ \E js \in SUBSET Jobs : CleanupOldJobs(js)
    /\ UNCHANGED workerVars

(* A heartbeat interval is long against everything but job functions, what   *)
(* they keep waiting, and a shutdown's cancellations: by its end the manager *)
(* has made the attempt of the last interval, a claimed job has taken a free *)
(* slot, an execution that is not registered has issued its statement, and a *)
(* grace period (5 s) has met at most one boundary.                          *)
Prompt(w, j) ==
    /\ pc[w][j] \notin {"idle", "body"}
    /\ j \notin active[w]
    /\ pc[w][j] = "waiting" => SlotFree(w)

Tick ==
    /\ \A w \in Workers :
         /\ ~beatDue[w]
         /\ mode[w] # "overdue"
         /\ mode[w] \in {"up", "grace"} => \A j \in Jobs : ~Prompt(w, j)
    /\ AgeHeartbeats
    /\ beatDue' = [w \in Workers |-> mode[w] = "up"]
    /\ mode' = [w \in Workers |-> IF mode[w] = "grace" THEN "overdue" ELSE mode[w]]
    /\ UNCHANGED <<fetched, pc, active, fails, faults>>

-----------------------------------------------------------------------------
(* start: the heartbeat manager starts, then one stale recovery with the     *)
(* five-minute default; its failure is logged and ignored.                   *)
Start(w) ==
    /\ mode[w] = "down"
    /\ mode' = [mode EXCEPT ![w] = "up"]
    /\ fails' = [fails EXCEPT ![w] = 0]
    /\ \/ /\ \E js \in SUBSET Jobs : RequeueStaleRunning(js, StartStaleAfter)
          /\ UNCHANGED faults
       \/ /\ Fault("statement")
          /\ UNCHANGED tableVars
    /\ UNCHANGED <<fetched, pc, active, beatDue>>

(* _process_pending_tasks: get_pending_tasks.  batch_size exceeds the rows   *)
(* here, so the LIMIT and its ORDER BY choose among them nothing.  The row   *)
(* locks of FOR UPDATE are gone when the statement commits.                  *)
Poll(w) ==
    /\ mode[w] = "up"
    /\ fetched[w] = {}
    /\ Eligible # {}
    /\ fetched' = [fetched EXCEPT ![w] = Eligible]
    /\ UNCHANGED <<tableVars, mode, pc, active, fails, beatDue, faults>>

\* A fetched row already in running_tasks is skipped, one taken meanwhile not claimed.
Skip(w, j) ==
    /\ mode[w] = "up"
    /\ j \in fetched[w]
    /\ pc[w][j] # "idle" \/ ~IsQueued(j)
    /\ fetched' = [fetched EXCEPT ![w] = @ \ {j}]
    /\ UNCHANGED <<tableVars, mode, pc, active, fails, beatDue, faults>>

\* claim_task succeeds, create_task(_execute_task), running_tasks[id] = task.
Claim(w, j) ==
    /\ mode[w] = "up"
    /\ j \in fetched[w]
    /\ pc[w][j] = "idle"
    /\ ClaimTask(j)
    /\ fetched' = [fetched EXCEPT ![w] = @ \ {j}]
    /\ Goto(w, j, "waiting")
    /\ UNCHANGED <<mode, active, fails, beatDue, faults>>

(* _run catches ConnectionError, OSError and RuntimeError and polls again    *)
(* later: the rest of the batch is dropped.                                  *)
LoopError(w) ==
    /\ mode[w] = "up"
    /\ fetched[w] # {}
    /\ Fault("statement")
    /\ fetched' = [fetched EXCEPT ![w] = {}]
    /\ UNCHANGED <<tableVars, mode, pc, active, fails, beatDue>>

\* Mutant: _run never gets to the periodic recovery.
RequeueNever(w) == w \notin Workers /\ UNCHANGED vars

\* The periodic stale recovery, after a batch.
Requeue(w) ==
    /\ mode[w] = "up"
    /\ fetched[w] = {}
    /\ \E js \in SUBSET Jobs : js # {} /\ RequeueStaleRunning(js, StaleAfter)
    /\ UNCHANGED workerVars

-----------------------------------------------------------------------------
(* HeartbeatManager._run and _update_heartbeats.                             *)

BeatNothing(w) ==
    /\ beatDue[w]
    /\ active[w] = {}
    /\ beatDue' = [beatDue EXCEPT ![w] = FALSE]
    /\ UNCHANGED <<tableVars, mode, fetched, pc, active, fails, faults>>

Beat(w) ==
    /\ beatDue[w]
    /\ active[w] # {}
    /\ UpdateHeartbeats(active[w])
    /\ fails' = [fails EXCEPT ![w] = 0]
    /\ beatDue' = [beatDue EXCEPT ![w] = FALSE]
    /\ UNCHANGED <<mode, fetched, pc, active, faults>>

BeatFails(w) ==
    /\ beatDue[w]
    /\ active[w] # {}
    /\ Fault("heartbeat")
    /\ fails' = [fails EXCEPT ![w] = @ + 1]
    /\ beatDue' = [beatDue EXCEPT ![w] = FALSE]
    /\ UNCHANGED <<tableVars, mode, fetched, pc, active>>

-----------------------------------------------------------------------------
(* _execute_task, _execute_task_inner and their helpers.                     *)

\* Executions advance until their worker is down.
At(w, j, place) == mode[w] # "down" /\ pc[w][j] = place

\* Mutant: register_job is forgotten.
AcquireUnregistered(w, j) ==
    /\ At(w, j, "waiting")
    /\ mode[w] # "draining"
    /\ SlotFree(w)
    /\ Goto(w, j, "body")
    /\ UNCHANGED <<tableVars, mode, fetched, active, fails, beatDue, faults>>

Acquire(w, j) ==
    /\ At(w, j, "waiting")
    /\ mode[w] # "draining"
    /\ SlotFree(w)
    /\ \/ /\ active' = [active EXCEPT ![w] = @ \union {j}]
          /\ Goto(w, j, "body")
       \/ \* unknown function, or the request container fails: never registered
          /\ Goto(w, j, "failing")
          /\ UNCHANGED active
    /\ UNCHANGED <<tableVars, mode, fetched, fails, beatDue, faults>>

BodyReturns(w, j) ==
    /\ At(w, j, "body")
    /\ Goto(w, j, "completing")
    /\ UNCHANGED <<tableVars, mode, fetched, active, fails, beatDue, faults>>

BodyRaises(w, j) ==
    /\ At(w, j, "body")
    /\ \E place \in {"failing", "failingPermanently"} : Goto(w, j, place)
    /\ UNCHANGED <<tableVars, mode, fetched, active, fails, beatDue, faults>>

BodyTimesOut(w, j) ==
    /\ "timeout" \in Faults
    /\ At(w, j, "body")
    /\ Goto(w, j, "timedout")
    /\ UNCHANGED <<tableVars, mode, fetched, active, fails, beatDue, faults>>

(* _run_job_function's own fail_task; the TimeoutError it re-raises (or the  *)
(* statement's error) then reaches _job_failed, which calls fail_task again. *)
TimeoutFails(w, j) ==
    /\ At(w, j, "timedout")
    /\ \/ /\ FailTask(j, TRUE)
          /\ UNCHANGED faults
       \/ /\ Fault("statement")
          /\ UNCHANGED tableVars
    /\ Goto(w, j, "failing")
    /\ UNCHANGED <<mode, fetched, active, fails, beatDue>>

Complete(w, j) ==
    /\ At(w, j, "completing")
    /\ \/ /\ CompleteTask(j)
          /\ Goto(w, j, "publishing")
          /\ UNCHANGED faults
       \/ /\ Fault("statement")
          /\ Goto(w, j, "failing")
          /\ UNCHANGED tableVars
    /\ UNCHANGED <<mode, fetched, active, fails, beatDue>>

Publish(w, j) ==
    /\ At(w, j, "publishing")
    /\ \/ /\ Goto(w, j, "unwinding")
          /\ UNCHANGED faults
       \/ /\ Fault("publish")
          /\ Goto(w, j, "failing")
    /\ UNCHANGED <<tableVars, mode, fetched, active, fails, beatDue>>

\* _job_failed and _job_cancelled.  Their own errors leave the row as it is.
Settle(w, j) ==
    /\ \/ /\ At(w, j, "failingPermanently")
          /\ FailTask(j, FALSE)
          /\ UNCHANGED faults
       \/ /\ At(w, j, "failing") \/ At(w, j, "cancelling")
          /\ FailTask(j, TRUE)
          /\ UNCHANGED faults
       \/ /\ \E place \in {"failing", "failingPermanently", "cancelling"} : At(w, j, place)
          /\ Fault("statement")
          /\ UNCHANGED tableVars
    /\ Goto(w, j, "unwinding")
    /\ UNCHANGED <<mode, fetched, active, fails, beatDue>>

\* Mutant: unregister_job is forgotten.
UnwindRegistered(w, j) ==
    /\ At(w, j, "unwinding")
    /\ Goto(w, j, "flushing")
    /\ UNCHANGED <<tableVars, mode, fetched, active, fails, beatDue, faults>>

\* `finally`: unregister_job at once, then the log flush, then running_tasks.pop.
Unwind(w, j) ==
    /\ At(w, j, "unwinding")
    /\ active' = [active EXCEPT ![w] = @ \ {j}]
    /\ Goto(w, j, "flushing")
    /\ UNCHANGED <<tableVars, mode, fetched, fails, beatDue, faults>>

Finish(w, j) ==
    /\ At(w, j, "flushing")
    /\ Goto(w, j, "idle")
    /\ UNCHANGED <<tableVars, mode, fetched, active, fails, beatDue, faults>>

-----------------------------------------------------------------------------
(* _cleanup, and death.                                                      *)

(* The loop ends; _cleanup stops the heartbeat manager before it waits for   *)
(* the executions.  A batch under way is dropped (on SIGTERM the loop        *)
(* finishes it first: then fetched is already empty).                        *)
BeginCleanup(w) ==
    /\ mode[w] = "up"
    /\ Fault("shutdown")
    /\ mode' = [mode EXCEPT ![w] = "grace"]
    /\ fetched' = [fetched EXCEPT ![w] = {}]
    /\ beatDue' = [beatDue EXCEPT ![w] = FALSE]
    /\ UNCHANGED <<tableVars, pc, active, fails>>

\* The same while claim_task is awaited: the row is taken and nobody executes it.
ClaimInterrupted(w, j) ==
    /\ mode[w] = "up"
    /\ j \in fetched[w]
    /\ pc[w][j] = "idle"
    /\ Fault("shutdown")
    /\ ClaimTask(j)
    /\ mode' = [mode EXCEPT ![w] = "grace"]
    /\ fetched' = [fetched EXCEPT ![w] = {}]
    /\ beatDue' = [beatDue EXCEPT ![w] = FALSE]
    /\ UNCHANGED <<pc, active, fails>>

(* wait_for(gather(...)) times out and cancels every execution.  One still   *)
(* waiting for a slot has no handler and just ends; one in _job_failed       *)
(* loses that statement; the others get to _job_cancelled.                   *)
AfterCancel(place) ==
    CASE place \in {"waiting", "idle", "flushing"}                  -> "idle"
      [] place \in {"failing", "failingPermanently", "unwinding"}   -> "unwinding"
      [] OTHER                                                      -> "cancelling"

CancelRunning(w) ==
    /\ mode[w] \in {"grace", "overdue"}
    /\ ~Idle(w)
    /\ mode' = [mode EXCEPT ![w] = "draining"]
    /\ pc' = [pc EXCEPT ![w] = [j \in Jobs |-> AfterCancel(pc[w][j])]]
    /\ UNCHANGED <<tableVars, fetched, active, fails, beatDue, faults>>

Stop(w) ==
    /\ mode[w] \in {"grace", "overdue", "draining"}
    /\ Idle(w)
    /\ mode' = [mode EXCEPT ![w] = "down"]
    /\ UNCHANGED <<tableVars, fetched, pc, active, fails, beatDue, faults>>

Crash(w) ==
    /\ mode[w] # "down"
    /\ Fault("crash")
    /\ mode' = [mode EXCEPT ![w] = "down"]
    /\ fetched' = [fetched EXCEPT ![w] = {}]
    /\ pc' = [pc EXCEPT ![w] = [j \in Jobs |-> "idle"]]
    /\ active' = [active EXCEPT ![w] = {}]
    /\ beatDue' = [beatDue EXCEPT ![w] = FALSE]
    /\ UNCHANGED <<tableVars, fails>>

-----------------------------------------------------------------------------
Client(j) == Create(j) \/ TimeArrives(j) \/ Cancel(j)

Loop(w) ==
    \/ Start(w) \/ Poll(w) \/ LoopError(w) \/ Requeue(w)
    \/ \E j \in Jobs : Skip(w, j) \/ Claim(w, j)

Heartbeat(w) == BeatNothing(w) \/ Beat(w) \/ BeatFails(w)

Execute(w, j) ==
    \/ Acquire(w, j) \/ BodyReturns(w, j) \/ BodyRaises(w, j) \/ BodyTimesOut(w, j)
    \/ TimeoutFails(w, j) \/ Complete(w, j) \/ Publish(w, j) \/ Settle(w, j)
    \/ Unwind(w, j) \/ Finish(w, j)

Shutdown(w) ==
    \/ BeginCleanup(w) \/ CancelRunning(w) \/ Stop(w) \/ Crash(w)
    \/ \E j \in Jobs : ClaimInterrupted(w, j)

Next ==
    \/ Tick \/ Cleanup
    \/ \E j \in Jobs : Client(j)
    \/ \E w \in Workers : Loop(w) \/ Heartbeat(w) \/ Shutdown(w)
    \/ \E w \in Workers, j \in Jobs : Execute(w, j)

Spec == Init /\ [][Next]_vars

-----------------------------------------------------------------------------
(* Fairness.  The event loop runs every coroutine that can run, the clock    *)
(* advances, the loop comes round at least every poll_interval; a job that   *)
(* does not end is ended by its timeout; and whatever supervises the         *)
(* processes restarts one that is down (the code leaves that to systemd,     *)
(* Kubernetes or the web application).  Nothing obliges clients or faults.   *)
Fairness ==
    /\ WF_vars(Tick)
    /\ \A j \in Jobs : WF_vars(TimeArrives(j))
    /\ \A w \in Workers :
         /\ WF_vars(Start(w))
         /\ WF_vars(Poll(w))
         /\ WF_vars(\E j \in Jobs : Skip(w, j) \/ Claim(w, j))
         /\ WF_vars(Requeue(w))
         /\ WF_vars(Heartbeat(w))
         /\ WF_vars(CancelRunning(w))
         /\ WF_vars(Stop(w))
         /\ \A j \in Jobs : WF_vars(Execute(w, j))

FairSpec == Spec /\ Fairness

-----------------------------------------------------------------------------
(* Properties.                                                               *)

\* The places from which the execution will still write an outcome to the row.
Unsettled == {"waiting", "body", "timedout", "completing", "failing",
              "failingPermanently", "cancelling"}

(* How often a job can run.  Every way back to the queue spends a retry, and *)
(* only stale recovery goes past max_retries, so a job is started at most    *)
(* max_retries + 1 times plus once per recovery, in whatever order timeouts, *)
(* late failures of a superseded worker, cancellations and crashes meet      *)
(* (fail_task, requeue_stale_running, claim_task).                           *)
AttemptBudget == \A j \in Jobs : claims[j] <= MaxRetries + 1 + requeues[j]

(* A job is never in a worker's heartbeat set without an execution there     *)
(* that has yet to reach its `finally`: a leaked id would keep refreshing    *)
(* the row of whoever runs the job next and hide that worker's crash         *)
(* (register_job and unregister_job over every exit path).                   *)
NoHeartbeatLeak ==
    \A w \in Workers : \A j \in active[w] :
        pc[w][j] \in (Unsettled \ {"waiting"}) \union {"publishing", "unwinding"}

(* Stale recovery leaves alone the job of a live worker that is executing it *)
(* and whose heartbeats have not failed too often in a row to have refreshed *)
(* the row within stale_after (start's "stale recovery invariant").          *)
Attended(w, j) ==
    /\ mode[w] = "up"
    /\ pc[w][j] \in {"body", "timedout", "completing"}
    /\ fails[w] + 1 < StaleAfter

HealthyNotRequeued ==
    [][\A w \in Workers, j \in Jobs : Attended(w, j) => requeues'[j] = requeues[j]]_vars

(* However few the slots and whatever else fails: once a heartbeat of an     *)
(* execution has got through, its row is never older than the attempts that  *)
(* failed since, in a row, while the worker is up and the execution lasts,   *)
(* and recovery leaves it alone as long as these are few enough (_run and    *)
(* _update_heartbeats against requeue_stale_running).                        *)
Beaten(w, j) ==
    /\ mode[w] = "up"
    /\ pc[w][j] \in {"body", "timedout", "completing"}
    /\ IsRunning(j) => job[j].age <= fails[w] + (IF beatDue[w] THEN 1 ELSE 0)

BeatenStep(w, j) ==
    /\ Beat(w) /\ pc[w][j] \in {"body", "timedout", "completing"} => Beaten(w, j)'
    /\ Beaten(w, j) =>
         /\ mode'[w] = "up" /\ pc'[w][j] \in {"body", "timedout", "completing"} => Beaten(w, j)'
         /\ fails[w] + 1 < StaleAfter => requeues'[j] = requeues[j]

BeatenStaysBeaten == [][\A w \in Workers, j \in Jobs : BeatenStep(w, j)]_vars

(* A job that no NonRetryableError ended fails for good only after it was    *)
(* started max_retries + 1 times (fail_task, _run_job_function, _job_failed).*)
FailedOnlyAfterRetries ==
    \A j \in Jobs : job[j].status = "failed" /\ j \notin gaveUp => claims[j] > MaxRetries

(* Whatever else goes wrong and however few the slots: a job with retries    *)
(* left fails for good only when they were spent, each by an attempt, by one *)
(* more statement of an attempt that timed out, or by recovery (fail_task,   *)
(* _run_job_function, _job_failed, requeue_stale_running).                   *)
SpentByAttempt == IF "timeout" \in Faults THEN 2 ELSE 1
FailedOnlyWhenSpent ==
    \A j \in Jobs :
        job[j].status = "failed" /\ j \notin gaveUp
            => SpentByAttempt * claims[j] + requeues[j] > MaxRetries

(* Unless a job times out, two executions of it overlap only after stale     *)
(* recovery has put it back, one more for each time: neither a crash, a      *)
(* shutdown, an error after the outcome nor a late outcome is enough         *)
(* (claim_task, complete_task, fail_task).                                   *)
Attempts(j) == {w \in Workers : pc[w][j] \in {"waiting", "body", "completing"}}
OverlapOnlyAfterRecovery ==
    \A j \in Jobs : Cardinality(Attempts(j)) <= 1 + requeues[j]

(* Whatever goes wrong, the table and the workers implement JobLifecycle     *)
(* with the executions a worker has under way as the job's holders: only     *)
(* queued jobs are claimed, and only a job that some execution still holds   *)
(* can leave a terminal status.                                              *)
Lifecycle == INSTANCE JobLifecycle WITH
    status <- AbstractStatus,
    holders <- [j \in Jobs |-> {w \in Workers : pc[w][j] # "idle"}]

ImplementsLifecycle == Lifecycle!Spec

(* With no timeout, no shutdown, no error after the row is settled and a     *)
(* slot for every job, they implement the strict lifecycle, the holders      *)
(* being the executions yet to settle: a job has one at a time, no outcome   *)
(* is overwritten, and recovery takes only jobs that nobody executes.        *)
Strict == INSTANCE JobLifecycle WITH
    status <- AbstractStatus,
    holders <- [j \in Jobs |-> {w \in Workers : pc[w][j] \in Unsettled}]

ImplementsStrictLifecycle == Strict!StrictSpec

(* Every job created is in the end completed, failed or cancelled, across    *)
(* crashes, shutdowns and failed statements: no row stays in the queue or    *)
(* running for ever.                                                         *)
EventuallySettled ==
    \A j \in Jobs :
        Exists(j) ~> (IsTerminal(j) \/ job[j].status = "deleted")
=============================================================================
