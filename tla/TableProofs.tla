----------------------------- MODULE TableProofs -----------------------------
(***************************************************************************)
(* What the statements of TaskService keep, whoever issues them: the worker *)
(* pool, the clients, stale recovery and the Cloud Run containers.          *)
(*                                                                          *)
(* Accounting bounds the claims of a row by the retries it has spent, and   *)
(* these by max_retries and the recoveries: a row in the queue has had at   *)
(* most as many claims as retries spent, any other at most one more.        *)
(***************************************************************************)
EXTENDS TaskTable, FiniteSetTheorems, TLAPS

\* The row waits for a claim, or does not exist yet.
Unclaimed(j) == job[j].status \in Queued \union {"absent"}

Accounted(j) ==
    /\ job[j].retryCount <= MaxRetries + requeues[j]
    /\ claims[j] <= job[j].retryCount + (IF Unclaimed(j) THEN 0 ELSE 1)

Accounting == \A j \in Jobs : Accounted(j)

TableInv == TableTypeOK /\ Accounting

-----------------------------------------------------------------------------
(* What the statements write is a row again.                                 *)

\* A statement may reset any row's age.
LEMMA ZeroIsAnAge == 0 \in Ages
  BY TableAssumption DEF TableAssumption, Ages, AgeCap

\* SetStatus keeps the retry count.
LEMMA SetStatusRow ==
    ASSUME NEW row \in JobRow, NEW s \in Status
    PROVE  /\ SetStatus(row, s) \in JobRow
           /\ SetStatus(row, s).status = s
           /\ SetStatus(row, s).retryCount = row.retryCount
  BY ZeroIsAnAge DEF SetStatus, JobRow

\* PutBack spends one retry.
LEMMA PutBackRow ==
    ASSUME NEW row \in JobRow
    PROVE  /\ PutBack(row) \in JobRow
           /\ PutBack(row).status = "pending"
           /\ PutBack(row).retryCount = row.retryCount + 1
<1>1. row.retryCount + 1 \in Nat /\ "pending" \in Status
  BY DEF JobRow, Status, Queued
<1>2. QED BY <1>1, ZeroIsAnAge DEF PutBack, JobRow

\* Setting a row's status moves the abstract status.
LEMMA SetStatusMoves ==
    ASSUME TableTypeOK, NEW j \in Jobs, NEW s \in Status \ Queued, job'[j] = SetStatus(job[j], s)
    PROVE  AbstractStatus'[j] = s
<1>1. job[j] \in JobRow
  BY DEF TableTypeOK
<1>2. job'[j].status = s
  BY <1>1, SetStatusRow
<1>3. QED BY <1>2 DEF AbstractStatus, IsQueued

\* A row put back is queued.
LEMMA PutBackMoves ==
    ASSUME TableTypeOK, NEW j \in Jobs, job'[j] = PutBack(job[j])
    PROVE  AbstractStatus'[j] = "queued"
<1>1. job[j] \in JobRow
  BY DEF TableTypeOK
<1>2. job'[j].status = "pending"
  BY <1>1, PutBackRow
<1>3. QED BY <1>2 DEF AbstractStatus, IsQueued, Queued

-----------------------------------------------------------------------------
(* The statements of TaskService keep the table's part of the invariant.     *)

\* An unchanged table keeps it.
LEMMA TableStutter ==
    ASSUME TableInv, UNCHANGED tableVars
    PROVE  TableInv'
  BY DEF TableInv, TableTypeOK, Accounting, Accounted, Unclaimed, tableVars

\* create_task makes a row that has had no claim.
LEMMA CreateTaskInv ==
    ASSUME TableInv, NEW j \in Jobs, NEW scheduled \in BOOLEAN, CreateTask(j, scheduled)
    PROVE  TableInv'
<1>1. TableTypeOK'
  <2> DEFINE status == IF scheduled THEN "scheduled" ELSE "pending"
             due == ~scheduled
  <2>1. status \in Status /\ due \in BOOLEAN
    BY DEF Status, Queued
  <2>2. /\ job' = [job EXCEPT ![j].status = status, ![j].due = due]
        /\ UNCHANGED <<claims, requeues, gaveUp>> /\ TableTypeOK
    BY DEF CreateTask, TableInv
  <2> HIDE DEF status, due
  <2>3. job' \in [Jobs -> JobRow]
    BY <2>1, <2>2 DEF TableTypeOK, JobRow
  <2>4. QED BY <2>2, <2>3 DEF TableTypeOK
<1>2. Accounting'
  BY DEF TableInv, TableTypeOK, JobRow, Accounting, Accounted, Unclaimed, CreateTask, Queued
<1>3. QED BY <1>1, <1>2 DEF TableInv

\* The clock changes neither status nor count.
LEMMA FallDueInv ==
    ASSUME TableInv, NEW j \in Jobs, FallDue(j)
    PROVE  TableInv'
<1>1. TableTypeOK'
  BY DEF TableInv, TableTypeOK, FallDue, JobRow
<1>2. Accounting'
  BY DEF TableInv, TableTypeOK, JobRow, Accounting, Accounted, Unclaimed, FallDue
<1>3. QED BY <1>1, <1>2 DEF TableInv

\* claim_task takes only a queued row: this is where the strengthening is used.
LEMMA ClaimTaskInv ==
    ASSUME TableInv, NEW j \in Jobs, ClaimTask(j)
    PROVE  TableInv'
<1>1. job[j] \in JobRow /\ "running" \in Status
  BY DEF TableInv, TableTypeOK, Status
<1>2. TableTypeOK'
  BY <1>1, SetStatusRow DEF TableInv, TableTypeOK, ClaimTask
<1>3. Accounted(j)'
  BY <1>1, SetStatusRow DEF TableInv, TableTypeOK, ClaimTask, Accounting, Accounted, Unclaimed,
     IsQueued, Queued, JobRow
<1>4. ASSUME NEW k \in Jobs \ {j} PROVE Accounted(k)'
  BY DEF TableInv, TableTypeOK, ClaimTask, Accounting, Accounted, Unclaimed
<1>5. QED BY <1>2, <1>3, <1>4 DEF TableInv, Accounting

\* complete_task, on whatever row it finds.
LEMMA CompleteTaskInv ==
    ASSUME TableInv, NEW j \in Jobs, CompleteTask(j)
    PROVE  TableInv'
<1>1. job[j] \in JobRow /\ "completed" \in Status
  BY DEF TableInv, TableTypeOK, Status, Terminal
<1>2. TableTypeOK'
  BY <1>1, SetStatusRow DEF TableInv, TableTypeOK, CompleteTask
<1>3. Accounted(j)'
  BY <1>1, SetStatusRow DEF TableInv, TableTypeOK, CompleteTask, Accounting, Accounted,
     Unclaimed, Exists, Queued, JobRow
<1>4. ASSUME NEW k \in Jobs \ {j} PROVE Accounted(k)'
  BY DEF TableInv, TableTypeOK, CompleteTask, Accounting, Accounted, Unclaimed
<1>5. QED BY <1>2, <1>3, <1>4 DEF TableInv, Accounting

\* fail_task, on whatever row it finds: a put-back spends one of max_retries.
LEMMA FailTaskInv ==
    ASSUME TableInv, NEW j \in Jobs, NEW retry \in BOOLEAN, FailTask(j, retry)
    PROVE  TableInv'
<1>1. job[j] \in JobRow /\ "failed" \in Status
  BY DEF TableInv, TableTypeOK, Status, Terminal
<1>2. TableTypeOK'
  BY <1>1, SetStatusRow, PutBackRow DEF TableInv, TableTypeOK, FailTask
<1>3. Accounted(j)'
  <2>1. CASE ~Exists(j)
    BY <2>1 DEF TableInv, FailTask, Accounting, Accounted, Unclaimed
  <2>2. CASE Exists(j) /\ retry /\ job[j].retryCount < MaxRetries
    <3>1. job'[j] = PutBack(job[j])
      BY <2>2 DEF FailTask, TableInv, TableTypeOK
    <3>2. job'[j].status = "pending" /\ job'[j].retryCount = job[j].retryCount + 1
      BY <1>1, <3>1, PutBackRow
    <3>3. QED
      BY <2>2, <3>2, <1>1, TableAssumption DEF TableAssumption, TableInv, TableTypeOK, FailTask,
         Accounting, Accounted, Unclaimed, Queued, JobRow
  <2>3. CASE Exists(j) /\ ~(retry /\ job[j].retryCount < MaxRetries)
    <3>1. job'[j] = SetStatus(job[j], "failed")
      BY <2>3 DEF FailTask, TableInv, TableTypeOK
    <3>2. job'[j].status = "failed" /\ job'[j].retryCount = job[j].retryCount
      BY <1>1, <3>1, SetStatusRow
    <3>3. QED
      BY <2>3, <3>2, <1>1 DEF TableInv, TableTypeOK, FailTask, Accounting, Accounted, Unclaimed,
         Exists, Queued, JobRow
  <2>4. QED BY <2>1, <2>2, <2>3
<1>4. ASSUME NEW k \in Jobs \ {j} PROVE Accounted(k)'
  BY DEF TableInv, TableTypeOK, FailTask, Accounting, Accounted, Unclaimed
<1>5. QED BY <1>2, <1>3, <1>4 DEF TableInv, Accounting

\* cancel_task takes only a queued row.
LEMMA CancelTaskInv ==
    ASSUME TableInv, NEW j \in Jobs, CancelTask(j)
    PROVE  TableInv'
<1>1. job[j] \in JobRow /\ "cancelled" \in Status
  BY DEF TableInv, TableTypeOK, Status, Terminal
<1>2. TableTypeOK'
  BY <1>1, SetStatusRow DEF TableInv, TableTypeOK, CancelTask
<1>3. Accounted(j)'
  BY <1>1, SetStatusRow DEF TableInv, TableTypeOK, CancelTask, Accounting, Accounted, Unclaimed,
     IsQueued, Queued, JobRow
<1>4. ASSUME NEW k \in Jobs \ {j} PROVE Accounted(k)'
  BY DEF TableInv, TableTypeOK, CancelTask, Accounting, Accounted, Unclaimed
<1>5. QED BY <1>2, <1>3, <1>4 DEF TableInv, Accounting

\* cleanup_old_jobs deletes only terminal rows.
LEMMA CleanupOldJobsInv ==
    ASSUME TableInv, NEW js \in SUBSET Jobs, CleanupOldJobs(js)
    PROVE  TableInv'
<1>1. ASSUME NEW k \in Jobs PROVE job'[k] \in JobRow /\ Accounted(k)'
  <2>1. job[k] \in JobRow /\ Accounted(k) /\ "deleted" \in Status
    BY DEF TableInv, TableTypeOK, Accounting, Status
  <2>2. CASE k \notin js
    BY <2>1, <2>2 DEF CleanupOldJobs, Accounted, Unclaimed
  <2>3. CASE k \in js
    <3>1. job'[k] = SetStatus(job[k], "deleted") /\ IsTerminal(k)
      BY <2>3 DEF CleanupOldJobs
    <3>2. job'[k] \in JobRow /\ job'[k].status = "deleted"
                            /\ job'[k].retryCount = job[k].retryCount
      BY <3>1, <2>1, SetStatusRow
    <3>3. QED
      BY <2>1, <3>1, <3>2 DEF TableInv, TableTypeOK, JobRow, CleanupOldJobs, Accounted,
         Unclaimed, IsTerminal, Terminal, Queued
  <2>4. QED BY <2>2, <2>3
<1>2. job' = [k \in Jobs |-> job'[k]]
  BY DEF CleanupOldJobs
<1>3. QED BY <1>1, <1>2 DEF TableInv, TableTypeOK, Accounting, CleanupOldJobs

\* requeue_stale_running pays for each retry with a recovery.
LEMMA RequeueStaleRunningInv ==
    ASSUME TableInv, NEW js \in SUBSET Jobs, NEW limit, RequeueStaleRunning(js, limit)
    PROVE  TableInv'
<1>1. ASSUME NEW k \in Jobs
      PROVE  job'[k] \in JobRow /\ requeues'[k] \in 0 .. MaxRequeues /\ Accounted(k)'
  <2>1. job[k] \in JobRow /\ requeues[k] \in 0 .. MaxRequeues /\ Accounted(k)
    BY DEF TableInv, TableTypeOK, Accounting
  <2>2. CASE k \notin js
    BY <2>1, <2>2 DEF RequeueStaleRunning, Accounted, Unclaimed
  <2>3. CASE k \in js
    <3>1. job'[k] = PutBack(job[k]) /\ IsRunning(k)
      BY <2>3 DEF RequeueStaleRunning, Stale
    <3>2. requeues'[k] = requeues[k] + 1 /\ requeues[k] < MaxRequeues
      BY <2>3 DEF RequeueStaleRunning
    <3>3. requeues'[k] \in 0 .. MaxRequeues
      BY <2>1, <3>2, TableAssumption DEF TableAssumption
    <3>4. job'[k] \in JobRow /\ job'[k].status = "pending"
                            /\ job'[k].retryCount = job[k].retryCount + 1
      BY <3>1, <2>1, PutBackRow
    <3>5. Accounted(k)'
      BY <2>1, <3>1, <3>2, <3>4, TableAssumption DEF TableAssumption, TableInv, TableTypeOK,
         JobRow, RequeueStaleRunning, Accounted, Unclaimed, IsRunning, Queued
    <3>6. QED BY <3>3, <3>4, <3>5
  <2>4. QED BY <2>2, <2>3
<1>2. job' = [k \in Jobs |-> job'[k]] /\ requeues' = [k \in Jobs |-> requeues'[k]]
  BY DEF RequeueStaleRunning
<1>3. QED BY <1>1, <1>2 DEF TableInv, TableTypeOK, Accounting, RequeueStaleRunning

\* The heartbeat statement and the passing of time touch only ages.
LEMMA AgesInv ==
    ASSUME TableInv, AgeHeartbeats \/ \E js \in SUBSET Jobs : UpdateHeartbeats(js)
    PROVE  TableInv'
<1> USE TableAssumption DEF TableAssumption
<1>1. TableTypeOK'
  BY DEF TableInv, TableTypeOK, AgeHeartbeats, UpdateHeartbeats, JobRow, Ages, AgeCap
<1>2. Accounting'
  BY DEF TableInv, TableTypeOK, JobRow, Accounting, Accounted, Unclaimed, AgeHeartbeats,
         UpdateHeartbeats
<1>3. QED BY <1>1, <1>2 DEF TableInv

-----------------------------------------------------------------------------
(* Any statement.                                                            *)

\* What a step does to the table is one of these, or it is the clock's: the outcome of an
\* execution, written by id alone, or any other statement.
Outcome(j) == CompleteTask(j) \/ \E retry \in BOOLEAN : FailTask(j, retry)

Upkeep ==
    \/ UNCHANGED tableVars
    \/ \E j \in Jobs :
         \/ \E scheduled \in BOOLEAN : CreateTask(j, scheduled)
         \/ FallDue(j) \/ CancelTask(j) \/ ClaimTask(j)
    \/ \E js \in SUBSET Jobs :
         \/ CleanupOldJobs(js) \/ UpdateHeartbeats(js)
         \/ \E limit \in {StaleAfter, StartStaleAfter} : RequeueStaleRunning(js, limit)

Statement == Upkeep \/ \E j \in Jobs : Outcome(j)

\* Whichever it is, the table's invariant is kept.
LEMMA StatementInv ==
    ASSUME TableInv, Statement
    PROVE  TableInv'
<1>1. ASSUME NEW j \in Jobs, Outcome(j) PROVE TableInv'
  BY <1>1, CompleteTaskInv, FailTaskInv DEF Outcome
<1>2. CASE Upkeep
  BY <1>2, TableStutter, CreateTaskInv, FallDueInv, CancelTaskInv, ClaimTaskInv,
     CleanupOldJobsInv, AgesInv, RequeueStaleRunningInv DEF Upkeep
<1>3. QED BY <1>1, <1>2 DEF Statement

\* A statement leaves a running row's heartbeat as old as it was, or makes it new.
LEMMA StatementRefreshes ==
    ASSUME TableTypeOK, Statement, NEW i \in Jobs, IsRunning(i)'
    PROVE  job'[i].age = 0 \/ (IsRunning(i) /\ job'[i].age = job[i].age)
<1> USE DEF IsRunning
<1>0. job[i] \in JobRow
  BY DEF TableTypeOK
<1>1. CASE job'[i] = job[i]
  BY <1>1
<1>2. ASSUME NEW s \in Status, job'[i] = SetStatus(job[i], s)
      PROVE  job'[i].age = 0
  BY <1>0, <1>2 DEF SetStatus, JobRow
<1>3. CASE job'[i] = PutBack(job[i])
  BY <1>0, <1>3 DEF PutBack, JobRow
<1>4. ASSUME NEW j \in Jobs, FallDue(j) \/ \E scheduled \in BOOLEAN : CreateTask(j, scheduled)
      PROVE  job'[i] = job[i]
  <2>1. job'[j].status \in Queued
    <3>1. CASE FallDue(j)
      BY <3>1 DEF TableTypeOK, JobRow, FallDue, IsQueued
    <3>2. ASSUME NEW scheduled \in BOOLEAN, CreateTask(j, scheduled)
          PROVE  job'[j].status \in Queued
      BY <3>2 DEF TableTypeOK, JobRow, CreateTask, Queued
    <3>3. QED BY <1>4, <3>1, <3>2
  <2>2. i # j
    BY <2>1 DEF Queued
  <2>3. QED BY <1>4, <2>2 DEF TableTypeOK, FallDue, CreateTask
<1>5. ASSUME NEW j \in Jobs,
             \/ CancelTask(j) \/ ClaimTask(j) \/ CompleteTask(j)
             \/ \E retry \in BOOLEAN : FailTask(j, retry)
      PROVE  \/ job'[i] = job[i] \/ job'[i] = PutBack(job[i])
             \/ \E s \in Status : job'[i] = SetStatus(job[i], s)
  BY <1>5 DEF TableTypeOK, CancelTask, ClaimTask, CompleteTask, FailTask, Status, Terminal
<1>6. ASSUME NEW js \in SUBSET Jobs,
             CleanupOldJobs(js) \/ \E limit : RequeueStaleRunning(js, limit)
      PROVE  \/ job'[i] = job[i] \/ job'[i] = PutBack(job[i])
             \/ \E s \in Status : job'[i] = SetStatus(job[i], s)
  BY <1>6 DEF TableTypeOK, CleanupOldJobs, RequeueStaleRunning, Status
<1>7. ASSUME NEW js \in SUBSET Jobs, UpdateHeartbeats(js)
      PROVE  job'[i] = job[i] \/ job'[i].age = 0
  BY <1>0, <1>7 DEF TableTypeOK, JobRow, UpdateHeartbeats
<1>8. QED
  BY <1>1, <1>2, <1>3, <1>4, <1>5, <1>6, <1>7 DEF Statement, Upkeep, Outcome, tableVars
=============================================================================
