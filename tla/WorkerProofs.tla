----------------------------- MODULE WorkerProofs -----------------------------
(***************************************************************************)
(* Theorems about Worker, for every number of jobs and workers and every    *)
(* set of faults, and that the pool implements JobLifecycle!Spec.           *)
(*                                                                          *)
(* AttemptBudget is not inductive: that a claim keeps it depends on how     *)
(* many claims a queued row can already have, which Accounting (TableProofs)*)
(* adds.                                                                    *)
(***************************************************************************)
EXTENDS Worker, TableProofs

-----------------------------------------------------------------------------
(* Every step of the workers, the clients and the clock keeps the invariant. *)

\* Every action keeps the table's part: it issues one of the statements or none.
LEMMA TableInvStep ==
    ASSUME TableInv, active \in [Workers -> SUBSET Jobs], [Next]_vars
    PROVE  TableInv'
<1>1. CASE UNCHANGED vars
  BY <1>1, TableStutter DEF vars, tableVars
<1>2. CASE Tick
  BY <1>2, AgesInv DEF Tick
<1>3. CASE Cleanup
  BY <1>3, CleanupOldJobsInv DEF Cleanup
<1>4. ASSUME NEW j \in Jobs, Client(j) PROVE TableInv'
  BY <1>4, CreateTaskInv, FallDueInv, CancelTaskInv DEF Client, Create, TimeArrives, Cancel
<1>5. ASSUME NEW w \in Workers, Loop(w) PROVE TableInv'
  <2>1. CASE Start(w)
    BY <2>1, RequeueStaleRunningInv, TableStutter DEF Start
  <2>2. CASE Requeue(w)
    BY <2>2, RequeueStaleRunningInv DEF Requeue
  <2>3. CASE \E j \in Jobs : Claim(w, j)
    BY <2>3, ClaimTaskInv DEF Claim
  <2>4. CASE Poll(w) \/ LoopError(w) \/ \E j \in Jobs : Skip(w, j)
    BY <2>4, TableStutter DEF Poll, LoopError, Skip
  <2>5. QED BY <1>5, <2>1, <2>2, <2>3, <2>4 DEF Loop
<1>6. ASSUME NEW w \in Workers, Heartbeat(w) PROVE TableInv'
  BY <1>6, AgesInv, TableStutter DEF Heartbeat, BeatNothing, Beat, BeatFails
<1>7. ASSUME NEW w \in Workers, Shutdown(w) PROVE TableInv'
  <2>1. CASE \E j \in Jobs : ClaimInterrupted(w, j)
    BY <2>1, ClaimTaskInv DEF ClaimInterrupted
  <2>2. CASE BeginCleanup(w) \/ CancelRunning(w) \/ Stop(w) \/ Crash(w)
    BY <2>2, TableStutter DEF BeginCleanup, CancelRunning, Stop, Crash
  <2>3. QED BY <1>7, <2>1, <2>2 DEF Shutdown
<1>8. ASSUME NEW w \in Workers, NEW j \in Jobs, Execute(w, j) PROVE TableInv'
  <2>1. CASE TimeoutFails(w, j)
    BY <2>1, FailTaskInv, TableStutter DEF TimeoutFails
  <2>2. CASE Complete(w, j)
    BY <2>2, CompleteTaskInv, TableStutter DEF Complete
  <2>3. CASE Settle(w, j)
    BY <2>3, FailTaskInv, TableStutter DEF Settle
  <2>4. CASE \/ Acquire(w, j) \/ BodyReturns(w, j) \/ BodyRaises(w, j) \/ BodyTimesOut(w, j)
             \/ Publish(w, j) \/ Unwind(w, j) \/ Finish(w, j)
    BY <2>4, TableStutter
       DEF Acquire, BodyReturns, BodyRaises, BodyTimesOut, Publish, Unwind, Finish
  <2>5. QED BY <1>8, <2>1, <2>2, <2>3, <2>4 DEF Execute
<1>9. QED BY <1>1, <1>2, <1>3, <1>4, <1>5, <1>6, <1>7, <1>8 DEF Next
-----------------------------------------------------------------------------
(* Types of the workers' own variables.                                      *)

WorkerTypeOK ==
    /\ mode \in [Workers -> Modes]
    /\ fetched \in [Workers -> SUBSET Jobs]
    /\ pc \in [Workers -> [Jobs -> PCs]]
    /\ active \in [Workers -> SUBSET Jobs]
    /\ fails \in [Workers -> Nat]
    /\ beatDue \in [Workers -> BOOLEAN]
    /\ faults \in 0 .. MaxFaults

\* An execution moves to another place.
LEMMA GotoType ==
    ASSUME pc \in [Workers -> [Jobs -> PCs]], NEW w \in Workers, NEW j \in Jobs,
           NEW place \in PCs, Goto(w, j, place)
    PROVE  pc' \in [Workers -> [Jobs -> PCs]]
  BY DEF Goto

\* A fault is counted and bounded.
LEMMA FaultType ==
    ASSUME faults \in 0 .. MaxFaults, NEW kind, Fault(kind)
    PROVE  faults' \in 0 .. MaxFaults
  BY WorkerAssumption DEF WorkerAssumption, Fault

\* Every action keeps the types of the workers' variables.
LEMMA WorkerTypeStep ==
    ASSUME WorkerTypeOK, [Next]_vars
    PROVE  WorkerTypeOK'
<1> USE DEF WorkerTypeOK
<1>1. CASE UNCHANGED vars
  BY <1>1 DEF vars
<1>2. CASE Tick
  BY <1>2 DEF Tick, Modes
<1>3. CASE Cleanup \/ \E j \in Jobs : Client(j)
  BY <1>3 DEF Cleanup, Client, Create, TimeArrives, Cancel, workerVars
<1>4. ASSUME NEW w \in Workers, Loop(w) PROVE WorkerTypeOK'
  <2>1. CASE Start(w)
    BY <2>1, FaultType DEF Start, Modes
  <2>2. CASE Poll(w)
    BY <2>2 DEF Poll, Eligible
  <2>3. CASE LoopError(w)
    BY <2>3, FaultType DEF LoopError
  <2>4. CASE Requeue(w)
    BY <2>4 DEF Requeue, workerVars
  <2>5. ASSUME NEW j \in Jobs, Skip(w, j) PROVE WorkerTypeOK'
    BY <2>5 DEF Skip
  <2>6. ASSUME NEW j \in Jobs, Claim(w, j) PROVE WorkerTypeOK'
    <3>1. pc' \in [Workers -> [Jobs -> PCs]]
      BY <2>6, GotoType DEF Claim, PCs
    <3>2. QED BY <2>6, <3>1 DEF Claim
  <2>7. QED BY <1>4, <2>1, <2>2, <2>3, <2>4, <2>5, <2>6 DEF Loop
<1>5. ASSUME NEW w \in Workers, Heartbeat(w) PROVE WorkerTypeOK'
  <2>1. CASE BeatNothing(w)
    BY <2>1 DEF BeatNothing
  <2>2. CASE Beat(w)
    BY <2>2 DEF Beat
  <2>3. CASE BeatFails(w)
    BY <2>3, FaultType DEF BeatFails
  <2>4. QED BY <1>5, <2>1, <2>2, <2>3 DEF Heartbeat
<1>6. ASSUME NEW w \in Workers, Shutdown(w) PROVE WorkerTypeOK'
  <2>1. CASE BeginCleanup(w) \/ \E j \in Jobs : ClaimInterrupted(w, j)
    BY <2>1, FaultType DEF BeginCleanup, ClaimInterrupted, Modes
  <2>2. CASE CancelRunning(w)
    <3>1. \A place \in PCs : AfterCancel(place) \in PCs
      BY DEF AfterCancel, PCs
    <3>2. [j \in Jobs |-> AfterCancel(pc[w][j])] \in [Jobs -> PCs]
      BY <3>1
    <3>3. pc' \in [Workers -> [Jobs -> PCs]]
      BY <2>2, <3>2 DEF CancelRunning
    <3>4. QED BY <2>2, <3>3 DEF CancelRunning, Modes
  <2>3. CASE Stop(w)
    BY <2>3 DEF Stop, Modes
  <2>4. CASE Crash(w)
    <3>1. [j \in Jobs |-> "idle"] \in [Jobs -> PCs]
      BY DEF PCs
    <3>2. QED BY <2>4, <3>1, FaultType DEF Crash, Modes
  <2>5. QED BY <1>6, <2>1, <2>2, <2>3, <2>4 DEF Shutdown
<1>7. ASSUME NEW w \in Workers, NEW j \in Jobs, Execute(w, j) PROVE WorkerTypeOK'
  <2>1. pc' \in [Workers -> [Jobs -> PCs]]
    <3>1. \E place \in PCs : Goto(w, j, place)
      BY <1>7
         DEF Execute, Acquire, BodyReturns, BodyRaises, BodyTimesOut, TimeoutFails, Complete,
             Publish, Settle, Unwind, Finish, PCs
    <3>2. QED BY <3>1, GotoType
  <2>2. active' \in [Workers -> SUBSET Jobs]
    <3>1. CASE Acquire(w, j)
      BY <3>1 DEF Acquire
    <3>2. CASE Unwind(w, j)
      BY <3>2 DEF Unwind
    <3>3. CASE ~Acquire(w, j) /\ ~Unwind(w, j)
      BY <1>7, <3>3
         DEF Execute, BodyReturns, BodyRaises, BodyTimesOut, TimeoutFails, Complete, Publish,
             Settle, Finish
    <3>4. QED BY <3>1, <3>2, <3>3
  <2>3. faults' \in 0 .. MaxFaults
    BY <1>7, FaultType
       DEF Execute, Acquire, BodyReturns, BodyRaises, BodyTimesOut, TimeoutFails, Complete,
           Publish, Settle, Unwind, Finish
  <2>4. UNCHANGED <<mode, fetched, fails, beatDue>>
    BY <1>7
       DEF Execute, Acquire, BodyReturns, BodyRaises, BodyTimesOut, TimeoutFails, Complete,
           Publish, Settle, Unwind, Finish
  <2>5. QED BY <2>1, <2>2, <2>3, <2>4
<1>8. QED BY <1>1, <1>2, <1>3, <1>4, <1>5, <1>6, <1>7 DEF Next

-----------------------------------------------------------------------------
(* The theorems.                                                             *)

IInv == TableInv /\ WorkerTypeOK

\* The inductive invariant holds in every reachable state.
THEOREM Inductive == Spec => []IInv
<1>1. Init => IInv
  BY ZeroIsAnAge, TableAssumption, WorkerAssumption
     DEF Init, TableInit, IInv, TableInv, TableTypeOK, JobRow, Status, Accounting, Accounted,
         Unclaimed, WorkerTypeOK, Modes, PCs, TableAssumption, WorkerAssumption
<1>2. IInv /\ [Next]_vars => IInv'
  BY TableInvStep, WorkerTypeStep DEF IInv, WorkerTypeOK
<1>3. QED BY <1>1, <1>2, PTL DEF Spec

\* Every reachable state is a state of the types TypeOK declares.
THEOREM TypeCorrect == Spec => []TypeOK
<1>1. IInv => TypeOK
  BY DEF IInv, TableInv, WorkerTypeOK, TypeOK
<1>2. QED BY <1>1, Inductive, PTL

(* A job is claimed at most max_retries + 1 times plus once per stale        *)
(* recovery, whatever its executions, timeouts and crashes do to the row.    *)
THEOREM AttemptBudgetHolds == Spec => []AttemptBudget
<1>1. IInv => AttemptBudget
  <2>1. SUFFICES ASSUME IInv, NEW j \in Jobs
                 PROVE  claims[j] <= MaxRetries + 1 + requeues[j]
    BY DEF AttemptBudget
  <2>2. QED
    BY <2>1, TableAssumption
       DEF IInv, TableInv, TableTypeOK, JobRow, Accounting, Accounted, TableAssumption
<1>2. QED BY <1>1, Inductive, PTL
-----------------------------------------------------------------------------
(* The heartbeat sets.  NoHeartbeatLeak is inductive relative to the types:  *)
(* every step that takes an execution past its `finally`, or ends it         *)
(* otherwise, takes its job out of the set or never had it there.            *)

\* Every action keeps the heartbeat sets within the executions under way.
LEMMA NoHeartbeatLeakStep ==
    ASSUME WorkerTypeOK, NoHeartbeatLeak, [Next]_vars
    PROVE  NoHeartbeatLeak'
<1> DEFINE Beating == (Unsettled \ {"waiting"}) \union {"publishing", "unwinding"}
<1> USE DEF WorkerTypeOK, Unsettled
<1> SUFFICES ASSUME NEW v \in Workers, NEW i \in Jobs, i \in active'[v]
             PROVE  pc'[v][i] \in Beating
  BY WorkerTypeStep DEF NoHeartbeatLeak
<1>2. i \in active[v] => pc[v][i] \in Beating
  BY DEF NoHeartbeatLeak
<1>3. CASE UNCHANGED <<active, pc>>
  BY <1>2, <1>3
<1>4. ASSUME NEW w \in Workers, NEW j \in Jobs, Execute(w, j) PROVE pc'[v][i] \in Beating
  <2>1. CASE Acquire(w, j)
    BY <1>2, <2>1 DEF Acquire, Goto
  <2>2. CASE Unwind(w, j)
    BY <1>2, <2>2 DEF Unwind, Goto
  <2>3. CASE Finish(w, j)
    BY <1>2, <2>3 DEF Finish, Goto, At
  <2>4. CASE ~Acquire(w, j) /\ ~Unwind(w, j) /\ ~Finish(w, j)
    <3>1. active' = active
      BY <1>4, <2>4
         DEF Execute, BodyReturns, BodyRaises, BodyTimesOut, TimeoutFails, Complete, Publish,
             Settle
    <3>2. \E place \in Beating : Goto(w, j, place)
      BY <1>4, <2>4
         DEF Execute, BodyReturns, BodyRaises, BodyTimesOut, TimeoutFails, Complete, Publish,
             Settle
    <3>3. QED BY <1>2, <3>1, <3>2 DEF Goto
  <2>5. QED BY <2>1, <2>2, <2>3, <2>4
<1>5. ASSUME NEW w \in Workers, NEW j \in Jobs, Claim(w, j) PROVE pc'[v][i] \in Beating
  BY <1>2, <1>5 DEF Claim, Goto
<1>6. ASSUME NEW w \in Workers, CancelRunning(w) PROVE pc'[v][i] \in Beating
  <2>1. \A place \in Beating : AfterCancel(place) \in Beating
    BY DEF AfterCancel
  <2>2. QED BY <1>2, <1>6, <2>1 DEF CancelRunning
<1>7. ASSUME NEW w \in Workers, Crash(w) PROVE pc'[v][i] \in Beating
  BY <1>2, <1>7 DEF Crash
<1>8. QED
  BY <1>3, <1>4, <1>5, <1>6, <1>7
     DEF Next, vars, workerVars, Tick, Cleanup, Client, Create, TimeArrives, Cancel, Loop, Start,
         Poll, LoopError, Requeue, Skip, Heartbeat, BeatNothing, Beat, BeatFails, Shutdown,
         BeginCleanup, Stop, ClaimInterrupted

(* A job in a worker's heartbeat set has an execution there that has yet to  *)
(* reach its `finally`.                                                      *)
THEOREM NoHeartbeatLeakHolds == Spec => []NoHeartbeatLeak
<1>1. Init => NoHeartbeatLeak
  BY DEF Init, NoHeartbeatLeak
<1>2. IInv /\ NoHeartbeatLeak /\ [Next]_vars => NoHeartbeatLeak'
  BY NoHeartbeatLeakStep DEF IInv
<1>3. QED BY <1>1, <1>2, Inductive, PTL DEF Spec

-----------------------------------------------------------------------------
(* Stale recovery and the workers that are well.                             *)
(*                                                                          *)
(* HealthyNotRequeued needs to know how old a row's heartbeat can be.  While *)
(* its worker is up a row in the heartbeat set is at most as old, in         *)
(* intervals, as the attempts that failed in a row, plus the one of an       *)
(* interval that has just ended (Fresh); and an execution in its job         *)
(* function or with its outcome to write is in that set (Registered).        *)
(*                                                                          *)
(* Two hypotheses, without which it is false: every job finds a slot (run    *)
(* slot_wait_requeued), and the recovery at start, whose limit is the        *)
(* statement's default, is no more eager than the periodic one.              *)

EverySlot == IsFiniteSet(Jobs) /\ Cardinality(Jobs) <= MaxConcurrentJobs

Registered(w, j) ==
    pc[w][j] \in {"body", "timedout", "completing", "publishing"} => j \in active[w]

\* The places at which the row may yet be the execution's to settle.
Undone == Unsettled \union {"publishing"}

Young(w, j) ==
    /\ j \in active[w] => job[j].age <= fails[w] + 1
    /\ j \in active[w] /\ ~beatDue[w] => job[j].age <= fails[w]
    /\ j \notin active[w] => job[j].age = 0

Fresh(w, j) == mode[w] = "up" /\ pc[w][j] \in Undone /\ IsRunning(j) => Young(w, j)

DownIsIdle  == \A w \in Workers, j \in Jobs : mode[w] = "down" => pc[w][j] = "idle"
Registering == \A w \in Workers, j \in Jobs : Registered(w, j)
Freshness   == \A w \in Workers, j \in Jobs : Fresh(w, j)

\* Only executions write outcomes; what the others issue is upkeep.
LEMMA RestIsUpkeep ==
    ASSUME active \in [Workers -> SUBSET Jobs], [Next]_vars, ~Tick,
           \A w \in Workers, j \in Jobs : ~Execute(w, j)
    PROVE  Upkeep
<1>1. CASE UNCHANGED vars
  BY <1>1 DEF vars, Upkeep, tableVars
<1>2. CASE Cleanup \/ \E j \in Jobs : Client(j)
  BY <1>2 DEF Cleanup, Client, Create, TimeArrives, Cancel, Upkeep
<1>3. ASSUME NEW w \in Workers, Loop(w) PROVE Upkeep
  BY <1>3 DEF Loop, Start, Requeue, Claim, Poll, LoopError, Skip, Upkeep
<1>4. ASSUME NEW w \in Workers, Heartbeat(w) PROVE Upkeep
  BY <1>4 DEF Heartbeat, BeatNothing, Beat, BeatFails, Upkeep
<1>5. ASSUME NEW w \in Workers, Shutdown(w) PROVE Upkeep
  BY <1>5 DEF Shutdown, ClaimInterrupted, BeginCleanup, CancelRunning, Stop, Crash, Upkeep
<1>6. QED BY <1>1, <1>2, <1>3, <1>4, <1>5 DEF Next

\* An execution writes nothing but the outcome of its job.
LEMMA ExecutionWrites ==
    ASSUME NEW w \in Workers, NEW j \in Jobs, Execute(w, j)
    PROVE  UNCHANGED tableVars \/ Outcome(j)
<1>1. CASE TimeoutFails(w, j) \/ Complete(w, j) \/ Settle(w, j)
  BY <1>1 DEF TimeoutFails, Complete, Settle, Outcome
<1>2. CASE ~(TimeoutFails(w, j) \/ Complete(w, j) \/ Settle(w, j))
  BY <1>2
     DEF Execute, Acquire, BodyReturns, BodyRaises, BodyTimesOut, Publish, Unwind, Finish
<1>3. QED BY <1>1, <1>2

\* Every step but the clock's issues one statement at most.
LEMMA StepIsStatement ==
    ASSUME active \in [Workers -> SUBSET Jobs], [Next]_vars, ~Tick
    PROVE  Statement
  BY RestIsUpkeep, ExecutionWrites DEF Statement, Upkeep

\* A worker that is down executes nothing.
LEMMA DownIsIdleStep ==
    ASSUME WorkerTypeOK, DownIsIdle, [Next]_vars
    PROVE  DownIsIdle'
<1> USE DEF WorkerTypeOK
<1> SUFFICES ASSUME NEW v \in Workers, NEW i \in Jobs, mode'[v] = "down"
             PROVE  pc'[v][i] = "idle"
  BY DEF DownIsIdle
<1>1. CASE UNCHANGED <<mode, pc>>
  BY <1>1 DEF DownIsIdle
<1>2. CASE Tick
  BY <1>2 DEF Tick, DownIsIdle
<1>3. ASSUME NEW w \in Workers, NEW j \in Jobs, Execute(w, j) PROVE pc'[v][i] = "idle"
  <2>1. mode[w] # "down" /\ mode' = mode
    BY <1>3
       DEF Execute, Acquire, BodyReturns, BodyRaises, BodyTimesOut, TimeoutFails, Complete,
           Publish, Settle, Unwind, Finish, At
  <2>2. \E place \in PCs : Goto(w, j, place)
    BY <1>3
       DEF Execute, Acquire, BodyReturns, BodyRaises, BodyTimesOut, TimeoutFails, Complete,
           Publish, Settle, Unwind, Finish, PCs
  <2>3. QED BY <2>1, <2>2 DEF DownIsIdle, Goto
<1>4. ASSUME NEW w \in Workers, Loop(w) \/ Shutdown(w) PROVE pc'[v][i] = "idle"
  <2>1. CASE Loop(w)
    BY <2>1 DEF Loop, Start, Poll, LoopError, Requeue, Skip, Claim, Goto, DownIsIdle, workerVars
  <2>2. CASE Stop(w)
    BY <2>2 DEF Stop, Idle, DownIsIdle
  <2>3. CASE CancelRunning(w)
    BY <2>3 DEF CancelRunning, DownIsIdle
  <2>4. CASE BeginCleanup(w) \/ Crash(w) \/ \E j \in Jobs : ClaimInterrupted(w, j)
    BY <2>4 DEF BeginCleanup, Crash, ClaimInterrupted, DownIsIdle
  <2>5. QED BY <1>4, <2>1, <2>2, <2>3, <2>4 DEF Shutdown
<1>5. QED
  BY <1>1, <1>2, <1>3, <1>4
     DEF Next, vars, workerVars, Cleanup, Client, Create, TimeArrives, Cancel, Heartbeat,
         BeatNothing, Beat, BeatFails

\* An execution that moves is at its new place, and no other one moves.
LEMMA GotoMoves ==
    ASSUME pc \in [Workers -> [Jobs -> PCs]], NEW w \in Workers, NEW j \in Jobs, NEW place,
           Goto(w, j, place)
    PROVE  /\ pc'[w][j] = place
           /\ \A v \in Workers, i \in Jobs : v # w \/ i # j => pc'[v][i] = pc[v][i]
  BY DEF Goto

\* A job function runs, and its outcome is written, only with the job registered.
LEMMA RegisteringStep ==
    ASSUME WorkerTypeOK, Registering, [Next]_vars
    PROVE  Registering'
<1> USE DEF WorkerTypeOK, Registering, Registered
<1> SUFFICES ASSUME NEW v \in Workers, NEW i \in Jobs,
                    pc'[v][i] \in {"body", "timedout", "completing", "publishing"}
             PROVE  i \in active'[v]
  OBVIOUS
<1>1. CASE UNCHANGED <<active, pc>>
  BY <1>1
<1>2. ASSUME NEW w \in Workers, NEW j \in Jobs, Execute(w, j) PROVE i \in active'[v]
  <2>1. ASSUME v # w \/ i # j PROVE i \in active'[v]
    <3>1. \E place \in PCs : Goto(w, j, place)
      BY <1>2
         DEF Execute, Acquire, BodyReturns, BodyRaises, BodyTimesOut, TimeoutFails, Complete,
             Publish, Settle, Unwind, Finish, PCs
    <3>2. pc'[v][i] = pc[v][i]
      BY <2>1, <3>1, GotoMoves
    <3>3. CASE Acquire(w, j)
      BY <3>2, <3>3 DEF Acquire
    <3>4. CASE Unwind(w, j)
      BY <2>1, <3>2, <3>4 DEF Unwind
    <3>5. CASE ~Acquire(w, j) /\ ~Unwind(w, j)
      BY <1>2, <3>2, <3>5
         DEF Execute, BodyReturns, BodyRaises, BodyTimesOut, TimeoutFails, Complete, Publish,
             Settle, Finish
    <3>6. QED BY <3>3, <3>4, <3>5
  <2>2. CASE v = w /\ i = j
    <3>1. CASE Acquire(w, j)
      BY <2>2, <3>1, GotoMoves DEF Acquire
    <3>2. CASE Unwind(w, j) \/ TimeoutFails(w, j) \/ Settle(w, j) \/ Finish(w, j)
      <4>1. \E place \in {"failing", "unwinding", "flushing", "idle"} : Goto(w, j, place)
        BY <3>2 DEF Unwind, TimeoutFails, Settle, Finish
      <4>2. QED BY <2>2, <4>1, GotoMoves
    <3>3. CASE BodyReturns(w, j) \/ BodyRaises(w, j) \/ BodyTimesOut(w, j)
      BY <2>2, <3>3 DEF BodyReturns, BodyRaises, BodyTimesOut, At
    <3>4. CASE Complete(w, j) \/ Publish(w, j)
      BY <2>2, <3>4 DEF Complete, Publish, At
    <3>5. QED BY <1>2, <3>1, <3>2, <3>3, <3>4 DEF Execute
  <2>3. QED BY <2>1, <2>2
<1>3. ASSUME NEW w \in Workers, NEW j \in Jobs, Claim(w, j) PROVE i \in active'[v]
  BY <1>3 DEF Claim, Goto
<1>4. ASSUME NEW w \in Workers, CancelRunning(w) PROVE i \in active'[v]
  BY <1>4 DEF CancelRunning, AfterCancel, PCs
<1>5. ASSUME NEW w \in Workers, Crash(w) PROVE i \in active'[v]
  BY <1>5 DEF Crash
<1>6. QED
  BY <1>1, <1>2, <1>3, <1>4, <1>5
     DEF Next, vars, workerVars, Tick, Cleanup, Client, Create, TimeArrives, Cancel, Loop, Start,
         Poll, LoopError, Requeue, Skip, Heartbeat, BeatNothing, Beat, BeatFails, Shutdown,
         BeginCleanup, Stop, ClaimInterrupted

\* With a slot for every job, an execution that waits for one finds it free.
LEMMA WaitingFindsSlot ==
    ASSUME WorkerAssumption, EverySlot, NEW w \in Workers, NEW j \in Jobs, pc[w][j] = "waiting"
    PROVE  SlotFree(w)
<1>1. Inside(w) \subseteq Jobs \ {j}
  BY DEF Inside
<1>2. IsFiniteSet(Jobs \ {j}) /\ Cardinality(Jobs \ {j}) = Cardinality(Jobs) - 1
  BY FS_RemoveElement DEF EverySlot
<1>3. Cardinality(Inside(w)) <= Cardinality(Jobs \ {j})
  BY <1>1, <1>2, FS_Subset
<1>4. IsFiniteSet(Inside(w)) /\ Cardinality(Inside(w)) \in Nat /\ Cardinality(Jobs) \in Nat
  BY <1>1, <1>2, FS_Subset, FS_CardinalityType DEF EverySlot
<1>5. QED BY <1>2, <1>3, <1>4 DEF SlotFree, EverySlot, WorkerAssumption

\* An interval passes only when the beats are done and every unregistered execution has moved.
LEMMA TickFresh ==
    ASSUME IInv, Registering, Freshness, EverySlot, Tick,
           NEW w \in Workers, NEW j \in Jobs,
           mode'[w] = "up", pc'[w][j] \in Undone, IsRunning(j)'
    PROVE  Young(w, j)'
<1> USE DEF IInv, TableInv, TableTypeOK, WorkerTypeOK
<1>1. /\ mode[w] = "up" /\ beatDue[w] = FALSE /\ beatDue'[w] = TRUE
      /\ UNCHANGED <<pc, active, fails>> /\ ~Prompt(w, j)
  BY DEF Tick
<1>2. /\ IsRunning(j)
      /\ job'[j].age = job[j].age \/ job'[j].age = job[j].age + 1
  BY DEF Tick, AgeHeartbeats, IsRunning, JobRow
<1>3. Young(w, j)
  BY <1>1, <1>2 DEF Freshness, Fresh
<1>4. CASE j \in active[w]
  <2>1. job[j].age \in Nat /\ fails[w] \in Nat
    BY DEF JobRow, Ages
  <2>2. QED BY <1>1, <1>2, <1>3, <1>4, <2>1 DEF Young
<1>5. CASE j \notin active[w]
  <2>1. pc[w][j] \notin {"idle", "body"}
    BY <1>1, <1>5 DEF Registering, Registered, Undone, Unsettled
  <2>2. pc[w][j] = "waiting" => SlotFree(w)
    BY WaitingFindsSlot, WorkerAssumption
  <2>3. QED BY <1>1, <1>5, <2>1, <2>2 DEF Prompt
<1>6. QED BY <1>4, <1>5

\* Any other step keeps the freshness of a row whose heartbeat it does not renew.
LEMMA OthersFresh ==
    ASSUME IInv, NoHeartbeatLeak, DownIsIdle, Registering, Freshness, [Next]_vars, ~Tick,
           NEW w \in Workers, NEW j \in Jobs,
           mode'[w] = "up", pc'[w][j] \in Undone, IsRunning(j), job'[j].age = job[j].age
    PROVE  Young(w, j)'
<1> USE DEF IInv, TableInv, TableTypeOK, WorkerTypeOK
<1>1. ASSUME mode'[w] = mode[w], pc'[w][j] = pc[w][j], fails'[w] = fails[w],
             beatDue'[w] = beatDue[w], j \in active'[w] <=> j \in active[w]
      PROVE  Young(w, j)'
  BY <1>1 DEF Freshness, Fresh, Young
<1>2. CASE UNCHANGED workerVars
  BY <1>1, <1>2 DEF workerVars
<1>3. ASSUME NEW x \in Workers, Loop(x) PROVE Young(w, j)'
  <2>1. CASE Start(x)
    <3>1. CASE x = w
      BY <2>1, <3>1 DEF Start, DownIsIdle, Undone, Unsettled
    <3>2. CASE x # w
      BY <1>1, <2>1, <3>2 DEF Start
    <3>3. QED BY <3>1, <3>2
  <2>2. CASE Poll(x) \/ LoopError(x) \/ Requeue(x) \/ \E k \in Jobs : Skip(x, k)
    BY <1>1, <2>2 DEF Poll, LoopError, Requeue, Skip, workerVars
  <2>3. ASSUME NEW k \in Jobs, Claim(x, k) PROVE Young(w, j)'
    <3>1. k # j
      BY <2>3 DEF Claim, ClaimTask, IsQueued, IsRunning, Queued
    <3>2. pc'[w][j] = pc[w][j]
      BY <2>3, <3>1, GotoMoves DEF Claim
    <3>3. QED BY <1>1, <2>3, <3>2 DEF Claim
  <2>4. QED BY <1>3, <2>1, <2>2, <2>3 DEF Loop
<1>4. ASSUME NEW x \in Workers, Heartbeat(x) PROVE Young(w, j)'
  <2>1. CASE x # w
    BY <1>1, <1>4, <2>1 DEF Heartbeat, BeatNothing, Beat, BeatFails
  <2>2. CASE x = w
    <3>1. mode[w] = "up" /\ pc[w][j] \in Undone
      BY <1>4, <2>2 DEF Heartbeat, BeatNothing, Beat, BeatFails
    <3>2. Young(w, j) /\ job[j].age \in Nat /\ fails[w] \in Nat
      BY <3>1 DEF Freshness, Fresh, JobRow, Ages
    <3>3. CASE BeatNothing(w)
      BY <3>2, <3>3 DEF BeatNothing, Young
    <3>4. CASE BeatFails(w)
      BY <3>2, <3>4 DEF BeatFails, Young
    <3>5. CASE Beat(w)
      <4>1. j \in active[w] => job'[j].age = 0
        BY <3>5 DEF Beat, UpdateHeartbeats, JobRow
      <4>2. active' = active /\ fails'[w] = 0
        BY <3>5 DEF Beat
      <4>3. QED BY <3>2, <4>1, <4>2 DEF Young
    <3>6. QED BY <1>4, <2>2, <3>3, <3>4, <3>5 DEF Heartbeat
  <2>3. QED BY <2>1, <2>2
<1>5. ASSUME NEW x \in Workers, Shutdown(x) PROVE Young(w, j)'
  <2>1. x # w
    BY <1>5 DEF Shutdown, BeginCleanup, ClaimInterrupted, CancelRunning, Stop, Crash
  <2>2. QED
    BY <1>1, <1>5, <2>1
       DEF Shutdown, BeginCleanup, ClaimInterrupted, CancelRunning, Stop, Crash
<1>6. ASSUME NEW x \in Workers, NEW k \in Jobs, Execute(x, k) PROVE Young(w, j)'
  <2>1. UNCHANGED <<mode, fails, beatDue>>
    BY <1>6
       DEF Execute, Acquire, BodyReturns, BodyRaises, BodyTimesOut, TimeoutFails, Complete,
           Publish, Settle, Unwind, Finish
  <2>2. CASE x # w \/ k # j
    <3>1. \E place \in PCs : Goto(x, k, place)
      BY <1>6
         DEF Execute, Acquire, BodyReturns, BodyRaises, BodyTimesOut, TimeoutFails, Complete,
             Publish, Settle, Unwind, Finish, PCs
    <3>2. pc'[w][j] = pc[w][j]
      BY <2>2, <3>1, GotoMoves
    <3>3. CASE Acquire(x, k)
      BY <1>1, <2>1, <2>2, <3>2, <3>3 DEF Acquire
    <3>4. CASE Unwind(x, k)
      BY <1>1, <2>1, <2>2, <3>2, <3>4 DEF Unwind
    <3>5. CASE ~Acquire(x, k) /\ ~Unwind(x, k)
      BY <1>1, <1>6, <2>1, <3>2, <3>5
         DEF Execute, BodyReturns, BodyRaises, BodyTimesOut, TimeoutFails, Complete, Publish,
             Settle, Finish
    <3>6. QED BY <3>3, <3>4, <3>5
  <2>3. CASE x = w /\ k = j
    <3>1. CASE Acquire(w, j)
      <4>1. pc[w][j] = "waiting" /\ j \notin active[w]
        BY <3>1 DEF Acquire, At, NoHeartbeatLeak, Unsettled
      <4>2. job[j].age = 0
        BY <2>1, <4>1 DEF Freshness, Fresh, Young, Undone, Unsettled
      <4>3. QED BY <2>1, <4>2 DEF Young
    <3>2. CASE Unwind(w, j) \/ Finish(w, j)
      <4>1. pc'[w][j] \in {"flushing", "idle"}
        BY <3>2, GotoMoves DEF Unwind, Finish
      <4>2. QED BY <4>1 DEF Undone, Unsettled
    <3>3. CASE Publish(w, j) \/ Settle(w, j) \/ BodyReturns(w, j) \/ BodyRaises(w, j)
      <4>1. pc[w][j] \in Undone /\ active' = active
        BY <3>3 DEF Publish, Settle, BodyReturns, BodyRaises, At, Undone, Unsettled
      <4>2. QED BY <2>1, <4>1 DEF Freshness, Fresh, Young
    <3>4. CASE BodyTimesOut(w, j) \/ TimeoutFails(w, j) \/ Complete(w, j)
      <4>1. pc[w][j] \in Undone /\ active' = active
        BY <3>4 DEF BodyTimesOut, TimeoutFails, Complete, At, Undone, Unsettled
      <4>2. QED BY <2>1, <4>1 DEF Freshness, Fresh, Young
    <3>5. QED BY <1>6, <2>3, <3>1, <3>2, <3>3, <3>4 DEF Execute
  <2>4. QED BY <2>2, <2>3
<1>7. QED
  BY <1>2, <1>3, <1>4, <1>5, <1>6
     DEF Next, vars, workerVars, Cleanup, Client, Create, TimeArrives, Cancel

AttendedInv == NoHeartbeatLeak /\ DownIsIdle /\ Registering /\ Freshness

\* Every step keeps what is known of the executions under way.
LEMMA AttendedInvStep ==
    ASSUME IInv, AttendedInv, EverySlot, [Next]_vars
    PROVE  AttendedInv'
<1> USE DEF AttendedInv
<1>1. TableTypeOK /\ WorkerTypeOK
  BY DEF IInv, TableInv
<1>2. NoHeartbeatLeak' /\ DownIsIdle' /\ Registering'
  BY <1>1, NoHeartbeatLeakStep, DownIsIdleStep, RegisteringStep
<1>3. ASSUME NEW w \in Workers, NEW j \in Jobs,
             mode'[w] = "up", pc'[w][j] \in Undone, IsRunning(j)'
      PROVE  Young(w, j)'
  <2>1. CASE Tick
    BY <1>3, <2>1, TickFresh
  <2>2. CASE ~Tick
    <3>1. job'[j].age = 0 \/ (IsRunning(j) /\ job'[j].age = job[j].age)
      BY <1>1, <1>3, <2>2, StepIsStatement, StatementRefreshes DEF WorkerTypeOK
    <3>2. CASE job'[j].age = 0
      <4>1. fails'[w] \in Nat
        BY <1>1, WorkerTypeStep DEF WorkerTypeOK
      <4>2. QED BY <3>2, <4>1 DEF Young
    <3>3. QED BY <1>3, <2>2, <3>1, <3>2, OthersFresh
  <2>3. QED BY <2>1, <2>2
<1>4. Freshness'
  BY <1>3 DEF Freshness, Fresh
<1>5. QED BY <1>2, <1>4

\* What is known of the executions under way holds in every reachable state.
LEMMA Attends ==
    ASSUME EverySlot
    PROVE  Spec => []AttendedInv
<1>1. Init => AttendedInv
  BY DEF Init, AttendedInv, NoHeartbeatLeak, DownIsIdle, Registering, Registered, Freshness, Fresh,
         Undone, Unsettled
<1>2. IInv /\ AttendedInv /\ [Next]_vars => AttendedInv'
  BY AttendedInvStep
<1>3. QED BY <1>1, <1>2, Inductive, PTL DEF Spec

(* If every job finds a slot, stale recovery never takes a job from a live   *)
(* worker that executes it and whose heartbeats have not failed too often in *)
(* a row, whatever else fails: the code's "stale recovery invariant".        *)
THEOREM HealthyNotRequeuedHolds ==
    ASSUME EverySlot, StaleAfter <= StartStaleAfter
    PROVE  Spec => HealthyNotRequeued
<1>1. ASSUME IInv, AttendedInv, [Next]_vars,
             NEW w \in Workers, NEW j \in Jobs, Attended(w, j)
      PROVE  requeues'[j] = requeues[j]
  <2> USE DEF IInv, TableInv, TableTypeOK, WorkerTypeOK
  <2>1. CASE UNCHANGED requeues
    BY <2>1
  <2>2. ASSUME NEW js \in SUBSET Jobs, NEW limit \in {StaleAfter, StartStaleAfter},
               RequeueStaleRunning(js, limit)
        PROVE  j \notin js
    <3>1. SUFFICES ASSUME j \in js PROVE FALSE
      OBVIOUS
    <3>2. IsRunning(j) /\ job[j].age >= limit
      BY <2>2, <3>1 DEF RequeueStaleRunning, Stale
    <3>3. j \in active[w]
      BY <1>1 DEF AttendedInv, Registering, Registered, Attended
    <3>4. job[j].age <= fails[w] + 1
      BY <1>1, <3>2, <3>3
         DEF AttendedInv, Freshness, Fresh, Young, Attended, Undone, Unsettled
    <3>5. job[j].age \in Nat /\ fails[w] \in Nat /\ StaleAfter <= limit /\ limit \in Nat
      BY <1>1, TableAssumption DEF JobRow, Ages, TableAssumption
    <3>6. fails[w] + 1 < StaleAfter
      BY <1>1 DEF Attended
    <3>7. QED BY <3>2, <3>4, <3>5, <3>6, TableAssumption DEF TableAssumption
  <2>3. CASE Tick
    BY <2>1, <2>3 DEF Tick, AgeHeartbeats
  <2>4. CASE Statement
    <3>1. CASE \E js \in SUBSET Jobs, limit \in {StaleAfter, StartStaleAfter} :
                   RequeueStaleRunning(js, limit)
      BY <2>2, <3>1 DEF RequeueStaleRunning
    <3>2. CASE UNCHANGED requeues
      BY <2>1, <3>2
    <3>3. QED
      BY <2>4, <3>1, <3>2
         DEF Statement, Upkeep, Outcome, tableVars, CreateTask, FallDue, CancelTask, ClaimTask,
             CompleteTask, FailTask, CleanupOldJobs, UpdateHeartbeats
  <2>5. QED BY <1>1, <2>3, <2>4, StepIsStatement
<1>2. IInv /\ AttendedInv /\ [Next]_vars
        => [\A w \in Workers, j \in Jobs : Attended(w, j) => requeues'[j] = requeues[j]]_vars
  BY <1>1
<1>3. QED BY <1>2, Inductive, Attends, PTL DEF Spec, HealthyNotRequeued

-----------------------------------------------------------------------------
(* The pool implements JobLifecycle!Spec.  Given the types, each action is, *)
(* seen from any one job, a step of the lifecycle: the lemmas treat the     *)
(* statements of the table, LifecycleStep the actions that issue them.      *)

\* A step that leaves a row alone and gives its job no new holder is a Release.
LEMMA SameStatus ==
    ASSUME NEW i \in Jobs, job'[i] = job[i],
           \A w \in Workers : pc'[w][i] # "idle" => pc[w][i] # "idle"
    PROVE  Lifecycle!Step(i)
  BY DEF Lifecycle!Step, Lifecycle!Release, Lifecycle!LetsGo, AbstractStatus, IsQueued

\* A step in which no execution starts or ends keeps the holders.
LEMMA SameHolders ==
    ASSUME NEW i \in Jobs, \A w \in Workers : pc'[w][i] # "idle" <=> pc[w][i] # "idle"
    PROVE  Lifecycle!Keeps(i) /\ Lifecycle!LetsGo(i)
  BY DEF Lifecycle!Keeps, Lifecycle!LetsGo

\* create_task: the row of another job is untouched, the new one is submitted.
LEMMA CreateStep ==
    ASSUME TableTypeOK, NEW j \in Jobs, CreateTask(j, TRUE) \/ CreateTask(j, FALSE),
           UNCHANGED pc, NEW i \in Jobs
    PROVE  Lifecycle!Step(i)
<1>1. CASE i # j
  BY <1>1, SameStatus DEF CreateTask, TableTypeOK
<1>2. CASE i = j
  <2>1. Lifecycle!Keeps(j)
    BY SameHolders
  <2>2. AbstractStatus[j] = "absent" /\ AbstractStatus'[j] = "queued"
    BY DEF CreateTask, TableTypeOK, JobRow, AbstractStatus, IsQueued, Queued
  <2>3. QED
    BY <1>2, <2>1, <2>2 DEF Lifecycle!Step, Lifecycle!Submit, Lifecycle!Moves
<1>3. QED BY <1>1, <1>2

\* cancel_task revokes a queued job.
LEMMA CancelStep ==
    ASSUME TableTypeOK, NEW j \in Jobs, CancelTask(j), UNCHANGED pc, NEW i \in Jobs
    PROVE  Lifecycle!Step(i)
<1>1. CASE i # j
  BY <1>1, SameStatus DEF CancelTask, TableTypeOK
<1>2. CASE i = j
  <2>1. Lifecycle!Keeps(j)
    BY SameHolders
  <2>2. job'[j] = SetStatus(job[j], "cancelled") /\ "cancelled" \in Status \ Queued
    BY DEF CancelTask, TableTypeOK, Status, Terminal, Queued
  <2>3. AbstractStatus[j] = "queued" /\ AbstractStatus'[j] = "cancelled"
    BY <2>2, SetStatusMoves DEF CancelTask, AbstractStatus
  <2>4. QED
    BY <1>2, <2>1, <2>3 DEF Lifecycle!Step, Lifecycle!Revoke, Lifecycle!Moves
<1>3. QED BY <1>1, <1>2

\* cleanup_old_jobs purges final jobs.
LEMMA CleanupStep ==
    ASSUME TableTypeOK, NEW js \in SUBSET Jobs, CleanupOldJobs(js), UNCHANGED pc, NEW i \in Jobs
    PROVE  Lifecycle!Step(i)
<1>1. CASE i \notin js
  BY <1>1, SameStatus DEF CleanupOldJobs
<1>2. CASE i \in js
  <2>1. Lifecycle!Keeps(i)
    BY SameHolders
  <2>2. job'[i] = SetStatus(job[i], "deleted") /\ "deleted" \in Status \ Queued
    BY <1>2 DEF CleanupOldJobs, Status, Queued
  <2>3. AbstractStatus[i] \in Lifecycle!Final /\ AbstractStatus'[i] = "deleted"
    BY <1>2, <2>2, SetStatusMoves
       DEF CleanupOldJobs, AbstractStatus, IsTerminal, IsQueued, Terminal, Queued,
           Lifecycle!Final
  <2>4. QED
    BY <2>1, <2>3 DEF Lifecycle!Step, Lifecycle!Purge, Lifecycle!Moves
<1>3. QED BY <1>1, <1>2

\* requeue_stale_running recovers running jobs.
LEMMA RequeueStep ==
    ASSUME TableTypeOK, NEW js \in SUBSET Jobs, NEW limit, RequeueStaleRunning(js, limit),
           UNCHANGED pc, NEW i \in Jobs
    PROVE  Lifecycle!Step(i)
<1>1. CASE i \notin js
  BY <1>1, SameStatus DEF RequeueStaleRunning
<1>2. CASE i \in js
  <2>1. Lifecycle!Keeps(i)
    BY SameHolders
  <2>2. job'[i] = PutBack(job[i]) /\ IsRunning(i)
    BY <1>2 DEF RequeueStaleRunning, Stale
  <2>3. AbstractStatus[i] = "running" /\ AbstractStatus'[i] = "queued"
    BY <2>2, PutBackMoves DEF AbstractStatus, IsRunning, IsQueued, Queued
  <2>4. QED
    BY <2>1, <2>3 DEF Lifecycle!Step, Lifecycle!Recover, Lifecycle!Moves
<1>3. QED BY <1>1, <1>2

\* claim_task, whether the claimant then holds the job or is interrupted.
LEMMA ClaimStep ==
    ASSUME IInv, NEW w \in Workers, NEW j \in Jobs, ClaimTask(j), pc[w][j] = "idle",
           Goto(w, j, "waiting") \/ UNCHANGED pc, NEW i \in Jobs
    PROVE  Lifecycle!Step(i)
<1> USE DEF IInv, TableInv, WorkerTypeOK
<1>1. CASE i # j
  BY <1>1, SameStatus, SMTT(30) DEF ClaimTask, TableTypeOK, Goto
<1>2. CASE i = j
  <2>1. job'[j] = SetStatus(job[j], "running") /\ "running" \in Status \ Queued
    BY DEF ClaimTask, TableTypeOK, Status, Queued
  <2>2. AbstractStatus[j] = "queued" /\ AbstractStatus'[j] = "running"
    BY <2>1, SetStatusMoves DEF ClaimTask, AbstractStatus
  <2>3. CASE UNCHANGED pc
    <3>1. Lifecycle!Keeps(j)
      BY <2>3, SameHolders
    <3>2. QED
      BY <1>2, <2>2, <3>1 DEF Lifecycle!Step, Lifecycle!Claim, Lifecycle!Moves
  <2>4. CASE Goto(w, j, "waiting")
    <3> DEFINE H == {v \in Workers : pc[v][j] # "idle"}
    <3>1. w \in Workers \ H
      OBVIOUS
    <3>2. {v \in Workers : pc'[v][j] # "idle"} = H \union {w}
      BY <2>4 DEF Goto
    <3>3. QED
      BY <1>2, <2>2, <3>1, <3>2 DEF Lifecycle!Step, Lifecycle!Claim, Lifecycle!Moves
  <2>5. QED BY <2>3, <2>4
<1>3. QED BY <1>1, <1>2

\* An execution writes an outcome: complete_task or fail_task.
LEMMA SettleStep ==
    ASSUME IInv, NEW w \in Workers, NEW j \in Jobs, pc[w][j] # "idle",
           CompleteTask(j) \/ (\E retry \in BOOLEAN : FailTask(j, retry)),
           NEW place \in PCs \ {"idle"}, Goto(w, j, place), NEW i \in Jobs
    PROVE  Lifecycle!Step(i)
<1> USE DEF IInv, TableInv, WorkerTypeOK
<1>1. Lifecycle!LetsGo(i)
  BY SameHolders DEF Goto
<1>2. CASE job'[i] = job[i]
  BY <1>2, SameStatus DEF Goto
<1>3. CASE i = j /\ Exists(j)
  <2>1. \/ job'[j] = SetStatus(job[j], "completed")
        \/ job'[j] = SetStatus(job[j], "failed")
        \/ job'[j] = PutBack(job[j])
    BY <1>3 DEF CompleteTask, FailTask, TableTypeOK
  <2>2. {"completed", "failed"} \subseteq Status \ Queued
    BY DEF Status, Terminal, Queued
  <2>3. AbstractStatus'[j] \in {"queued", "completed", "failed"}
    BY <2>1, <2>2, SetStatusMoves, PutBackMoves
  <2>4. AbstractStatus[j] \in Lifecycle!Statuses \ {"absent", "deleted"}
    BY <1>3 DEF AbstractStatus, Exists, IsQueued, TableTypeOK, JobRow, Status, Queued, Terminal,
       Lifecycle!Statuses, Lifecycle!Final
  <2>5. {v \in Workers : pc[v][j] # "idle"} # {}
    OBVIOUS
  <2>6. QED
    BY <1>1, <1>3, <2>3, <2>4, <2>5 DEF Lifecycle!Step, Lifecycle!Settle, Lifecycle!Moves
<1>4. QED BY <1>2, <1>3 DEF CompleteTask, FailTask, TableTypeOK

-----------------------------------------------------------------------------
\* Every step of the system is, for every job, a step of the lifecycle.
LEMMA LifecycleStep ==
    ASSUME IInv, [Next]_vars
    PROVE  Lifecycle!Next
<1> SUFFICES ASSUME NEW i \in Jobs PROVE Lifecycle!Step(i)
  BY DEF Lifecycle!Next
<1> USE DEF IInv, TableInv, WorkerTypeOK
<1>1. CASE UNCHANGED <<job, pc>>
  BY <1>1, SameStatus
<1>2. CASE Tick
  <2>1. job'[i] = job[i] \/ job'[i] = [job[i] EXCEPT !.age = @ + 1]
    BY <1>2 DEF Tick, AgeHeartbeats
  <2>2. AbstractStatus'[i] = AbstractStatus[i]
    BY <2>1 DEF AbstractStatus, IsQueued, TableTypeOK, JobRow
  <2>3. Lifecycle!LetsGo(i)
    BY <1>2, SameHolders DEF Tick
  <2>4. QED BY <2>2, <2>3 DEF Lifecycle!Step, Lifecycle!Release
<1>3. CASE Cleanup
  BY <1>3, CleanupStep DEF Cleanup, workerVars
<1>4. ASSUME NEW j \in Jobs, Client(j) PROVE Lifecycle!Step(i)
  <2>1. CASE Create(j)
    BY <2>1, CreateStep DEF Create, workerVars
  <2>2. CASE TimeArrives(j)
    <3>1. AbstractStatus'[i] = AbstractStatus[i]
      BY <2>2 DEF TimeArrives, FallDue, AbstractStatus, IsQueued, TableTypeOK, JobRow
    <3>2. Lifecycle!LetsGo(i)
      BY <2>2, SameHolders DEF TimeArrives, workerVars
    <3>3. QED BY <3>1, <3>2 DEF Lifecycle!Step, Lifecycle!Release
  <2>3. CASE Cancel(j)
    BY <2>3, CancelStep DEF Cancel, workerVars
  <2>4. QED BY <1>4, <2>1, <2>2, <2>3 DEF Client
<1>5. ASSUME NEW w \in Workers, Loop(w) PROVE Lifecycle!Step(i)
  <2>1. CASE Start(w)
    BY <2>1, RequeueStep, <1>1 DEF Start, tableVars
  <2>2. CASE Requeue(w)
    BY <2>2, RequeueStep DEF Requeue, workerVars
  <2>3. ASSUME NEW j \in Jobs, Claim(w, j) PROVE Lifecycle!Step(i)
    BY <2>3, ClaimStep DEF Claim
  <2>4. CASE Poll(w) \/ LoopError(w) \/ \E j \in Jobs : Skip(w, j)
    BY <2>4, <1>1 DEF Poll, LoopError, Skip, tableVars
  <2>5. QED BY <1>5, <2>1, <2>2, <2>3, <2>4 DEF Loop
<1>6. ASSUME NEW w \in Workers, Heartbeat(w) PROVE Lifecycle!Step(i)
  <2>1. CASE Beat(w)
    <3>1. job'[i] = job[i] \/ job'[i] = [job[i] EXCEPT !.age = 0]
      BY <2>1 DEF Beat, UpdateHeartbeats
    <3>2. AbstractStatus'[i] = AbstractStatus[i]
      BY <3>1 DEF AbstractStatus, IsQueued, TableTypeOK, JobRow
    <3>3. Lifecycle!LetsGo(i)
      BY <2>1, SameHolders DEF Beat
    <3>4. QED BY <3>2, <3>3 DEF Lifecycle!Step, Lifecycle!Release
  <2>2. CASE BeatNothing(w) \/ BeatFails(w)
    BY <2>2, <1>1 DEF BeatNothing, BeatFails, tableVars
  <2>3. QED BY <1>6, <2>1, <2>2 DEF Heartbeat
<1>7. ASSUME NEW w \in Workers, Shutdown(w) PROVE Lifecycle!Step(i)
  <2>1. CASE BeginCleanup(w) \/ Stop(w)
    BY <2>1, <1>1 DEF BeginCleanup, Stop, tableVars
  <2>2. CASE CancelRunning(w)
    <3>1. AfterCancel("idle") = "idle"
      BY DEF AfterCancel
    <3>2. QED BY <2>2, <3>1, SameStatus DEF CancelRunning, tableVars
  <2>3. CASE Crash(w)
    BY <2>3, SameStatus DEF Crash, tableVars
  <2>4. ASSUME NEW j \in Jobs, ClaimInterrupted(w, j) PROVE Lifecycle!Step(i)
    BY <2>4, ClaimStep DEF ClaimInterrupted
  <2>5. QED BY <1>7, <2>1, <2>2, <2>3, <2>4 DEF Shutdown
<1>8. ASSUME NEW w \in Workers, NEW j \in Jobs, Execute(w, j) PROVE Lifecycle!Step(i)
  <2>1. CASE UNCHANGED job
    <3>1. pc[w][j] # "idle"
      BY <1>8
         DEF Execute, Acquire, BodyReturns, BodyRaises, BodyTimesOut, TimeoutFails, Complete,
             Publish, Settle, Unwind, Finish, At
    <3>2. \E place \in PCs : Goto(w, j, place)
      BY <1>8
         DEF Execute, Acquire, BodyReturns, BodyRaises, BodyTimesOut, TimeoutFails, Complete,
             Publish, Settle, Unwind, Finish, PCs
    <3>3. QED BY <2>1, <3>1, <3>2, SameStatus DEF Goto
  <2>2. CASE ~UNCHANGED job
    <3>1. TimeoutFails(w, j) \/ Complete(w, j) \/ Settle(w, j)
      BY <1>8, <2>2
         DEF Execute, Acquire, BodyReturns, BodyRaises, BodyTimesOut, Publish, Unwind, Finish,
             tableVars
    <3>2. pc[w][j] # "idle"
      BY <3>1 DEF TimeoutFails, Complete, Settle, At
    <3>3. \E place \in PCs \ {"idle"} : Goto(w, j, place)
      BY <3>1 DEF TimeoutFails, Complete, Settle, PCs
    <3>4. CompleteTask(j) \/ \E retry \in BOOLEAN : FailTask(j, retry)
      BY <2>2, <3>1 DEF TimeoutFails, Complete, Settle, tableVars
    <3>5. QED BY <3>2, <3>3, <3>4, SettleStep
  <2>3. QED BY <2>1, <2>2
<1>9. QED BY <1>1, <1>2, <1>3, <1>4, <1>5, <1>6, <1>7, <1>8 DEF Next, vars

\* The empty table and the stopped workers are the lifecycle's initial state.
LEMMA LifecycleInit ==
    ASSUME Init
    PROVE  Lifecycle!Init
  BY DEF Init, TableInit, Lifecycle!Init, AbstractStatus, IsQueued, Queued

(* Whatever goes wrong, the table and the workers implement the lifecycle:   *)
(* claim_task takes only queued jobs, and only a worker with an execution    *)
(* under way for the job can overwrite a terminal status.                    *)
THEOREM ImplementsLifecycleHolds == Spec => ImplementsLifecycle
<1>1. Init => Lifecycle!Init
  BY LifecycleInit
<1>2. IInv /\ [Next]_vars => Lifecycle!Next
  BY LifecycleStep
<1>3. QED BY <1>1, <1>2, Inductive, PTL DEF Spec, ImplementsLifecycle, Lifecycle!Spec

-----------------------------------------------------------------------------
(* The strict lifecycle, and failure only after every retry.                 *)
(*                                                                          *)
(* Both fail as soon as a job is late for a slot, times out, is cut short by *)
(* a shutdown, or a statement fails.  With a slot for every job, limits of   *)
(* more than one heartbeat interval and nothing worse than crashes, however  *)
(* many, they hold: an execution with an outcome to write is the only one    *)
(* of its job (Alone), its row is running (Holds), and the row's heartbeat   *)
(* is at most an interval old, so that recovery leaves it alone.             *)

CrashesOnly ==
    /\ EverySlot
    /\ StaleAfter > 1 /\ StartStaleAfter > 1
    /\ Faults \subseteq {"crash"}

Calm     == \A w \in Workers : mode[w] \in {"down", "up"} /\ fails[w] = 0
InTime   == \A w \in Workers, j \in Jobs : pc[w][j] # "timedout"
Holds    == \A w \in Workers, j \in Jobs : pc[w][j] \in Unsettled => IsRunning(j)
Alone    == \A j \in Jobs : \A v, w \in Workers :
                pc[v][j] \in Unsettled /\ pc[w][j] \in Unsettled => v = w

HolderInv == Calm /\ InTime /\ Holds /\ Alone

\* Recovery takes no row that an execution holds.
LEMMA HeldNotTaken ==
    ASSUME CrashesOnly, IInv, AttendedInv, HolderInv,
           NEW w \in Workers, NEW i \in Jobs, pc[w][i] \in Unsettled,
           NEW js \in SUBSET Jobs, NEW limit \in {StaleAfter, StartStaleAfter},
           RequeueStaleRunning(js, limit)
    PROVE  i \notin js
<1> USE DEF IInv, TableInv, TableTypeOK, WorkerTypeOK
<1>1. IsRunning(i) /\ fails[w] = 0 /\ mode[w] = "up"
  BY DEF HolderInv, Holds, Calm, AttendedInv, DownIsIdle, Unsettled
<1>2. Young(w, i)
  BY <1>1 DEF AttendedInv, Freshness, Fresh, Undone
<1>3. job[i].age <= 1
  BY <1>1, <1>2 DEF Young
<1>4. job[i].age \in Nat
  BY DEF JobRow, Ages
<1>5. ~(job[i].age >= limit)
  BY <1>3, <1>4, TableAssumption DEF CrashesOnly, TableAssumption
<1>6. QED BY <1>5 DEF RequeueStaleRunning, Stale

\* The step that writes an outcome is the last of its execution to hold the job.
LEMMA OutcomeReleases ==
    ASSUME CrashesOnly, IInv, HolderInv, NEW w \in Workers, NEW j \in Jobs, Execute(w, j),
           ~UNCHANGED tableVars
    PROVE  /\ pc[w][j] \in Unsettled /\ pc'[w][j] \notin Unsettled
           /\ CompleteTask(j) \/ (\E retry \in BOOLEAN : FailTask(j, retry))
<1> USE DEF IInv, WorkerTypeOK, Unsettled
<1>1. ~TimeoutFails(w, j)
  BY DEF TimeoutFails, At, HolderInv, InTime
<1>2. CASE Complete(w, j)
  <2>1. CompleteTask(j) /\ Goto(w, j, "publishing")
    BY <1>2 DEF Complete, Fault, CrashesOnly
  <2>2. QED BY <1>2, <2>1, GotoMoves DEF Complete, At
<1>3. CASE Settle(w, j)
  <2>1. Goto(w, j, "unwinding") /\ \E retry \in BOOLEAN : FailTask(j, retry)
    BY <1>3 DEF Settle, Fault, CrashesOnly
  <2>2. pc'[w][j] = "unwinding"
    BY <2>1, GotoMoves
  <2>3. QED BY <1>3, <2>1, <2>2 DEF Settle, At
<1>4. QED
  BY <1>1, <1>2, <1>3
     DEF Execute, Acquire, BodyReturns, BodyRaises, BodyTimesOut, Publish, Unwind, Finish

\* A row stays running while the execution that holds it has not settled it.
LEMMA HolderKeeps ==
    ASSUME CrashesOnly, IInv, AttendedInv, HolderInv, [Next]_vars,
           NEW w \in Workers, NEW i \in Jobs, pc[w][i] \in Unsettled, pc'[w][i] \in Unsettled
    PROVE  IsRunning(i)'
<1> USE DEF IInv, TableInv, TableTypeOK, WorkerTypeOK
<1>1. IsRunning(i) /\ job[i] \in JobRow
  BY DEF HolderInv, Holds
<1>2. CASE job'[i] = job[i]
  BY <1>1, <1>2 DEF IsRunning
<1>3. CASE Tick
  BY <1>1, <1>3 DEF Tick, AgeHeartbeats, IsRunning, JobRow
<1>4. CASE Cleanup
  BY <1>1, <1>2, <1>4 DEF Cleanup, CleanupOldJobs, IsTerminal, IsRunning, Terminal
<1>5. ASSUME NEW j \in Jobs, Client(j) PROVE IsRunning(i)'
  <2>1. job[j].status # "running"
    BY <1>5 DEF Client, Create, TimeArrives, Cancel, CreateTask, FallDue, CancelTask, IsQueued,
                Queued
  <2>2. i # j
    BY <1>1, <2>1 DEF IsRunning
  <2>3. QED
    BY <1>2, <1>5, <2>2
       DEF Client, Create, TimeArrives, Cancel, CreateTask, FallDue, CancelTask
<1>6. ASSUME NEW x \in Workers, Loop(x) PROVE IsRunning(i)'
  <2>1. ASSUME NEW js \in SUBSET Jobs, NEW limit \in {StaleAfter, StartStaleAfter},
               RequeueStaleRunning(js, limit)
        PROVE  IsRunning(i)'
    <3>1. i \notin js
      BY <2>1, HeldNotTaken
    <3>2. QED BY <1>2, <2>1, <3>1 DEF RequeueStaleRunning
  <2>2. CASE Start(x) \/ Requeue(x)
    BY <1>2, <2>1, <2>2 DEF Start, Requeue, tableVars
  <2>3. ASSUME NEW j \in Jobs, Claim(x, j) PROVE IsRunning(i)'
    BY <1>1, <1>2, <2>3 DEF Claim, ClaimTask, IsRunning, SetStatus, JobRow
  <2>4. CASE Poll(x) \/ LoopError(x) \/ \E j \in Jobs : Skip(x, j)
    BY <1>2, <2>4 DEF Poll, LoopError, Skip, tableVars
  <2>5. QED BY <1>6, <2>2, <2>3, <2>4 DEF Loop
<1>7. ASSUME NEW x \in Workers, Heartbeat(x) PROVE IsRunning(i)'
  BY <1>1, <1>7
     DEF Heartbeat, BeatNothing, Beat, BeatFails, UpdateHeartbeats, IsRunning, JobRow, tableVars
<1>8. ASSUME NEW x \in Workers, Shutdown(x) PROVE IsRunning(i)'
  BY <1>1, <1>2, <1>8
     DEF Shutdown, BeginCleanup, CancelRunning, Stop, Crash, ClaimInterrupted, Fault, CrashesOnly,
         tableVars
<1>9. ASSUME NEW x \in Workers, NEW j \in Jobs, Execute(x, j) PROVE IsRunning(i)'
  <2>1. CASE UNCHANGED tableVars
    BY <1>2, <2>1 DEF tableVars
  <2>2. CASE ~UNCHANGED tableVars
    <3>1. /\ pc[x][j] \in Unsettled /\ pc'[x][j] \notin Unsettled
          /\ CompleteTask(j) \/ \E retry \in BOOLEAN : FailTask(j, retry)
      BY <1>9, <2>2, OutcomeReleases
    <3>2. i # j
      BY <3>1 DEF HolderInv, Alone
    <3>3. QED BY <1>2, <3>1, <3>2 DEF CompleteTask, FailTask
  <2>3. QED BY <2>1, <2>2
<1>10. QED
  BY <1>2, <1>3, <1>4, <1>5, <1>6, <1>7, <1>8, <1>9 DEF Next, vars

\* A job gets a holder by claim and in no other way.
LEMMA HolderIsNew ==
    ASSUME CrashesOnly, IInv, HolderInv, [Next]_vars,
           NEW w \in Workers, NEW i \in Jobs, pc[w][i] \notin Unsettled, pc'[w][i] \in Unsettled
    PROVE  Claim(w, i)
<1> USE DEF IInv, WorkerTypeOK
<1>1. pc'[w][i] # pc[w][i]
  OBVIOUS
<1>2. ASSUME NEW x \in Workers, NEW j \in Jobs, Claim(x, j) PROVE Claim(w, i)
  <2>1. Goto(x, j, "waiting")
    BY <1>2 DEF Claim
  <2>2. x = w /\ j = i
    BY <1>1, <2>1, GotoMoves
  <2>3. QED BY <1>2, <2>2
<1>3. ASSUME NEW x \in Workers, NEW j \in Jobs, Execute(x, j) PROVE FALSE
  <2>1. \E place \in PCs : Goto(x, j, place)
    BY <1>3
       DEF Execute, Acquire, BodyReturns, BodyRaises, BodyTimesOut, TimeoutFails, Complete,
           Publish, Settle, Unwind, Finish, PCs
  <2>2. x = w /\ j = i
    BY <1>1, <2>1, GotoMoves
  <2>3. pc[w][i] \in {"publishing", "unwinding", "flushing"}
    BY <1>3, <2>2
       DEF Execute, Acquire, BodyReturns, BodyRaises, BodyTimesOut, TimeoutFails, Complete,
           Publish, Settle, Unwind, Finish, At, Unsettled
  <2>4. CASE Publish(w, i)
    <3>1. Goto(w, i, "unwinding")
      BY <2>4 DEF Publish, Fault, CrashesOnly
    <3>2. QED BY <3>1, GotoMoves DEF Unsettled
  <2>5. CASE Unwind(w, i) \/ Finish(w, i)
    <3>1. \E place \in {"flushing", "idle"} : Goto(w, i, place)
      BY <2>5 DEF Unwind, Finish
    <3>2. QED BY <3>1, GotoMoves DEF Unsettled
  <2>6. Publish(w, i) \/ Unwind(w, i) \/ Finish(w, i)
    BY <1>3, <2>2, <2>3
       DEF Execute, Acquire, BodyReturns, BodyRaises, BodyTimesOut, TimeoutFails, Complete,
           Settle, At
  <2>7. QED BY <2>4, <2>5, <2>6
<1>4. ASSUME NEW x \in Workers, CancelRunning(x) PROVE FALSE
  BY <1>4 DEF CancelRunning, HolderInv, Calm
<1>5. ASSUME NEW x \in Workers, Crash(x) PROVE FALSE
  BY <1>1, <1>5 DEF Crash, Unsettled
<1>6. QED
  BY <1>1, <1>2, <1>3, <1>4, <1>5
     DEF Next, vars, workerVars, Tick, Cleanup, Client, Create, TimeArrives, Cancel, Loop, Start,
         Poll, LoopError, Requeue, Skip, Heartbeat, BeatNothing, Beat, BeatFails, Shutdown,
         BeginCleanup, Stop, ClaimInterrupted

\* Every step keeps one holder at most for each job, over a running row.
LEMMA HolderInvStep ==
    ASSUME CrashesOnly, IInv, AttendedInv, HolderInv, [Next]_vars
    PROVE  HolderInv'
<1> USE DEF IInv, WorkerTypeOK
<1>1. Calm'
  <2> SUFFICES ASSUME NEW w \in Workers PROVE mode'[w] \in {"down", "up"} /\ fails'[w] = 0
    BY DEF Calm
  <2>1. mode[w] \in {"down", "up"} /\ fails[w] = 0
    BY DEF HolderInv, Calm
  <2>2. CASE UNCHANGED <<mode, fails>>
    BY <2>1, <2>2
  <2>3. CASE Tick
    BY <2>1, <2>3 DEF Tick
  <2>4. ASSUME NEW x \in Workers, Loop(x) \/ Heartbeat(x)
        PROVE  mode'[w] \in {"down", "up"} /\ fails'[w] = 0
    BY <2>1, <2>4
       DEF Loop, Start, Poll, LoopError, Requeue, Skip, Claim, Heartbeat, BeatNothing, Beat,
           BeatFails, Fault, CrashesOnly, workerVars
  <2>5. ASSUME NEW x \in Workers, Shutdown(x)
        PROVE  mode'[w] \in {"down", "up"} /\ fails'[w] = 0
    BY <2>1, <2>5
       DEF Shutdown, BeginCleanup, ClaimInterrupted, CancelRunning, Stop, Crash, Fault,
           CrashesOnly, HolderInv, Calm
  <2>6. ASSUME NEW x \in Workers, NEW j \in Jobs, Execute(x, j) PROVE UNCHANGED <<mode, fails>>
    BY <2>6
       DEF Execute, Acquire, BodyReturns, BodyRaises, BodyTimesOut, TimeoutFails, Complete,
           Publish, Settle, Unwind, Finish
  <2>7. QED
    BY <2>2, <2>3, <2>4, <2>5, <2>6
       DEF Next, vars, workerVars, Cleanup, Client, Create, TimeArrives, Cancel
<1>2. ASSUME NEW w \in Workers, NEW j \in Jobs PROVE pc'[w][j] # "timedout"
  <2>1. pc[w][j] # "timedout"
    BY DEF HolderInv, InTime
  <2>2. CASE pc[w][j] \notin Unsettled /\ pc'[w][j] \in Unsettled
    BY <2>2, HolderIsNew, GotoMoves DEF Claim
  <2>3. CASE pc[w][j] \in Unsettled /\ pc'[w][j] \in Unsettled
    <3>1. ASSUME NEW x \in Workers, NEW k \in Jobs, Execute(x, k) PROVE pc'[w][j] # "timedout"
      <4>1. \E place \in PCs \ {"timedout"} : Goto(x, k, place)
        BY <3>1
           DEF Execute, Acquire, BodyReturns, BodyRaises, BodyTimesOut, TimeoutFails, Complete,
               Publish, Settle, Unwind, Finish, PCs, CrashesOnly
      <4>2. QED BY <2>1, <4>1, GotoMoves
    <3>2. ASSUME NEW x \in Workers, NEW k \in Jobs, Claim(x, k) PROVE pc'[w][j] # "timedout"
      BY <2>1, <3>2, GotoMoves DEF Claim
    <3>3. ASSUME NEW x \in Workers, Shutdown(x) PROVE pc'[w][j] # "timedout"
      BY <2>1, <3>3
         DEF Shutdown, BeginCleanup, ClaimInterrupted, CancelRunning, Stop, Crash, HolderInv, Calm
    <3>4. QED
      BY <2>1, <3>1, <3>2, <3>3
         DEF Next, vars, workerVars, Tick, Cleanup, Client, Create, TimeArrives, Cancel, Loop,
             Start, Poll, LoopError, Requeue, Skip, Heartbeat, BeatNothing, Beat, BeatFails
  <2>4. CASE pc'[w][j] \notin Unsettled
    BY <2>4 DEF Unsettled
  <2>5. QED BY <2>2, <2>3, <2>4
<1>3. ASSUME NEW w \in Workers, NEW j \in Jobs, pc'[w][j] \in Unsettled PROVE IsRunning(j)'
  <2>1. CASE pc[w][j] \in Unsettled
    BY <1>3, <2>1, HolderKeeps
  <2>2. CASE pc[w][j] \notin Unsettled
    <3>1. ClaimTask(j)
      BY <1>3, <2>2, HolderIsNew DEF Claim
    <3>2. QED
      BY <3>1 DEF ClaimTask, TableInv, TableTypeOK, JobRow, SetStatus, IsRunning
  <2>3. QED BY <2>1, <2>2
<1>4. ASSUME NEW j \in Jobs, NEW v \in Workers, NEW w \in Workers,
             pc'[v][j] \in Unsettled, pc'[w][j] \in Unsettled
      PROVE  v = w
  <2>1. ASSUME NEW x \in Workers, NEW y \in Workers, Claim(x, j), pc[y][j] \in Unsettled
        PROVE  FALSE
    BY <2>1 DEF Claim, ClaimTask, HolderInv, Holds, IsRunning, IsQueued, Queued
  <2>2. CASE pc[v][j] \in Unsettled /\ pc[w][j] \in Unsettled
    BY <2>2 DEF HolderInv, Alone
  <2>3. CASE pc[v][j] \notin Unsettled /\ pc[w][j] \notin Unsettled
    <3>1. Claim(v, j) /\ pc[w][j] # pc'[w][j]
      BY <1>4, <2>3, HolderIsNew
    <3>2. QED BY <3>1, GotoMoves DEF Claim
  <2>4. QED BY <1>4, <2>1, <2>2, <2>3, HolderIsNew
<1>5. QED BY <1>1, <1>2, <1>3, <1>4 DEF HolderInv, InTime, Holds, Alone

\* With crashes only, one execution at most holds a job in every reachable state.
LEMMA OneHolder ==
    ASSUME CrashesOnly
    PROVE  Spec => []HolderInv
<1>1. Init => HolderInv
  BY DEF Init, HolderInv, Calm, InTime, Holds, Alone, Unsettled
<1>2. IInv /\ AttendedInv /\ HolderInv /\ [Next]_vars => HolderInv'
  BY HolderInvStep
<1>3. EverySlot
  BY DEF CrashesOnly
<1>4. Spec => []AttendedInv
  BY <1>3, Attends
<1>5. QED BY <1>1, <1>2, <1>4, Inductive, PTL DEF Spec

-----------------------------------------------------------------------------
(* Failure only after every retry: the claims of a row pay for its retries,  *)
(* one more while it runs, because only a running row is failed or put back. *)

Paid(j) ==
    /\ claims[j] >= job[j].retryCount
    /\ IsRunning(j) => claims[j] >= job[j].retryCount + 1
    /\ job[j].status = "failed" /\ j \notin gaveUp => claims[j] > MaxRetries

AllPaid == \A j \in Jobs : Paid(j)

\* A step that leaves the row its status and its counts leaves it paid.
LEMMA PaidStill ==
    ASSUME NEW i \in Jobs, Paid(i), job'[i].status = job[i].status,
           job'[i].retryCount = job[i].retryCount, claims'[i] = claims[i], gaveUp \subseteq gaveUp'
    PROVE  Paid(i)'
  BY DEF Paid, IsRunning

\* Everything but an outcome keeps every row paid.
LEMMA UpkeepPaid ==
    ASSUME TableTypeOK, AllPaid, Upkeep, NEW i \in Jobs
    PROVE  Paid(i)'
<1> USE DEF TableTypeOK
<1>1. Paid(i) /\ job[i] \in JobRow /\ claims[i] \in Nat
  BY DEF AllPaid
<1>2. CASE job' = job /\ claims' = claims /\ gaveUp \subseteq gaveUp'
  BY <1>1, <1>2, PaidStill
<1>3. ASSUME NEW j \in Jobs, NEW scheduled \in BOOLEAN, CreateTask(j, scheduled) PROVE Paid(i)'
  <2>1. CASE i # j
    BY <1>1, <1>3, <2>1, PaidStill DEF CreateTask
  <2>2. CASE i = j
    <3>1. job'[i].status \in Queued /\ job'[i].retryCount = job[i].retryCount
      BY <1>1, <1>3, <2>2 DEF CreateTask, JobRow, Queued
    <3>2. QED BY <1>1, <1>3, <3>1 DEF CreateTask, Paid, IsRunning, Queued
  <2>3. QED BY <2>1, <2>2
<1>4. ASSUME NEW j \in Jobs, FallDue(j) PROVE Paid(i)'
  <2>1. job'[i].status = job[i].status /\ job'[i].retryCount = job[i].retryCount
    BY <1>1, <1>4 DEF FallDue, JobRow
  <2>2. QED BY <1>1, <1>4, <2>1, PaidStill DEF FallDue
<1>5. ASSUME NEW j \in Jobs, CancelTask(j) PROVE Paid(i)'
  <2>1. CASE i # j
    BY <1>1, <1>5, <2>1, PaidStill DEF CancelTask
  <2>2. CASE i = j
    <3>1. job'[i] = SetStatus(job[i], "cancelled")
      BY <1>5, <2>2 DEF CancelTask
    <3>2. job'[i].status = "cancelled" /\ job'[i].retryCount = job[i].retryCount
      BY <1>1, <3>1, SetStatusRow DEF Status, Terminal
    <3>3. QED BY <1>1, <1>5, <3>2 DEF CancelTask, Paid, IsRunning
  <2>3. QED BY <2>1, <2>2
<1>6. ASSUME NEW j \in Jobs, ClaimTask(j) PROVE Paid(i)'
  <2>1. CASE i # j
    BY <1>1, <1>6, <2>1, PaidStill DEF ClaimTask
  <2>2. CASE i = j
    <3>1. job'[i] = SetStatus(job[i], "running") /\ claims'[i] = claims[i] + 1
      BY <1>6, <2>2 DEF ClaimTask
    <3>2. job'[i].status = "running" /\ job'[i].retryCount = job[i].retryCount
      BY <1>1, <3>1, SetStatusRow DEF Status
    <3>3. job[i].retryCount \in Nat
      BY <1>1 DEF JobRow
    <3>4. QED BY <1>1, <3>1, <3>2, <3>3 DEF Paid, IsRunning
  <2>3. QED BY <2>1, <2>2
<1>7. ASSUME NEW js \in SUBSET Jobs, CleanupOldJobs(js) PROVE Paid(i)'
  <2>1. CASE i \notin js
    BY <1>1, <1>7, <2>1, PaidStill DEF CleanupOldJobs
  <2>2. CASE i \in js
    <3>1. job'[i] = SetStatus(job[i], "deleted")
      BY <1>7, <2>2 DEF CleanupOldJobs
    <3>2. job'[i].status = "deleted" /\ job'[i].retryCount = job[i].retryCount
      BY <1>1, <3>1, SetStatusRow DEF Status
    <3>3. QED BY <1>1, <1>7, <3>2 DEF CleanupOldJobs, Paid, IsRunning
  <2>3. QED BY <2>1, <2>2
<1>8. ASSUME NEW js \in SUBSET Jobs, UpdateHeartbeats(js) PROVE Paid(i)'
  <2>1. job'[i].status = job[i].status /\ job'[i].retryCount = job[i].retryCount
    BY <1>1, <1>8 DEF UpdateHeartbeats, JobRow
  <2>2. QED BY <1>1, <1>8, <2>1, PaidStill DEF UpdateHeartbeats
<1>9. ASSUME NEW js \in SUBSET Jobs, NEW limit, RequeueStaleRunning(js, limit) PROVE Paid(i)'
  <2>1. CASE i \notin js
    BY <1>1, <1>9, <2>1, PaidStill DEF RequeueStaleRunning
  <2>2. CASE i \in js
    <3>1. job'[i] = PutBack(job[i]) /\ IsRunning(i) /\ claims' = claims
      BY <1>9, <2>2 DEF RequeueStaleRunning, Stale
    <3>2. job'[i].status = "pending" /\ job'[i].retryCount = job[i].retryCount + 1
      BY <1>1, <3>1, PutBackRow
    <3>3. QED BY <1>1, <3>1, <3>2 DEF Paid, IsRunning
  <2>3. QED BY <2>1, <2>2
<1>10. QED
  BY <1>2, <1>3, <1>4, <1>5, <1>6, <1>7, <1>8, <1>9 DEF Upkeep, tableVars

\* So does the outcome of a row that is running: a failure is for good once the claims are.
LEMMA OutcomePaid ==
    ASSUME TableTypeOK, AllPaid, NEW j \in Jobs, IsRunning(j), Outcome(j), NEW i \in Jobs
    PROVE  Paid(i)'
<1> USE DEF TableTypeOK
<1>1. Paid(i) /\ job[i] \in JobRow /\ claims[i] \in Nat
  BY DEF AllPaid
<1>2. ASSUME NEW retry \in BOOLEAN, FailTask(j, retry) PROVE Paid(i)'
  <2>1. CASE job'[i] = job[i]
    BY <1>1, <1>2, <2>1, PaidStill DEF FailTask
  <2>2. CASE job'[i] # job[i]
    <3>1. i = j /\ IsRunning(i) /\ job[i].retryCount \in Nat /\ claims'[i] = claims[i]
      BY <1>1, <1>2, <2>2 DEF FailTask, JobRow
    <3>2. CASE retry /\ job[i].retryCount < MaxRetries
      <4>1. job'[i] = PutBack(job[i])
        BY <1>2, <2>2, <3>1, <3>2 DEF FailTask
      <4>2. job'[i].status = "pending" /\ job'[i].retryCount = job[i].retryCount + 1
        BY <1>1, <4>1, PutBackRow
      <4>3. QED BY <1>1, <3>1, <4>2 DEF Paid, IsRunning
    <3>3. CASE ~(retry /\ job[i].retryCount < MaxRetries)
      <4>1. job'[i] = SetStatus(job[i], "failed")
        BY <1>2, <2>2, <3>1, <3>3 DEF FailTask
      <4>2. job'[i].status = "failed" /\ job'[i].retryCount = job[i].retryCount
        BY <1>1, <4>1, SetStatusRow DEF Status, Terminal
      <4>3. i \notin gaveUp' => retry
        BY <1>2, <3>1 DEF FailTask
      <4>4. i \notin gaveUp' => claims[i] > MaxRetries
        BY <1>1, <3>1, <3>3, <4>3, TableAssumption DEF Paid, TableAssumption
      <4>5. QED BY <1>1, <3>1, <4>2, <4>4 DEF Paid, IsRunning
    <3>4. QED BY <3>2, <3>3
  <2>3. QED BY <2>1, <2>2
<1>3. CASE CompleteTask(j)
  <2>1. CASE i # j
    BY <1>1, <1>3, <2>1, PaidStill DEF CompleteTask
  <2>2. CASE i = j
    <3>1. job'[i] = SetStatus(job[i], "completed")
      BY <1>3, <2>2 DEF CompleteTask, Exists, IsRunning
    <3>2. job'[i].status = "completed" /\ job'[i].retryCount = job[i].retryCount
      BY <1>1, <3>1, SetStatusRow DEF Status, Terminal
    <3>3. QED BY <1>1, <1>3, <3>2 DEF CompleteTask, Paid, IsRunning
  <2>3. QED BY <2>1, <2>2
<1>4. QED BY <1>2, <1>3 DEF Outcome

\* Every step keeps every row paid.
LEMMA PaidStep ==
    ASSUME CrashesOnly, IInv, HolderInv, AllPaid, [Next]_vars
    PROVE  AllPaid'
<1> SUFFICES ASSUME NEW i \in Jobs PROVE Paid(i)'
  BY DEF AllPaid
<1>1. TableTypeOK /\ active \in [Workers -> SUBSET Jobs]
  BY DEF IInv, TableInv, WorkerTypeOK
<1>2. CASE Tick
  <2>1. job'[i].status = job[i].status /\ job'[i].retryCount = job[i].retryCount
    BY <1>1, <1>2 DEF Tick, AgeHeartbeats, TableTypeOK, JobRow
  <2>2. QED BY <1>2, <2>1, PaidStill DEF Tick, AgeHeartbeats, AllPaid
<1>3. ASSUME NEW w \in Workers, NEW j \in Jobs, Execute(w, j) PROVE Paid(i)'
  <2>1. CASE UNCHANGED tableVars
    BY <1>1, <2>1, UpkeepPaid DEF Upkeep
  <2>2. CASE ~UNCHANGED tableVars
    <3>1. IsRunning(j) /\ Outcome(j)
      BY <1>3, <2>2, OutcomeReleases DEF HolderInv, Holds, Outcome
    <3>2. QED BY <1>1, <3>1, OutcomePaid
  <2>3. QED BY <2>1, <2>2
<1>4. CASE ~Tick /\ \A w \in Workers, j \in Jobs : ~Execute(w, j)
  BY <1>1, <1>4, RestIsUpkeep, UpkeepPaid
<1>5. QED BY <1>2, <1>3, <1>4

(* If nothing worse than crashes happens and every job finds a slot, a job   *)
(* that no NonRetryableError ended fails for good only after max_retries + 1 *)
(* starts, whatever recoveries came between.                                 *)
THEOREM FailedOnlyAfterRetriesHolds ==
    ASSUME CrashesOnly
    PROVE  Spec => []FailedOnlyAfterRetries
<1>1. Init => AllPaid
  BY DEF Init, TableInit, AllPaid, Paid, IsRunning
<1>2. IInv /\ HolderInv /\ AllPaid /\ [Next]_vars => AllPaid'
  BY PaidStep
<1>3. AllPaid => FailedOnlyAfterRetries
  BY DEF AllPaid, Paid, FailedOnlyAfterRetries
<1>4. Spec => []HolderInv
  BY OneHolder
<1>5. QED BY <1>1, <1>2, <1>3, <1>4, Inductive, PTL DEF Spec

-----------------------------------------------------------------------------
(* The strict lifecycle, step by step.                                       *)

\* A step that keeps the status and brings no holder is a Release.
LEMMA SameForStrict ==
    ASSUME NEW i \in Jobs, AbstractStatus'[i] = AbstractStatus[i],
           \A w \in Workers : pc'[w][i] \in Unsettled => pc[w][i] \in Unsettled
    PROVE  Strict!StrictStep(i)
  BY DEF Strict!StrictStep, Strict!Release, Strict!LetsGo

\* What is done to a row while executions stay where they are.
LEMMA UpkeepStrict ==
    ASSUME CrashesOnly, IInv, AttendedInv, HolderInv, Upkeep, UNCHANGED pc, NEW i \in Jobs
    PROVE  Strict!StrictStep(i) \/ (ClaimTask(i) /\ AbstractStatus'[i] = "running")
<1> USE DEF IInv, TableInv, TableTypeOK, WorkerTypeOK
<1>1. job[i] \in JobRow /\ Strict!Keeps(i)
  BY DEF Strict!Keeps
<1>2. ASSUME job'[i].status = job[i].status PROVE Strict!StrictStep(i)
  BY <1>2, SameForStrict DEF AbstractStatus, IsQueued
<1>3. ASSUME NEW j \in Jobs, NEW scheduled \in BOOLEAN, CreateTask(j, scheduled), i = j
      PROVE  Strict!StrictStep(i)
  <2>1. AbstractStatus[i] = "absent" /\ AbstractStatus'[i] = "queued"
    BY <1>3 DEF CreateTask, JobRow, AbstractStatus, IsQueued, Queued
  <2>2. QED BY <1>1, <2>1 DEF Strict!StrictStep, Strict!Submit, Strict!Moves
<1>4. ASSUME CancelTask(i) PROVE Strict!StrictStep(i)
  <2>1. job'[i] = SetStatus(job[i], "cancelled") /\ "cancelled" \in Status \ Queued
    BY <1>4 DEF CancelTask, Status, Terminal, Queued
  <2>2. AbstractStatus[i] = "queued" /\ AbstractStatus'[i] = "cancelled"
    BY <1>4, <2>1, SetStatusMoves DEF CancelTask, AbstractStatus
  <2>3. QED BY <1>1, <2>2 DEF Strict!StrictStep, Strict!Revoke, Strict!Moves
<1>5. ASSUME ClaimTask(i) PROVE AbstractStatus'[i] = "running"
  <2>1. job'[i] = SetStatus(job[i], "running") /\ "running" \in Status \ Queued
    BY <1>5 DEF ClaimTask, Status, Queued
  <2>2. QED BY <2>1, SetStatusMoves
<1>6. ASSUME NEW js \in SUBSET Jobs, CleanupOldJobs(js), i \in js PROVE Strict!StrictStep(i)
  <2>1. job'[i] = SetStatus(job[i], "deleted") /\ "deleted" \in Status \ Queued
    BY <1>6 DEF CleanupOldJobs, Status, Queued
  <2>2. AbstractStatus[i] \in Strict!Final /\ AbstractStatus'[i] = "deleted"
    BY <1>6, <2>1, SetStatusMoves
       DEF CleanupOldJobs, AbstractStatus, IsTerminal, IsQueued, Terminal, Queued, Strict!Final
  <2>3. QED BY <1>1, <2>2 DEF Strict!StrictStep, Strict!Purge, Strict!Moves
<1>7. ASSUME NEW js \in SUBSET Jobs, NEW limit \in {StaleAfter, StartStaleAfter},
             RequeueStaleRunning(js, limit), i \in js
      PROVE  Strict!StrictStep(i)
  <2>1. job'[i] = PutBack(job[i]) /\ IsRunning(i)
    BY <1>7 DEF RequeueStaleRunning, Stale
  <2>2. AbstractStatus[i] = "running" /\ AbstractStatus'[i] = "queued"
    BY <2>1, PutBackMoves DEF AbstractStatus, IsRunning, IsQueued, Queued
  <2>3. {w \in Workers : pc[w][i] \in Unsettled} = {}
    BY <1>7, HeldNotTaken
  <2>4. QED BY <1>1, <2>2, <2>3 DEF Strict!StrictStep, Strict!Recover, Strict!Moves
<1>8. ASSUME NEW j \in Jobs, FallDue(j) PROVE job'[i].status = job[i].status
  BY <1>1, <1>8 DEF FallDue, JobRow
<1>9. ASSUME NEW js \in SUBSET Jobs, UpdateHeartbeats(js) PROVE job'[i].status = job[i].status
  BY <1>1, <1>9 DEF UpdateHeartbeats, JobRow
<1>10. ASSUME job'[i] = job[i] PROVE Strict!StrictStep(i)
  BY <1>2, <1>10
<1>11. ASSUME NEW j \in Jobs,
              \/ \E scheduled \in BOOLEAN : CreateTask(j, scheduled)
              \/ FallDue(j) \/ CancelTask(j) \/ ClaimTask(j)
       PROVE  Strict!StrictStep(i) \/ (ClaimTask(i) /\ AbstractStatus'[i] = "running")
  <2>1. CASE i = j
    BY <1>2, <1>3, <1>4, <1>5, <1>8, <1>11, <2>1
  <2>2. CASE i # j
    BY <1>10, <1>11, <2>2 DEF CreateTask, FallDue, CancelTask, ClaimTask
  <2>3. QED BY <2>1, <2>2
<1>12. ASSUME NEW js \in SUBSET Jobs,
              \/ CleanupOldJobs(js) \/ UpdateHeartbeats(js)
              \/ \E limit \in {StaleAfter, StartStaleAfter} : RequeueStaleRunning(js, limit)
       PROVE  Strict!StrictStep(i)
  <2>1. CASE i \in js
    BY <1>2, <1>6, <1>7, <1>9, <1>12, <2>1
  <2>2. CASE i \notin js
    BY <1>2, <1>9, <1>10, <1>12, <2>2 DEF CleanupOldJobs, RequeueStaleRunning
  <2>3. QED BY <2>1, <2>2
<1>13. QED BY <1>10, <1>11, <1>12 DEF Upkeep, tableVars

\* A queued row has no holder, and claim_task gives it the claimant or nobody.
LEMMA ClaimStrict ==
    ASSUME IInv, HolderInv, NEW i \in Jobs, ClaimTask(i), AbstractStatus'[i] = "running",
           UNCHANGED pc \/ \E w \in Workers : pc[w][i] = "idle" /\ Goto(w, i, "waiting")
    PROVE  Strict!StrictStep(i)
<1> USE DEF IInv, WorkerTypeOK
<1>1. AbstractStatus[i] = "queued"
  BY DEF ClaimTask, AbstractStatus
<1>2. \A w \in Workers : pc[w][i] \notin Unsettled
  BY DEF ClaimTask, HolderInv, Holds, IsQueued, Queued, IsRunning
<1>3. CASE UNCHANGED pc
  BY <1>1, <1>2, <1>3
     DEF Strict!StrictStep, Strict!Claim, Strict!Moves, Strict!Keeps
<1>4. ASSUME NEW w \in Workers, Goto(w, i, "waiting") PROVE Strict!StrictStep(i)
  <2>1. pc'[w][i] \in Unsettled /\ \A v \in Workers \ {w} : pc'[v][i] \notin Unsettled
    BY <1>2, <1>4, GotoMoves DEF Unsettled
  <2>2. /\ {v \in Workers : pc[v][i] \in Unsettled} = {}
        /\ {v \in Workers : pc'[v][i] \in Unsettled} = {} \union {w}
    BY <1>2, <2>1
  <2>3. QED
    BY <1>1, <2>2 DEF Strict!StrictStep, Strict!Claim, Strict!Moves
<1>5. QED BY <1>3, <1>4

\* The execution that holds a running row settles it, and nobody holds it then.
LEMMA OutcomeStrict ==
    ASSUME CrashesOnly, IInv, HolderInv, NEW w \in Workers, NEW j \in Jobs, Execute(w, j),
           ~UNCHANGED tableVars
    PROVE  Strict!StrictStep(j)
<1> USE DEF IInv, TableInv, TableTypeOK, WorkerTypeOK
<1>1. pc[w][j] \in Unsettled /\ pc'[w][j] \notin Unsettled /\ Outcome(j)
  BY OutcomeReleases DEF Outcome
<1>2. IsRunning(j) /\ AbstractStatus[j] = "running"
  BY <1>1 DEF HolderInv, Holds, IsRunning, AbstractStatus, IsQueued, Queued
<1>3. \E place \in PCs : Goto(w, j, place)
  BY DEF Execute, Acquire, BodyReturns, BodyRaises, BodyTimesOut, TimeoutFails, Complete,
         Publish, Settle, Unwind, Finish, PCs
<1>4. \A v \in Workers : v # w => pc[v][j] \notin Unsettled /\ pc'[v][j] = pc[v][j]
  BY <1>1, <1>3, GotoMoves DEF HolderInv, Alone
<1>5. {v \in Workers : pc[v][j] \in Unsettled} # {} /\ {v \in Workers : pc'[v][j] \in Unsettled} = {}
  BY <1>1, <1>4
<1>6. \/ job'[j] = SetStatus(job[j], "completed")
      \/ job'[j] = SetStatus(job[j], "failed")
      \/ job'[j] = PutBack(job[j])
  BY <1>1, <1>2 DEF Outcome, CompleteTask, FailTask, Exists, IsRunning
<1>7. {"completed", "failed"} \subseteq Status \ Queued
  BY DEF Status, Terminal, Queued
<1>8. AbstractStatus'[j] \in {"queued", "completed", "failed"}
  BY <1>6, <1>7, SetStatusMoves, PutBackMoves
<1>9. "running" \in Strict!Statuses \ {"absent", "deleted"}
  BY DEF Strict!Statuses
<1>10. QED
  BY <1>2, <1>5, <1>8, <1>9
     DEF Strict!StrictStep, Strict!Settle, Strict!Moves, Strict!LetsGo

\* Every step of the system is, for every job, a step of the strict lifecycle.
LEMMA StrictStepHolds ==
    ASSUME CrashesOnly, IInv, AttendedInv, HolderInv, [Next]_vars, NEW i \in Jobs
    PROVE  Strict!StrictStep(i)
<1> USE DEF IInv, TableInv, TableTypeOK, WorkerTypeOK
<1>1. ASSUME ~(\E w \in Workers : Claim(w, i)), AbstractStatus'[i] = AbstractStatus[i]
      PROVE  Strict!StrictStep(i)
  BY <1>1, HolderIsNew, SameForStrict
<1>2. CASE Tick
  <2>1. job'[i].status = job[i].status
    BY <1>2 DEF Tick, AgeHeartbeats, JobRow
  <2>2. UNCHANGED pc
    BY <1>2 DEF Tick
  <2>3. QED BY <2>1, <2>2, SameForStrict DEF AbstractStatus, IsQueued
<1>3. ASSUME NEW w \in Workers, NEW j \in Jobs, Execute(w, j) PROVE Strict!StrictStep(i)
  <2>1. UNCHANGED tableVars \/ Outcome(j)
    BY <1>3, ExecutionWrites
  <2>2. claims' = claims
    BY <2>1 DEF tableVars, Outcome, CompleteTask, FailTask
  <2>3. ~(\E x \in Workers : Claim(x, i))
    BY <2>2 DEF Claim, ClaimTask
  <2>4. CASE UNCHANGED tableVars \/ i # j
    <3>1. job'[i] = job[i]
      BY <2>1, <2>4 DEF tableVars, Outcome, CompleteTask, FailTask
    <3>2. QED BY <1>1, <2>3, <3>1 DEF AbstractStatus, IsQueued
  <2>5. CASE ~UNCHANGED tableVars /\ i = j
    BY <1>3, <2>5, OutcomeStrict
  <2>6. QED BY <2>4, <2>5
<1>4. ASSUME NEW w \in Workers, NEW j \in Jobs, Claim(w, j) PROVE Strict!StrictStep(i)
  <2>1. CASE i # j
    <3>1. pc' = [pc EXCEPT ![w][j] = "waiting"] /\ job'[i] = job[i]
      BY <1>4, <2>1 DEF Claim, ClaimTask, Goto
    <3>2. \A v \in Workers : pc'[v][i] = pc[v][i]
      BY <1>4, <2>1, GotoMoves DEF Claim
    <3>3. QED BY <3>1, <3>2, SameForStrict DEF AbstractStatus, IsQueued
  <2>2. CASE i = j
    <3>1. job'[i] = SetStatus(job[i], "running") /\ "running" \in Status \ Queued
      BY <1>4, <2>2 DEF Claim, ClaimTask, Status, Queued
    <3>2. AbstractStatus'[i] = "running"
      BY <3>1, SetStatusMoves
    <3>3. QED BY <1>4, <2>2, <3>2, ClaimStrict DEF Claim
  <2>3. QED BY <2>1, <2>2
<1>5. ASSUME NEW w \in Workers, CancelRunning(w) \/ Crash(w) PROVE Strict!StrictStep(i)
  <2>1. Crash(w)
    BY <1>5 DEF CancelRunning, HolderInv, Calm
  <2>2. job'[i] = job[i] /\ \A v \in Workers : pc'[v][i] \in Unsettled => pc[v][i] \in Unsettled
    BY <2>1 DEF Crash, tableVars, Unsettled
  <2>3. QED BY <2>2, SameForStrict DEF AbstractStatus, IsQueued
<1>6. CASE /\ ~Tick
           /\ \A w \in Workers, j \in Jobs : ~Execute(w, j) /\ ~Claim(w, j)
           /\ \A w \in Workers : ~CancelRunning(w) /\ ~Crash(w)
  <2>1. UNCHANGED pc
    BY <1>6
       DEF Next, vars, workerVars, Cleanup, Client, Create, TimeArrives, Cancel, Loop, Start,
           Poll, LoopError, Requeue, Skip, Heartbeat, BeatNothing, Beat, BeatFails, Shutdown,
           BeginCleanup, Stop, ClaimInterrupted
  <2>2. Upkeep
    BY <1>6, RestIsUpkeep
  <2>3. QED BY <2>1, <2>2, UpkeepStrict, ClaimStrict
<1>7. QED BY <1>2, <1>3, <1>4, <1>5, <1>6

(* If nothing worse than crashes happens and every job finds a slot, the     *)
(* table and the workers implement the strict lifecycle: a job has one       *)
(* executor at a time, which alone settles it, once, and stale recovery      *)
(* takes only jobs that nobody executes.                                     *)
THEOREM ImplementsStrictLifecycleHolds ==
    ASSUME CrashesOnly
    PROVE  Spec => ImplementsStrictLifecycle
<1>1. Init => Strict!Init
  BY DEF Init, TableInit, Strict!Init, AbstractStatus, IsQueued, Queued, Unsettled
<1>2. IInv /\ AttendedInv /\ HolderInv /\ [Next]_vars => \A j \in Jobs : Strict!StrictStep(j)
  BY StrictStepHolds
<1>3. EverySlot
  BY DEF CrashesOnly
<1>4. (Spec => []AttendedInv) /\ (Spec => []HolderInv)
  BY <1>3, Attends, OneHolder
<1>5. QED
  BY <1>1, <1>2, <1>4, Inductive, PTL DEF Spec, ImplementsStrictLifecycle, Strict!StrictSpec

(* What the strict lifecycle is worth, whatever implements it: a job has at  *)
(* most one holder, only while it runs, and so never leaves a terminal       *)
(* status but by clean-up (the promise claim_task and the settling           *)
(* statements are meant to keep).                                            *)
StrictHeld(j) == {w \in Workers : pc[w][j] \in Unsettled}

Exclusive ==
    \A j \in Jobs :
        /\ StrictHeld(j) # {} => AbstractStatus[j] = "running"
        /\ \A v, w \in StrictHeld(j) : v = w

FinalIsFinal ==
    [][\A j \in Jobs :
          AbstractStatus[j] \in Strict!Final
              => AbstractStatus'[j] \in {AbstractStatus[j], "deleted"}]_vars

\* Each step of the strict lifecycle keeps a job's holder alone.
LEMMA StrictStepExclusive ==
    ASSUME Exclusive, NEW j \in Jobs, Strict!StrictStep(j)
    PROVE  /\ StrictHeld(j)' # {} => AbstractStatus'[j] = "running"
           /\ \A v, w \in StrictHeld(j)' : v = w
           /\ AbstractStatus[j] \in Strict!Final
                  => AbstractStatus'[j] \in {AbstractStatus[j], "deleted"}
<1> DEFINE before == AbstractStatus[j]
           after  == AbstractStatus'[j]
<1>1. /\ StrictHeld(j) # {} => before = "running"
      /\ \A v, w \in StrictHeld(j) : v = w
  BY DEF Exclusive
<1>2. /\ Strict!Keeps(j) <=> StrictHeld(j)' = StrictHeld(j)
      /\ Strict!LetsGo(j) <=> StrictHeld(j)' \subseteq StrictHeld(j)
  BY DEF Strict!Keeps, Strict!LetsGo, StrictHeld
<1>3. CASE Strict!Submit(j) \/ Strict!Revoke(j) \/ Strict!Purge(j)
  BY <1>1, <1>2, <1>3 DEF Strict!Submit, Strict!Revoke, Strict!Purge, Strict!Moves, Strict!Final
<1>4. CASE Strict!Claim(j) /\ StrictHeld(j) = {}
  <2>1. before = "queued" /\ after = "running"
    BY <1>4 DEF Strict!Claim, Strict!Moves
  <2>2. \/ StrictHeld(j)' = {}
        \/ \E w \in Workers : StrictHeld(j)' = {w}
    BY <1>2, <1>4 DEF Strict!Claim, StrictHeld
  <2>3. QED BY <2>1, <2>2 DEF Strict!Final
<1>5. CASE Strict!Recover(j) /\ StrictHeld(j) = {}
  BY <1>2, <1>5 DEF Strict!Recover, Strict!Moves, Strict!Final
<1>6. CASE Strict!Settle(j) /\ before = "running" /\ StrictHeld(j)' = {}
  BY <1>6 DEF Strict!Final
<1>7. CASE Strict!Release(j)
  BY <1>1, <1>2, <1>7 DEF Strict!Release
<1>8. QED
  <2>1. {w \in Workers : pc[w][j] \in Unsettled}' = StrictHeld(j)'
    BY DEF StrictHeld
  <2>2. QED BY <1>3, <1>4, <1>5, <1>6, <1>7, <2>1 DEF Strict!StrictStep, StrictHeld

(* The strict lifecycle gives each job one holder at a time, which lets go   *)
(* with the outcome, and a terminal status that only clean-up ends; so do    *)
(* the table and the workers wherever they implement it.                     *)
THEOREM StrictLifecycleIsExclusive ==
    Strict!StrictSpec => []Exclusive /\ FinalIsFinal
<1> DEFINE Map  == <<AbstractStatus, [j \in Jobs |-> {w \in Workers : pc[w][j] \in Unsettled}]>>
           Step == \A j \in Jobs : Strict!StrictStep(j)
           Ends == \A j \in Jobs : AbstractStatus[j] \in Strict!Final
                      => AbstractStatus'[j] \in {AbstractStatus[j], "deleted"}
<1>1. Strict!Init => Exclusive
  BY DEF Strict!Init, Exclusive, StrictHeld
<1>2. Exclusive /\ Step => Exclusive' /\ Ends
  BY StrictStepExclusive DEF Exclusive
<1>3. UNCHANGED Map => \A j \in Jobs : StrictHeld(j)' = StrictHeld(j)
  BY DEF StrictHeld
<1>4. Exclusive /\ UNCHANGED Map => Exclusive' /\ Ends
  BY <1>3 DEF Exclusive
<1>5. Exclusive /\ [Step]_Map => Exclusive' /\ [Ends]_vars
  BY <1>2, <1>4
<1>6. QED BY <1>1, <1>5, PTL DEF Strict!StrictSpec, FinalIsFinal
-----------------------------------------------------------------------------
(* What the executions of a job may still do to its row.                     *)
(*                                                                          *)
(* Neither OverlapOnlyAfterRecovery nor FailedOnlyWhenSpent is inductive:    *)
(* an execution past its job function, or whose status failed to be          *)
(* published, still puts the row back.  Writers counts all of those; Early,  *)
(* those that would write twice if their job timed out.  Both counts are     *)
(* finite although the workers need not be.                                  *)

Writers(j) == {w \in Workers : pc[w][j] \in Undone}
Early(j)   == {w \in Workers : pc[w][j] \in {"waiting", "body", "timedout"}}

\* Without timeouts nobody is on the way from one.
Punctual == "timeout" \notin Faults => InTime

\* The attempts paid for, by a claim or a recovery, cover the retries spent and those to come.
Covered(j) ==
    /\ IsFiniteSet(Writers(j))
    /\ job[j].retryCount + Cardinality(Writers(j))
         + (IF "timeout" \in Faults THEN Cardinality(Early(j)) ELSE 0)
           <= SpentByAttempt * claims[j] + requeues[j]
    /\ job[j].status = "failed" /\ j \notin gaveUp
         => SpentByAttempt * claims[j] + requeues[j] > MaxRetries

\* A row that is claimed has one writer, and one more for each recovery.
Crowded(j) ==
    /\ IsFiniteSet(Writers(j))
    /\ Cardinality(Writers(j)) <= requeues[j] + (IF Unclaimed(j) THEN 0 ELSE 1)

\* A part of a finite set.
LEMMA FewerOf ==
    ASSUME NEW S, IsFiniteSet(S), NEW T, T \subseteq S
    PROVE  /\ IsFiniteSet(T) /\ Cardinality(S) \in Nat /\ Cardinality(T) \in Nat
           /\ Cardinality(T) <= Cardinality(S)
  BY FS_Subset, FS_CardinalityType

\* At most one member more.
LEMMA OneMore ==
    ASSUME NEW S, IsFiniteSet(S), NEW x, NEW T, T \subseteq S \union {x}
    PROVE  /\ IsFiniteSet(T) /\ Cardinality(S) \in Nat /\ Cardinality(T) \in Nat
           /\ Cardinality(T) <= Cardinality(S) + 1
<1>1. /\ IsFiniteSet(S \union {x}) /\ Cardinality(S) \in Nat
      /\ Cardinality(S \union {x}) \in {Cardinality(S), Cardinality(S) + 1}
  BY FS_AddElement, FS_CardinalityType
<1>2. QED BY <1>1, FewerOf

\* At least one member less.
LEMMA OneLess ==
    ASSUME NEW S, IsFiniteSet(S), NEW x \in S, NEW T, T \subseteq S \ {x}
    PROVE  /\ IsFiniteSet(T) /\ Cardinality(S) \in Nat /\ Cardinality(T) \in Nat
           /\ Cardinality(T) <= Cardinality(S) - 1
<1>1. /\ IsFiniteSet(S \ {x}) /\ Cardinality(S) \in Nat
      /\ Cardinality(S \ {x}) = Cardinality(S) - 1
  BY FS_RemoveElement, FS_CardinalityType
<1>2. QED BY <1>1, FewerOf

-----------------------------------------------------------------------------
(* What a statement does to the accounts of one row.                         *)

\* The counts stand, the row has not been put back, and has not failed.
Steady(i) ==
    /\ job'[i].retryCount = job[i].retryCount
    /\ claims'[i] = claims[i] /\ requeues'[i] = requeues[i] /\ gaveUp \subseteq gaveUp'
    /\ Unclaimed(i)' => Unclaimed(i)
    /\ job'[i].status = "failed" => job[i].status = "failed"

\* Stale recovery spends a retry that it pays for.
Recovered(i) ==
    /\ job'[i].retryCount = job[i].retryCount + 1 /\ job'[i].status = "pending"
    /\ claims'[i] = claims[i] /\ requeues'[i] = requeues[i] + 1 /\ ~Unclaimed(i)

\* fail_task spends a retry, or ends the row: for want of one, or for good.
Failed(i) ==
    /\ claims'[i] = claims[i] /\ requeues'[i] = requeues[i] /\ gaveUp \subseteq gaveUp'
    /\ \/ job'[i].retryCount = job[i].retryCount + 1 /\ job'[i].status = "pending"
       \/ /\ job'[i].retryCount = job[i].retryCount /\ job'[i].status = "failed"
          /\ i \notin gaveUp' => job[i].retryCount >= MaxRetries

\* A row that stays as it is.
LEMMA SameIsSteady ==
    ASSUME NEW i \in Jobs, job'[i] = job[i], claims'[i] = claims[i], requeues'[i] = requeues[i],
           gaveUp \subseteq gaveUp'
    PROVE  Steady(i)
  BY DEF Steady, Unclaimed

\* Clients, the clock, heartbeats and recovery.
LEMMA UpkeepAccounts ==
    ASSUME TableTypeOK, Upkeep, NEW i \in Jobs
    PROVE  Steady(i) \/ ClaimTask(i) \/ Recovered(i)
<1> USE DEF TableTypeOK
<1>1. job[i] \in JobRow
  OBVIOUS
<1>2. CASE UNCHANGED tableVars
  BY <1>2, SameIsSteady DEF tableVars
<1>3. ASSUME NEW j \in Jobs,
             \/ FallDue(j) \/ CancelTask(j) \/ ClaimTask(j)
             \/ \E scheduled \in BOOLEAN : CreateTask(j, scheduled)
      PROVE  Steady(i) \/ ClaimTask(i)
  <2>1. CASE i # j
    BY <1>3, <2>1, SameIsSteady DEF FallDue, CancelTask, ClaimTask, CreateTask
  <2>2. CASE i = j /\ FallDue(j)
    <3>1. job'[i].status = job[i].status /\ job'[i].retryCount = job[i].retryCount
      BY <1>1, <2>2 DEF FallDue, JobRow
    <3>2. QED BY <2>2, <3>1 DEF FallDue, Steady, Unclaimed
  <2>3. CASE i = j /\ CancelTask(j)
    <3>1. job'[i] = SetStatus(job[i], "cancelled")
      BY <2>3 DEF CancelTask
    <3>2. job'[i].status = "cancelled" /\ job'[i].retryCount = job[i].retryCount
      BY <1>1, <3>1, SetStatusRow DEF Status, Terminal
    <3>3. QED BY <2>3, <3>2 DEF CancelTask, Steady, Unclaimed, Queued
  <2>4. ASSUME NEW scheduled \in BOOLEAN, CreateTask(j, scheduled), i = j PROVE Steady(i)
    <3>1. job'[i].status \in Queued /\ job'[i].retryCount = job[i].retryCount
      BY <1>1, <2>4 DEF CreateTask, JobRow, Queued
    <3>2. QED BY <2>4, <3>1 DEF CreateTask, Steady, Unclaimed, Queued
  <2>5. QED BY <1>3, <2>1, <2>2, <2>3, <2>4
<1>4. ASSUME NEW js \in SUBSET Jobs, CleanupOldJobs(js) PROVE Steady(i)
  <2>1. CASE i \notin js
    BY <1>4, <2>1, SameIsSteady DEF CleanupOldJobs
  <2>2. CASE i \in js
    <3>1. job'[i] = SetStatus(job[i], "deleted")
      BY <1>4, <2>2 DEF CleanupOldJobs
    <3>2. job'[i].status = "deleted" /\ job'[i].retryCount = job[i].retryCount
      BY <1>1, <3>1, SetStatusRow DEF Status
    <3>3. QED BY <1>4, <3>2 DEF CleanupOldJobs, Steady, Unclaimed, Queued
  <2>3. QED BY <2>1, <2>2
<1>5. ASSUME NEW js \in SUBSET Jobs, UpdateHeartbeats(js) PROVE Steady(i)
  <2>1. job'[i].status = job[i].status /\ job'[i].retryCount = job[i].retryCount
    BY <1>1, <1>5 DEF UpdateHeartbeats, JobRow
  <2>2. QED BY <1>5, <2>1 DEF UpdateHeartbeats, Steady, Unclaimed
<1>6. ASSUME NEW js \in SUBSET Jobs, NEW limit, RequeueStaleRunning(js, limit)
      PROVE  Steady(i) \/ Recovered(i)
  <2>1. CASE i \notin js
    BY <1>6, <2>1, SameIsSteady DEF RequeueStaleRunning
  <2>2. CASE i \in js
    <3>1. /\ job'[i] = PutBack(job[i]) /\ IsRunning(i)
          /\ claims' = claims /\ requeues'[i] = requeues[i] + 1
      BY <1>6, <2>2 DEF RequeueStaleRunning, Stale
    <3>2. job'[i].status = "pending" /\ job'[i].retryCount = job[i].retryCount + 1
      BY <1>1, <3>1, PutBackRow
    <3>3. QED BY <3>1, <3>2 DEF Recovered, Unclaimed, IsRunning, Queued
  <2>3. QED BY <2>1, <2>2
<1>7. QED BY <1>2, <1>3, <1>4, <1>5, <1>6 DEF Upkeep

\* fail_task and complete_task.
LEMMA OutcomeAccounts ==
    ASSUME TableTypeOK, NEW i \in Jobs
    PROVE  /\ CompleteTask(i) => Steady(i)
           /\ \A retry \in BOOLEAN : FailTask(i, retry) => Steady(i) \/ Failed(i)
<1> USE DEF TableTypeOK
<1>1. job[i] \in JobRow /\ job[i].retryCount \in Nat
  BY DEF JobRow
<1>2. ASSUME CompleteTask(i) PROVE Steady(i)
  <2>1. CASE ~Exists(i)
    BY <1>2, <2>1, SameIsSteady DEF CompleteTask
  <2>2. CASE Exists(i)
    <3>1. job'[i] = SetStatus(job[i], "completed")
      BY <1>2, <2>2 DEF CompleteTask
    <3>2. job'[i].status = "completed" /\ job'[i].retryCount = job[i].retryCount
      BY <1>1, <3>1, SetStatusRow DEF Status, Terminal
    <3>3. QED BY <1>2, <3>2 DEF CompleteTask, Steady, Unclaimed, Queued
  <2>3. QED BY <2>1, <2>2
<1>3. ASSUME NEW retry \in BOOLEAN, FailTask(i, retry) PROVE Steady(i) \/ Failed(i)
  <2>1. claims' = claims /\ requeues' = requeues /\ gaveUp \subseteq gaveUp'
    BY <1>3 DEF FailTask
  <2>2. CASE ~Exists(i)
    BY <1>3, <2>1, <2>2, SameIsSteady DEF FailTask
  <2>3. CASE Exists(i) /\ retry /\ job[i].retryCount < MaxRetries
    <3>1. job'[i] = PutBack(job[i])
      BY <1>3, <2>3 DEF FailTask
    <3>2. job'[i].status = "pending" /\ job'[i].retryCount = job[i].retryCount + 1
      BY <1>1, <3>1, PutBackRow
    <3>3. QED BY <2>1, <3>2 DEF Failed
  <2>4. CASE Exists(i) /\ ~(retry /\ job[i].retryCount < MaxRetries)
    <3>1. job'[i] = SetStatus(job[i], "failed")
      BY <1>3, <2>4 DEF FailTask
    <3>2. job'[i].status = "failed" /\ job'[i].retryCount = job[i].retryCount
      BY <1>1, <3>1, SetStatusRow DEF Status, Terminal
    <3>3. i \notin gaveUp' => job[i].retryCount >= MaxRetries
      BY <1>1, <1>3, <2>4, TableAssumption DEF FailTask, TableAssumption
    <3>4. QED BY <2>1, <3>2, <3>3 DEF Failed
  <2>5. QED BY <2>2, <2>3, <2>4
<1>4. QED BY <1>2, <1>3

-----------------------------------------------------------------------------
(* Who comes to write a row and who is done with it.                         *)

\* An execution begins with the claim; nothing brings one back to an earlier place.
LEMMA OnlyClaimsJoin ==
    ASSUME WorkerTypeOK, [Next]_vars, NEW i \in Jobs, \A w \in Workers : ~Claim(w, i)
    PROVE  Writers(i)' \subseteq Writers(i) /\ Early(i)' \subseteq Early(i)
<1> USE DEF WorkerTypeOK
<1> DEFINE Past == {"waiting", "body", "timedout"}
<1> SUFFICES ASSUME NEW v \in Workers
             PROVE  /\ pc'[v][i] \in Undone => pc[v][i] \in Undone
                    /\ pc'[v][i] \in Past => pc[v][i] \in Past
  BY DEF Writers, Early
<1>1. CASE pc'[v][i] = pc[v][i]
  BY <1>1
<1>2. ASSUME NEW w \in Workers, NEW j \in Jobs, Execute(w, j), pc'[v][i] # pc[v][i]
      PROVE  /\ pc'[v][i] \in Undone => pc[v][i] \in Undone
             /\ pc'[v][i] \in Past => pc[v][i] \in Past
  <2>1. v = w /\ i = j
    <3>1. \E place \in PCs : Goto(w, j, place)
      BY <1>2
         DEF Execute, Acquire, BodyReturns, BodyRaises, BodyTimesOut, TimeoutFails, Complete,
             Publish, Settle, Unwind, Finish, PCs
    <3>2. QED BY <1>2, <3>1, GotoMoves
  <2>2. CASE Unwind(w, j) \/ Finish(w, j)
    <3>1. pc'[v][i] \in {"flushing", "idle"}
      BY <2>1, <2>2, GotoMoves DEF Unwind, Finish
    <3>2. QED BY <3>1 DEF Undone, Unsettled
  <2>3. CASE ~(Unwind(w, j) \/ Finish(w, j))
    <3>1. pc[v][i] \in Undone
      BY <1>2, <2>1, <2>3
         DEF Execute, Acquire, BodyReturns, BodyRaises, BodyTimesOut, TimeoutFails, Complete,
             Publish, Settle, At, Undone, Unsettled
    <3>2. CASE Acquire(w, j) \/ BodyTimesOut(w, j)
      BY <2>1, <3>1, <3>2 DEF Acquire, BodyTimesOut, At
    <3>3. CASE ~(Acquire(w, j) \/ BodyTimesOut(w, j))
      <4>1. \E place \in {"completing", "failing", "failingPermanently", "publishing", "unwinding"} :
              Goto(w, j, place)
        BY <1>2, <2>3, <3>3
           DEF Execute, BodyReturns, BodyRaises, TimeoutFails, Complete, Publish, Settle
      <4>2. QED BY <2>1, <3>1, <4>1, GotoMoves
    <3>4. QED BY <3>2, <3>3
  <2>4. QED BY <2>2, <2>3
<1>3. ASSUME NEW w \in Workers, NEW j \in Jobs, Claim(w, j) PROVE pc'[v][i] = pc[v][i]
  <2>1. i # j /\ Goto(w, j, "waiting")
    BY <1>3 DEF Claim
  <2>2. QED BY <2>1, GotoMoves
<1>4. ASSUME NEW w \in Workers, CancelRunning(w), pc'[v][i] # pc[v][i]
      PROVE  /\ pc'[v][i] \in Undone => pc[v][i] \in Undone
             /\ pc'[v][i] \notin Past
  <2>1. pc'[v][i] = AfterCancel(pc[v][i])
    BY <1>4 DEF CancelRunning
  <2>2. QED BY <2>1 DEF AfterCancel, PCs, Undone, Unsettled
<1>5. ASSUME NEW w \in Workers, Crash(w), pc'[v][i] # pc[v][i] PROVE pc'[v][i] = "idle"
  BY <1>5 DEF Crash
<1>6. CASE ~UNCHANGED pc /\ pc'[v][i] # pc[v][i]
  <2>1. \/ \E w \in Workers, j \in Jobs : Execute(w, j) \/ Claim(w, j)
        \/ \E w \in Workers : CancelRunning(w) \/ Crash(w)
    BY <1>6
       DEF Next, vars, workerVars, Tick, Cleanup, Client, Create, TimeArrives, Cancel, Loop, Start,
           Poll, LoopError, Requeue, Skip, Heartbeat, BeatNothing, Beat, BeatFails, Shutdown,
           BeginCleanup, Stop, ClaimInterrupted
  <2>2. QED BY <1>2, <1>3, <1>4, <1>5, <1>6, <2>1 DEF Undone, Unsettled
<1>7. QED BY <1>1, <1>6

\* The claimant joins, and nobody else.
LEMMA ClaimantJoins ==
    ASSUME WorkerTypeOK, NEW i \in Jobs, NEW w \in Workers, Claim(w, i)
    PROVE  Writers(i)' \subseteq Writers(i) \union {w} /\ Early(i)' \subseteq Early(i) \union {w}
  BY GotoMoves DEF WorkerTypeOK, Claim, Writers, Early

\* Timeouts make executions unpunctual, and nothing else does.
LEMMA PunctualStep ==
    ASSUME WorkerTypeOK, Punctual, [Next]_vars
    PROVE  Punctual'
<1> SUFFICES ASSUME "timeout" \notin Faults, NEW v \in Workers, NEW i \in Jobs,
                    pc[v][i] # "timedout"
             PROVE  pc'[v][i] # "timedout"
  BY DEF Punctual, InTime
<1> USE DEF WorkerTypeOK
<1>1. ASSUME NEW w \in Workers, NEW j \in Jobs, Execute(w, j) PROVE pc'[v][i] # "timedout"
  <2>1. \E place \in PCs \ {"timedout"} : Goto(w, j, place)
    BY <1>1
       DEF Execute, Acquire, BodyReturns, BodyRaises, BodyTimesOut, TimeoutFails, Complete,
           Publish, Settle, Unwind, Finish, PCs
  <2>2. QED BY <2>1, GotoMoves
<1>2. ASSUME NEW w \in Workers, NEW j \in Jobs, Claim(w, j) PROVE pc'[v][i] # "timedout"
  BY <1>2, GotoMoves DEF Claim
<1>3. ASSUME NEW w \in Workers, CancelRunning(w) PROVE pc'[v][i] # "timedout"
  BY <1>3 DEF CancelRunning, AfterCancel
<1>4. ASSUME NEW w \in Workers, Crash(w) PROVE pc'[v][i] # "timedout"
  BY <1>4 DEF Crash
<1>5. CASE UNCHANGED pc
  BY <1>5
<1>6. QED
  BY <1>1, <1>2, <1>3, <1>4, <1>5
     DEF Next, vars, workerVars, Tick, Cleanup, Client, Create, TimeArrives, Cancel, Loop, Start,
         Poll, LoopError, Requeue, Skip, Heartbeat, BeatNothing, Beat, BeatFails, Shutdown,
         BeginCleanup, Stop, ClaimInterrupted

\* Seen from one row, a step is of one of these kinds.
Quiet(i)    == Steady(i) /\ Writers(i)' \subseteq Writers(i) /\ Early(i)' \subseteq Early(i)
Claimed(i)  ==
    /\ ClaimTask(i)
    /\ \E w \in Workers :
         Writers(i)' \subseteq Writers(i) \union {w} /\ Early(i)' \subseteq Early(i) \union {w}
Requeued(i) == Recovered(i) /\ Writers(i)' \subseteq Writers(i) /\ Early(i)' \subseteq Early(i)
Settled(i)  ==
    /\ Failed(i) /\ Early(i)' \subseteq Early(i)
    /\ \E w \in Writers(i) : Writers(i)' \subseteq Writers(i) \ {w}
TimedOut(i) ==
    /\ Failed(i) /\ Writers(i)' \subseteq Writers(i)
    /\ \E w \in Early(i) : pc[w][i] = "timedout" /\ Early(i)' \subseteq Early(i) \ {w}

\* Every step is: an execution that has put the row back, or failed it, is done with that.
LEMMA KindOfStep ==
    ASSUME IInv, [Next]_vars, NEW i \in Jobs
    PROVE  Quiet(i) \/ Claimed(i) \/ Requeued(i) \/ Settled(i) \/ TimedOut(i)
<1> USE DEF IInv, TableInv, WorkerTypeOK
<1>1. ASSUME NEW w \in Workers, Claim(w, i) PROVE Claimed(i)
  BY <1>1, ClaimantJoins DEF Claimed, Claim
<1>2. CASE \A w \in Workers : ~Claim(w, i)
  <2>1. Writers(i)' \subseteq Writers(i) /\ Early(i)' \subseteq Early(i)
    BY <1>2, OnlyClaimsJoin
  <2>2. CASE Steady(i) \/ Recovered(i)
    BY <2>1, <2>2 DEF Quiet, Requeued
  <2>3. CASE Tick
    <3>1. job'[i].status = job[i].status /\ job'[i].retryCount = job[i].retryCount
      BY <2>3 DEF Tick, AgeHeartbeats, TableTypeOK, JobRow
    <3>2. QED BY <2>2, <2>3, <3>1 DEF Tick, AgeHeartbeats, Steady, Unclaimed
  <2>4. ASSUME NEW w \in Workers, ClaimInterrupted(w, i)
        PROVE  Claimed(i)
    BY <2>1, <2>4 DEF ClaimInterrupted, Claimed
  <2>5. ASSUME NEW w \in Workers, NEW j \in Jobs, Execute(w, j)
        PROVE  Quiet(i) \/ Settled(i) \/ TimedOut(i)
    <3>1. CASE UNCHANGED tableVars
      BY <2>1, <3>1, SameIsSteady DEF tableVars, Quiet
    <3>2. CASE i # j /\ Outcome(j)
      <4>1. job'[i] = job[i] /\ claims'[i] = claims[i] /\ requeues'[i] = requeues[i] /\ gaveUp \subseteq gaveUp'
        BY <3>2 DEF Outcome, CompleteTask, FailTask, TableTypeOK
      <4>2. QED BY <2>1, <4>1, SameIsSteady DEF Quiet
    <3>3. CASE i = j /\ TimeoutFails(w, j) /\ ~UNCHANGED tableVars
      <4>1. FailTask(i, TRUE) /\ pc[w][i] = "timedout" /\ Goto(w, i, "failing")
        BY <3>3 DEF TimeoutFails, At
      <4>2. w \in Early(i) /\ w \notin Early(i)'
        BY <4>1, GotoMoves DEF Early
      <4>3. Steady(i) \/ Failed(i)
        BY <4>1, OutcomeAccounts
      <4>4. QED BY <2>1, <4>1, <4>2, <4>3 DEF Quiet, TimedOut
    <3>4. CASE i = j /\ Complete(w, j) /\ ~UNCHANGED tableVars
      BY <2>1, <3>4, OutcomeAccounts DEF Complete, Quiet
    <3>5. CASE i = j /\ Settle(w, j) /\ ~UNCHANGED tableVars
      <4>1. /\ \E retry \in BOOLEAN : FailTask(i, retry)
            /\ pc[w][i] \in {"failing", "failingPermanently", "cancelling"} /\ Goto(w, i, "unwinding")
        BY <3>5 DEF Settle, At
      <4>2. w \in Writers(i) /\ w \notin Writers(i)'
        BY <4>1, GotoMoves DEF Writers, Undone, Unsettled
      <4>3. Steady(i) \/ Failed(i)
        BY <4>1, OutcomeAccounts
      <4>4. QED BY <2>1, <4>2, <4>3 DEF Quiet, Settled
    <3>6. UNCHANGED tableVars \/ Outcome(j)
      BY <2>5, ExecutionWrites
    <3>7. UNCHANGED tableVars \/ TimeoutFails(w, j) \/ Complete(w, j) \/ Settle(w, j)
      BY <2>5
         DEF Execute, Acquire, BodyReturns, BodyRaises, BodyTimesOut, Publish, Unwind, Finish
    <3>8. QED BY <3>1, <3>2, <3>3, <3>4, <3>5, <3>6, <3>7
  <2>6. CASE ~Tick /\ \A w \in Workers, j \in Jobs : ~Execute(w, j)
    <3>1. Steady(i) \/ ClaimTask(i) \/ Recovered(i)
      BY <2>6, RestIsUpkeep, UpkeepAccounts
    <3>2. ASSUME ClaimTask(i) PROVE \E w \in Workers : ClaimInterrupted(w, i)
      <4>1. job[i].status \in Queued /\ job'[i].status = "running"
        BY <3>2 DEF ClaimTask, IsQueued, SetStatus, TableTypeOK, JobRow
      <4>2. claims'[i] = claims[i] + 1 /\ claims[i] \in Nat
        BY <3>2 DEF ClaimTask, TableTypeOK
      <4>3. claims' # claims
        BY <4>2
      <4>4. \E w \in Workers, j \in Jobs : Claim(w, j) \/ ClaimInterrupted(w, j)
        BY <2>6, <4>3
           DEF Next, vars, workerVars, tableVars, Cleanup, Client, Create, TimeArrives, Cancel, Loop,
               Start, Poll, LoopError, Requeue, Skip, Heartbeat, BeatNothing, Beat, BeatFails,
               Shutdown, BeginCleanup, CancelRunning, Stop, Crash, CleanupOldJobs, CreateTask,
               FallDue, CancelTask, RequeueStaleRunning, UpdateHeartbeats
      <4>5. PICK w \in Workers, j \in Jobs : Claim(w, j) \/ ClaimInterrupted(w, j)
        BY <4>4
      <4>6. i = j
        BY <4>2, <4>5 DEF Claim, ClaimInterrupted, ClaimTask, TableTypeOK
      <4>7. QED BY <1>2, <4>5, <4>6
    <3>3. QED BY <2>2, <2>4, <3>1, <3>2
  <2>7. QED BY <2>3, <2>5, <2>6, <2>2
<1>3. QED BY <1>1, <1>2

-----------------------------------------------------------------------------
(* The two theorems.                                                         *)

\* An early execution is a writer.
LEMMA EarlyIsWriter ==
    ASSUME NEW i \in Jobs
    PROVE  Early(i) \subseteq Writers(i)
  BY DEF Early, Writers, Undone, Unsettled

\* Every step keeps every row covered.
LEMMA CoveredStep ==
    ASSUME IInv, Punctual, NEW i \in Jobs, Covered(i), [Next]_vars
    PROVE  Covered(i)'
<1> DEFINE count == job[i].retryCount
<1> DEFINE funds == SpentByAttempt * claims[i] + requeues[i]
<1> DEFINE early == IF "timeout" \in Faults THEN Cardinality(Early(i)) ELSE 0
<1> DEFINE more == IF "timeout" \in Faults THEN 1 ELSE 0
<1>1. /\ count \in Nat /\ claims[i] \in Nat /\ requeues[i] \in Nat
      /\ MaxRetries \in Nat
  BY TableAssumption DEF IInv, TableInv, TableTypeOK, JobRow, TableAssumption
<1>2. funds \in Nat
  BY <1>1 DEF SpentByAttempt
<1>3. IsFiniteSet(Writers(i)) /\ IsFiniteSet(Early(i))
  BY EarlyIsWriter, FewerOf DEF Covered
<1>4. /\ Cardinality(Writers(i)) \in Nat /\ Cardinality(Early(i)) \in Nat
      /\ Cardinality(Early(i)) <= Cardinality(Writers(i))
  BY <1>3, EarlyIsWriter, FewerOf
<1>5. count + Cardinality(Writers(i)) + early <= funds
  BY DEF Covered
<1>6. CASE Quiet(i)
  <2>1. /\ IsFiniteSet(Writers(i)') /\ Cardinality(Writers(i)') \in Nat
        /\ Cardinality(Writers(i)') <= Cardinality(Writers(i))
    BY <1>3, <1>6, FewerOf DEF Quiet
  <2>2. Cardinality(Early(i)') \in Nat /\ Cardinality(Early(i)') <= Cardinality(Early(i))
    BY <1>3, <1>6, FewerOf DEF Quiet
  <2>3. count' = count /\ funds' = funds /\ early' <= early /\ early' \in Nat
    BY <1>4, <1>6, <2>2 DEF Quiet, Steady
  <2>4. job'[i].status = "failed" /\ i \notin gaveUp' => funds > MaxRetries
    BY <1>6 DEF Quiet, Steady, Covered
  <2> HIDE DEF funds, early, count
  <2>5. count' + Cardinality(Writers(i)') + early' <= funds'
    BY <1>1, <1>2, <1>4, <1>5, <2>1, <2>3 DEF early, count
  <2>6. QED BY <2>1, <2>3, <2>4, <2>5 DEF Covered, funds, early, count
<1>7. CASE Claimed(i)
  <2>1. PICK w \in Workers :
          Writers(i)' \subseteq Writers(i) \union {w} /\ Early(i)' \subseteq Early(i) \union {w}
    BY <1>7 DEF Claimed
  <2>2. /\ IsFiniteSet(Writers(i)') /\ Cardinality(Writers(i)') \in Nat
        /\ Cardinality(Writers(i)') <= Cardinality(Writers(i)) + 1
    BY <1>3, <2>1, OneMore
  <2>3. Cardinality(Early(i)') \in Nat /\ Cardinality(Early(i)') <= Cardinality(Early(i)) + 1
    BY <1>3, <2>1, OneMore
  <2>4. /\ job'[i] = SetStatus(job[i], "running") /\ claims'[i] = claims[i] + 1
        /\ requeues' = requeues /\ job[i] \in JobRow
    BY <1>7 DEF Claimed, ClaimTask, IInv, TableInv, TableTypeOK
  <2>5. count' = count /\ job'[i].status = "running"
    BY <2>4, SetStatusRow DEF Status
  <2>6. funds' = funds + 1 + more
    BY <1>1, <2>4 DEF SpentByAttempt
  <2>7. early' <= early + more /\ early' \in Nat /\ early \in Nat
    BY <1>4, <2>3
  <2> HIDE DEF funds, early, count
  <2>8. count' + Cardinality(Writers(i)') + early' <= funds'
    BY <1>1, <1>2, <1>4, <1>5, <2>2, <2>5, <2>6, <2>7
  <2>9. QED BY <2>2, <2>5, <2>8 DEF Covered, funds, early, count
<1>8. CASE Requeued(i)
  <2>1. /\ IsFiniteSet(Writers(i)') /\ Cardinality(Writers(i)') \in Nat
        /\ Cardinality(Writers(i)') <= Cardinality(Writers(i))
    BY <1>3, <1>8, FewerOf DEF Requeued
  <2>2. Cardinality(Early(i)') \in Nat /\ Cardinality(Early(i)') <= Cardinality(Early(i))
    BY <1>3, <1>8, FewerOf DEF Requeued
  <2>3. early' <= early /\ early' \in Nat /\ early \in Nat
    BY <1>4, <2>2
  <2>4. count' = count + 1 /\ funds' = funds + 1 /\ job'[i].status = "pending"
    BY <1>1, <1>8 DEF Requeued, Recovered, SpentByAttempt
  <2> HIDE DEF funds, early, count
  <2>5. count' + Cardinality(Writers(i)') + early' <= funds'
    BY <1>1, <1>2, <1>4, <1>5, <2>1, <2>3, <2>4
  <2>6. QED BY <2>1, <2>4, <2>5 DEF Covered, funds, early, count
<1>9. ASSUME Failed(i), funds' = funds,
             IsFiniteSet(Writers(i)'), Cardinality(Writers(i)') \in Nat, early' \in Nat,
             early \in Nat, Cardinality(Writers(i)') + early' <= Cardinality(Writers(i)) + early - 1
      PROVE  Covered(i)'
  <2>1. \/ count' = count + 1 /\ job'[i].status = "pending"
        \/ count' = count /\ (i \notin gaveUp' => count >= MaxRetries)
    BY <1>9 DEF Failed
  <2> HIDE DEF funds, early, count
  <2>2. count' + Cardinality(Writers(i)') + early' <= funds'
    BY <1>1, <1>2, <1>4, <1>5, <1>9, <2>1
  <2>3. job'[i].status = "failed" /\ i \notin gaveUp' => funds' > MaxRetries
    BY <1>1, <1>2, <1>4, <1>5, <1>9, <2>1
  <2>4. QED BY <1>9, <2>2, <2>3 DEF Covered, funds, early, count
<1>10. CASE Settled(i)
  <2>1. /\ IsFiniteSet(Writers(i)') /\ Cardinality(Writers(i)') \in Nat
        /\ Cardinality(Writers(i)') <= Cardinality(Writers(i)) - 1
    BY <1>3, <1>10, OneLess DEF Settled
  <2>2. Cardinality(Early(i)') \in Nat /\ Cardinality(Early(i)') <= Cardinality(Early(i))
    BY <1>3, <1>10, FewerOf DEF Settled
  <2>3. funds' = funds
    BY <1>10 DEF Settled, Failed
  <2>4. QED BY <1>4, <1>9, <1>10, <2>1, <2>2, <2>3 DEF Settled
<1>11. CASE TimedOut(i)
  <2>1. /\ IsFiniteSet(Writers(i)') /\ Cardinality(Writers(i)') \in Nat
        /\ Cardinality(Writers(i)') <= Cardinality(Writers(i))
    BY <1>3, <1>11, FewerOf DEF TimedOut
  <2>2. Cardinality(Early(i)') \in Nat /\ Cardinality(Early(i)') <= Cardinality(Early(i)) - 1
    BY <1>3, <1>11, OneLess DEF TimedOut
  <2>3. "timeout" \in Faults
    BY <1>11 DEF TimedOut, Punctual, InTime, Early
  <2>4. funds' = funds
    BY <1>11 DEF TimedOut, Failed
  <2>5. QED BY <1>4, <1>9, <1>11, <2>1, <2>2, <2>3, <2>4 DEF TimedOut
<1>12. QED BY <1>6, <1>7, <1>8, <1>10, <1>11, KindOfStep

\* Every step keeps every row from getting more crowded than it may be.
LEMMA CrowdedStep ==
    ASSUME IInv, InTime, NEW i \in Jobs, Crowded(i), [Next]_vars
    PROVE  Crowded(i)'
<1>1. requeues[i] \in Nat /\ TableTypeOK
  BY TableAssumption DEF IInv, TableInv, TableTypeOK, TableAssumption
<1>2. IsFiniteSet(Writers(i)) /\ Cardinality(Writers(i)) \in Nat
  BY FewerOf DEF Crowded
<1>3. CASE Quiet(i)
  <2>1. /\ IsFiniteSet(Writers(i)') /\ Cardinality(Writers(i)') \in Nat
        /\ Cardinality(Writers(i)') <= Cardinality(Writers(i))
    BY <1>2, <1>3, FewerOf DEF Quiet
  <2>2. requeues'[i] = requeues[i] /\ (Unclaimed(i)' => Unclaimed(i))
    BY <1>3 DEF Quiet, Steady
  <2>3. QED BY <1>1, <1>2, <2>1, <2>2 DEF Crowded
<1>4. CASE Claimed(i)
  <2>1. /\ IsFiniteSet(Writers(i)') /\ Cardinality(Writers(i)') \in Nat
        /\ Cardinality(Writers(i)') <= Cardinality(Writers(i)) + 1
    BY <1>2, <1>4, OneMore DEF Claimed
  <2>2. Unclaimed(i) /\ requeues' = requeues
    BY <1>4 DEF Claimed, ClaimTask, IsQueued, Unclaimed
  <2>3. job[i] \in JobRow /\ job'[i] = SetStatus(job[i], "running")
    BY <1>1, <1>4 DEF Claimed, ClaimTask, TableTypeOK
  <2>4. ~Unclaimed(i)'
    BY <2>3, SetStatusRow DEF Status, Unclaimed, Queued
  <2>5. QED BY <1>1, <1>2, <2>1, <2>2, <2>4 DEF Crowded
<1>5. CASE Requeued(i)
  <2>1. /\ IsFiniteSet(Writers(i)') /\ Cardinality(Writers(i)') \in Nat
        /\ Cardinality(Writers(i)') <= Cardinality(Writers(i))
    BY <1>2, <1>5, FewerOf DEF Requeued
  <2>2. requeues'[i] = requeues[i] + 1
    BY <1>5 DEF Requeued, Recovered
  <2>3. QED BY <1>1, <1>2, <2>1, <2>2 DEF Crowded
<1>6. CASE Settled(i)
  <2>1. /\ IsFiniteSet(Writers(i)') /\ Cardinality(Writers(i)') \in Nat
        /\ Cardinality(Writers(i)') <= Cardinality(Writers(i)) - 1
    BY <1>2, <1>6, OneLess DEF Settled
  <2>2. requeues'[i] = requeues[i]
    BY <1>6 DEF Settled, Failed
  <2>3. QED BY <1>1, <1>2, <2>1, <2>2 DEF Crowded
<1>7. CASE TimedOut(i)
  BY <1>7 DEF TimedOut, InTime, Early
<1>8. QED BY <1>3, <1>4, <1>5, <1>6, <1>7, KindOfStep

\* Without timeouts no execution is ever on the way from one, and with them it may be.
LEMMA AlwaysPunctual == Spec => []Punctual
<1>1. Init => Punctual
  BY DEF Init, Punctual, InTime
<1>2. IInv /\ Punctual /\ [Next]_vars => Punctual'
  BY PunctualStep DEF IInv
<1>3. QED BY <1>1, <1>2, Inductive, PTL DEF Spec

\* Nobody writes a row in the initial state.
LEMMA NoWriters ==
    ASSUME Init, NEW j \in Jobs
    PROVE  /\ Writers(j) = {} /\ Early(j) = {} /\ IsFiniteSet(Writers(j))
           /\ Cardinality(Writers(j)) = 0 /\ Cardinality(Early(j)) = 0
<1>1. Writers(j) = {} /\ Early(j) = {}
  BY DEF Init, Writers, Early, Undone, Unsettled
<1>2. QED BY <1>1, FS_EmptySet

(* In every pool, whatever fails, a job with retries left fails for good     *)
(* only when attempts and recoveries have spent them, an attempt no more     *)
(* than one, or two if jobs time out (fail_task, _run_job_function,          *)
(* _job_failed, _job_cancelled, requeue_stale_running).                      *)
THEOREM FailedOnlyWhenSpentHolds == Spec => []FailedOnlyWhenSpent
<1> DEFINE AllCovered == \A j \in Jobs : Covered(j)
<1>1. Init => AllCovered
  <2> SUFFICES ASSUME Init, NEW j \in Jobs PROVE Covered(j)
    OBVIOUS
  <2>1. /\ job[j].retryCount = 0 /\ job[j].status = "absent" /\ claims[j] = 0 /\ requeues[j] = 0
    BY DEF Init, TableInit
  <2>2. QED BY <2>1, NoWriters DEF Covered, SpentByAttempt
<1>2. IInv /\ Punctual /\ AllCovered /\ [Next]_vars => AllCovered'
  BY CoveredStep
<1>3. AllCovered => FailedOnlyWhenSpent
  BY DEF Covered, FailedOnlyWhenSpent
<1>4. QED BY <1>1, <1>2, <1>3, Inductive, AlwaysPunctual, PTL DEF Spec

(* In every pool whose jobs do not time out, whatever else fails, executions *)
(* of a job overlap only after recovery has put it back, one more for each   *)
(* time (claim_task, complete_task, fail_task, requeue_stale_running).       *)
THEOREM OverlapOnlyAfterRecoveryHolds ==
    ASSUME "timeout" \notin Faults
    PROVE  Spec => []OverlapOnlyAfterRecovery
<1> DEFINE AllCrowded == \A j \in Jobs : Crowded(j)
<1>1. Init => AllCrowded
  <2> SUFFICES ASSUME Init, NEW j \in Jobs PROVE Crowded(j)
    OBVIOUS
  <2>1. requeues[j] = 0
    BY DEF Init, TableInit
  <2>2. QED BY <2>1, NoWriters DEF Crowded
<1>2. IInv /\ Punctual /\ AllCrowded /\ [Next]_vars => AllCrowded'
  BY CrowdedStep DEF Punctual
<1>3. IInv /\ AllCrowded => OverlapOnlyAfterRecovery
  <2> SUFFICES ASSUME IInv, AllCrowded, NEW j \in Jobs
               PROVE  Cardinality(Attempts(j)) <= 1 + requeues[j]
    BY DEF OverlapOnlyAfterRecovery
  <2>1. Attempts(j) \subseteq Writers(j)
    BY DEF Attempts, Writers, Undone, Unsettled
  <2>2. /\ Cardinality(Attempts(j)) \in Nat /\ Cardinality(Writers(j)) \in Nat
        /\ Cardinality(Attempts(j)) <= Cardinality(Writers(j))
    BY <2>1, FewerOf DEF Crowded
  <2>3. requeues[j] \in Nat
    BY TableAssumption DEF IInv, TableInv, TableTypeOK, TableAssumption
  <2>4. QED BY <2>2, <2>3 DEF Crowded
<1>4. QED BY <1>1, <1>2, <1>3, Inductive, AlwaysPunctual, PTL DEF Spec
-----------------------------------------------------------------------------
(* Heartbeats without a slot for every job.                                  *)
(*                                                                          *)
(* HealthyNotRequeued speaks of every execution from its start, and is false *)
(* where one waits long for a slot.  From the first heartbeat that gets      *)
(* through no such hypothesis is needed: each interval adds one to the age   *)
(* and makes one attempt due, which either refreshes the row or adds one to  *)
(* the failures.                                                             *)

\* The manager's loop has slept out an interval only where it has not been stopped.
DueIsUp == \A w \in Workers : beatDue[w] => mode[w] = "up"

\* Stopping the worker ends the loop.
LEMMA DueIsUpStep ==
    ASSUME WorkerTypeOK, DueIsUp, [Next]_vars
    PROVE  DueIsUp'
<1> USE DEF WorkerTypeOK, DueIsUp
<1>1. CASE UNCHANGED <<mode, beatDue>>
  BY <1>1
<1>2. CASE Tick
  BY <1>2 DEF Tick
<1>3. ASSUME NEW w \in Workers, Loop(w) \/ Heartbeat(w) PROVE DueIsUp'
  BY <1>3
     DEF Loop, Start, Poll, LoopError, Requeue, Skip, Claim, Heartbeat, BeatNothing, Beat, BeatFails,
         workerVars
<1>4. ASSUME NEW w \in Workers, Shutdown(w) PROVE DueIsUp'
  BY <1>4 DEF Shutdown, BeginCleanup, ClaimInterrupted, CancelRunning, Stop, Crash
<1>5. ASSUME NEW w \in Workers, NEW j \in Jobs, Execute(w, j) PROVE UNCHANGED <<mode, beatDue>>
  BY <1>5
     DEF Execute, Acquire, BodyReturns, BodyRaises, BodyTimesOut, TimeoutFails, Complete,
         Publish, Settle, Unwind, Finish
<1>6. QED
  BY <1>1, <1>2, <1>3, <1>4, <1>5
     DEF Next, vars, workerVars, Cleanup, Client, Create, TimeArrives, Cancel

\* A heartbeat that gets through refreshes every row its worker executes.
LEMMA BeatRefreshes ==
    ASSUME IInv, Registering, DueIsUp, NEW w \in Workers, Beat(w),
           NEW j \in Jobs, pc[w][j] \in {"body", "timedout", "completing"}
    PROVE  Beaten(w, j)'
<1> USE DEF IInv, TableInv, TableTypeOK, WorkerTypeOK
<1>1. mode'[w] = "up" /\ pc' = pc /\ fails'[w] = 0 /\ ~beatDue'[w] /\ j \in active[w]
  BY DEF Beat, DueIsUp, Registering, Registered
<1>2. IsRunning(j)' => job'[j].age = 0
  <2>1. job'[j] = IF IsRunning(j) THEN [job[j] EXCEPT !.age = 0] ELSE job[j]
    BY <1>1 DEF Beat, UpdateHeartbeats
  <2>2. QED BY <2>1 DEF IsRunning, JobRow
<1>3. QED BY <1>1, <1>2 DEF Beaten

\* Age and failures keep pace, from then on.
LEMMA PaceKept ==
    ASSUME IInv, Registering, DueIsUp, [Next]_vars, NEW w \in Workers, NEW j \in Jobs, Beaten(w, j),
           mode'[w] = "up", pc'[w][j] \in {"body", "timedout", "completing"}
    PROVE  Beaten(w, j)'
<1> USE DEF IInv, TableInv, TableTypeOK, WorkerTypeOK
<1> SUFFICES ASSUME IsRunning(j)'
             PROVE  job'[j].age <= fails'[w] + (IF beatDue'[w] THEN 1 ELSE 0)
  BY DEF Beaten
<1>1. mode[w] = "up" /\ j \in active[w] /\ fails[w] \in Nat /\ fails'[w] \in Nat /\ job[j].age \in Nat
  BY WorkerTypeStep DEF Beaten, Registering, Registered, JobRow, Ages
<1>2. CASE Tick
  <2>1. /\ beatDue[w] = FALSE /\ beatDue'[w] = TRUE /\ fails' = fails
        /\ IsRunning(j) /\ (job'[j].age = job[j].age \/ job'[j].age = job[j].age + 1)
    BY <1>1, <1>2 DEF Tick, AgeHeartbeats, IsRunning, JobRow
  <2>2. job[j].age <= fails[w]
    BY <2>1 DEF Beaten
  <2>3. QED BY <1>1, <2>1, <2>2
<1>3. CASE ~Tick
  <2>1. job'[j].age = 0 \/ (IsRunning(j) /\ job'[j].age = job[j].age)
    BY <1>3, StepIsStatement, StatementRefreshes
  <2>2. CASE job'[j].age = 0
    BY <1>1, <2>2
  <2>3. CASE IsRunning(j) /\ job'[j].age = job[j].age
    <3>1. job[j].age <= fails[w] + (IF beatDue[w] THEN 1 ELSE 0)
      BY <2>3 DEF Beaten
    <3>2. CASE fails'[w] = fails[w] /\ beatDue'[w] = beatDue[w]
      BY <2>3, <3>1, <3>2
    <3>3. CASE Heartbeat(w)
      <4>1. CASE Beat(w)
        BY <1>1, <2>2, <4>1, BeatRefreshes DEF Beaten
      <4>2. CASE BeatFails(w)
        <5>1. beatDue[w] = TRUE /\ beatDue'[w] = FALSE /\ fails'[w] = fails[w] + 1
          BY <4>2 DEF BeatFails
        <5>2. QED BY <1>1, <2>3, <3>1, <5>1
      <4>3. QED BY <1>1, <3>3, <4>1, <4>2 DEF Heartbeat, BeatNothing
    <3>4. ASSUME NEW x \in Workers, Heartbeat(x), x # w
          PROVE  fails'[w] = fails[w] /\ beatDue'[w] = beatDue[w]
      BY <3>4 DEF Heartbeat, BeatNothing, Beat, BeatFails
    <3>5. ASSUME NEW x \in Workers, Loop(x) PROVE fails'[w] = fails[w] /\ beatDue'[w] = beatDue[w]
      BY <1>1, <3>5 DEF Loop, Start, Poll, LoopError, Requeue, Skip, Claim, workerVars
    <3>6. ASSUME NEW x \in Workers, Shutdown(x) PROVE fails'[w] = fails[w] /\ beatDue'[w] = beatDue[w]
      <4>1. x # w
        BY <3>6 DEF Shutdown, BeginCleanup, ClaimInterrupted, CancelRunning, Stop, Crash
      <4>2. QED
        BY <3>6, <4>1 DEF Shutdown, BeginCleanup, ClaimInterrupted, CancelRunning, Stop, Crash
    <3>7. ASSUME NEW x \in Workers, NEW k \in Jobs, Execute(x, k) PROVE UNCHANGED <<fails, beatDue>>
      BY <3>7
         DEF Execute, Acquire, BodyReturns, BodyRaises, BodyTimesOut, TimeoutFails, Complete,
             Publish, Settle, Unwind, Finish
    <3>8. QED
      BY <1>3, <3>2, <3>3, <3>4, <3>5, <3>6, <3>7
         DEF Next, vars, workerVars, Cleanup, Client, Create, TimeArrives, Cancel
  <2>4. QED BY <2>1, <2>2, <2>3
<1>4. QED BY <1>2, <1>3

\* Only recovery, at start or in the loop, counts as one.
LEMMA OnlyRecoveryRequeues ==
    ASSUME active \in [Workers -> SUBSET Jobs], [Next]_vars, requeues' # requeues
    PROVE  \E js \in SUBSET Jobs, limit \in {StaleAfter, StartStaleAfter} :
             RequeueStaleRunning(js, limit)
<1>1. CASE Tick
  BY <1>1 DEF Tick, AgeHeartbeats
<1>2. CASE Statement
  BY <1>2
     DEF Statement, Upkeep, Outcome, tableVars, CreateTask, FallDue, CancelTask, ClaimTask,
         CompleteTask, FailTask, CleanupOldJobs, UpdateHeartbeats
<1>3. QED BY <1>1, <1>2, StepIsStatement

(* However few the slots and whatever else fails, an execution whose         *)
(* heartbeat has got through is safe from recovery for as long as fewer than *)
(* StaleAfter - 1 attempts in a row have failed since, the limit at start    *)
(* being no shorter.                                                         *)
THEOREM BeatenStaysBeatenHolds ==
    ASSUME StaleAfter <= StartStaleAfter
    PROVE  Spec => BeatenStaysBeaten
<1> DEFINE BeatInv == Registering /\ DueIsUp
<1>1. Init => BeatInv
  BY DEF Init, Registering, Registered, DueIsUp
<1>2. IInv /\ BeatInv /\ [Next]_vars => BeatInv'
  BY RegisteringStep, DueIsUpStep DEF IInv
<1>3. ASSUME IInv, BeatInv, [Next]_vars, NEW w \in Workers, NEW j \in Jobs, Beaten(w, j),
             fails[w] + 1 < StaleAfter
      PROVE  requeues'[j] = requeues[j]
  <2> USE DEF IInv, TableInv, TableTypeOK, WorkerTypeOK
  <2>1. CASE requeues' = requeues
    BY <2>1
  <2>2. CASE requeues' # requeues
    <3>1. PICK js \in SUBSET Jobs, limit \in {StaleAfter, StartStaleAfter} :
            RequeueStaleRunning(js, limit)
      BY <1>3, <2>2, OnlyRecoveryRequeues
    <3>2. ASSUME j \in js PROVE FALSE
      <4>1. IsRunning(j) /\ job[j].age >= limit
        BY <3>1, <3>2 DEF RequeueStaleRunning, Stale
      <4>2. job[j].age <= fails[w] + 1
        BY <1>3, <4>1 DEF Beaten, JobRow, Ages
      <4>3. job[j].age \in Nat /\ fails[w] \in Nat /\ StaleAfter <= limit /\ limit \in Nat
            /\ StaleAfter \in Nat
        BY <1>3, TableAssumption DEF JobRow, Ages, TableAssumption
      <4>4. QED BY <1>3, <4>1, <4>2, <4>3
    <3>3. QED BY <3>1, <3>2 DEF RequeueStaleRunning
  <2>3. QED BY <2>1, <2>2
<1>4. ASSUME IInv, BeatInv, [Next]_vars
      PROVE  \A w \in Workers, j \in Jobs : BeatenStep(w, j)
  BY <1>3, <1>4, BeatRefreshes, PaceKept DEF BeatenStep
<1>5. IInv /\ BeatInv /\ [Next]_vars => [\A w \in Workers, j \in Jobs : BeatenStep(w, j)]_vars
  BY <1>4
<1>6. QED BY <1>1, <1>2, <1>5, Inductive, PTL DEF Spec, BeatenStaysBeaten
=============================================================================
