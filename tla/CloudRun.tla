------------------------------ MODULE CloudRun ------------------------------
(* cloudrun_entry.py: a container executes one job, beside a worker of the   *)
(* pool and stale recovery, over the same rows and statements. Every         *)
(* statement of the container is a session of its own.                       *)
EXTENDS TaskTable

CONSTANTS
  Containers,     \* Cloud Run containers
  MaxMissed       \* bound on the heartbeats that fail

ASSUME CloudAssumption == IsFiniteSet(Containers) /\ MaxMissed \in Nat

VARIABLES
  container,      \* container[c]: its progress and the job it was given
  rival,          \* the jobs that a worker of the pool is executing
  missed,         \* history: heartbeats that failed
  premature,      \* history: jobs settled by a container that has no function for
                  \* them, or that goes on to fail them
  strays          \* history: strays[j], the times a container whose claim raised
                  \* failed j

cloudVars == <<job, claims, requeues, gaveUp, container, rival, missed, premature, strays>>

Stages == {"off", "failing", "claiming", "straying", "dropping", "body", "completing",
           "retrying", "givingUp", "exited"}

CloudTypeOK ==
  /\ TableTypeOK
  /\ container \in [Containers -> [stage : Stages, id : Jobs, fresh : BOOLEAN]]
  /\ rival \subseteq Jobs
  /\ missed \in 0..MaxMissed
  /\ premature \subseteq Jobs
  /\ strays \in [Jobs -> Nat]

CloudInit ==
  /\ TableInit
  /\ container \in [Containers -> [stage : {"off"}, id : Jobs, fresh : {FALSE}]]
  /\ rival = {} /\ missed = 0 /\ premature = {}
  /\ strays = [j \in Jobs |-> 0]

----------------------------------------------------------------------------
Id(c) == container[c].id
AtStage(c, stage) == container[c].stage = stage
MoveTo(c, stage) == container' = [container EXCEPT ![c].stage = stage, ![c].fresh = TRUE]

\* A container holds the row from its claim to its end, and its heartbeat task lives from the
\* end of the claim's session, if the container gets that far, to the finally.
Holding == {c \in Containers :
              container[c].stage \in {"dropping", "body", "completing", "retrying", "givingUp"}}
Beating == {c \in Holding : ~AtStage(c, "dropping")}
Executors(j) == {c \in Containers : AtStage(c, "body") /\ Id(c) = j}

\* The job is there, and load_jobs finds its function in this image or does not
Launch(c) ==
  /\ AtStage(c, "off")
  /\ \/ Exists(Id(c)) /\ \E next \in {"failing", "claiming"} : MoveTo(c, next)
     \/ ~Exists(Id(c)) /\ MoveTo(c, "exited")
  /\ UNCHANGED <<tableVars, rival, missed, premature, strays>>

\* Unknown function: fail_task without a claim
FailUnknown(c) ==
  /\ AtStage(c, "failing")
  /\ FailTask(Id(c), FALSE)
  /\ premature' = premature \cup {Id(c)}
  /\ MoveTo(c, "exited")
  /\ UNCHANGED <<rival, missed, strays>>

\* Mutant of ClaimJob: what claim_task returns is not looked at.
ClaimAnyway(c) ==
  /\ AtStage(c, "claiming")
  /\ \/ ClaimTask(Id(c))
     \/ ~IsQueued(Id(c)) /\ UNCHANGED tableVars
  /\ MoveTo(c, "body")
  /\ UNCHANGED <<rival, missed, premature, strays>>

\* The claim asks for a queued row, not for one that is due. It may commit and its session
\* fail after that, and it may raise instead: all errors have one handler.
ClaimJob(c) ==
  /\ AtStage(c, "claiming")
  /\ \/ ClaimTask(Id(c)) /\ \E next \in {"body", "dropping"} : MoveTo(c, next)
     \/ ~IsQueued(Id(c)) /\ MoveTo(c, "exited") /\ UNCHANGED tableVars
     \/ MoveTo(c, "straying") /\ UNCHANGED tableVars
  /\ UNCHANGED <<rival, missed, premature, strays>>

\* That handler is fail_task with a retry, also for a container that has claimed nothing.
FailStray(c) ==
  /\ AtStage(c, "straying")
  /\ FailTask(Id(c), TRUE)
  /\ strays' = [strays EXCEPT ![Id(c)] = @ + 1]
  /\ MoveTo(c, "exited")
  /\ UNCHANGED <<rival, missed, premature>>

\* The job returns, raises NonRetryableError, or raises another error
ReturnFromJob(c) ==
  /\ AtStage(c, "body")
  /\ \E next \in {"completing", "retrying", "givingUp"} : MoveTo(c, next)
  /\ UNCHANGED <<tableVars, rival, missed, premature, strays>>

\* The job's outcome: complete_task, by id, whoever has the row by now. An error before its
\* commit, or after it, is retried like an error of the job.
Complete(c) ==
  /\ AtStage(c, "completing")
  /\ \/ CompleteTask(Id(c)) /\ MoveTo(c, "exited") /\ UNCHANGED premature
     \/ CompleteTask(Id(c)) /\ MoveTo(c, "retrying") /\ premature' = premature \cup {Id(c)}
     \/ UNCHANGED tableVars /\ MoveTo(c, "retrying") /\ UNCHANGED premature
  /\ UNCHANGED <<rival, missed, strays>>

\* The two handlers: fail_task, also by id; then the finally stops the heartbeat.
Fail(c) ==
  /\ \/ container[c].stage \in {"retrying", "dropping"} /\ FailTask(Id(c), TRUE)
     \/ AtStage(c, "givingUp") /\ FailTask(Id(c), FALSE)
  /\ MoveTo(c, "exited")
  /\ UNCHANGED <<rival, missed, premature, strays>>

\* The container is killed, at any point; or it ends with an error that nothing handles, of
\* get_task, load_jobs or fail_task, which leaves the row as it is
Killed(c) ==
  /\ ~AtStage(c, "exited")
  /\ MoveTo(c, "exited")
  /\ UNCHANGED <<tableVars, rival, missed, premature, strays>>

----------------------------------------------------------------------------
\* Mutant of BeatOnce: the heartbeat touches nothing.
BeatIdle(c) ==
  /\ c \in Beating
  /\ container' = [container EXCEPT ![c].fresh = TRUE]
  /\ UNCHANGED <<tableVars, rival, missed, premature, strays>>

\* _heartbeat_loop, once an interval: touch_heartbeat, or an error that is only logged
BeatOnce(c) ==
  /\ c \in Beating
  /\ container' = [container EXCEPT ![c].fresh = TRUE]
  /\ \/ UpdateHeartbeats({Id(c)}) /\ UNCHANGED missed
     \/ missed < MaxMissed /\ missed' = missed + 1 /\ UNCHANGED tableVars
  /\ UNCHANGED <<rival, premature, strays>>

\* An interval passes: each loop has had its turn in it
Interval ==
  /\ \A c \in Beating : container[c].fresh
  /\ AgeHeartbeats
  /\ container' = [c \in Containers |-> [container[c] EXCEPT !.fresh = FALSE]]
  /\ UNCHANGED <<rival, missed, premature, strays>>

----------------------------------------------------------------------------
\* The others: producers and clean-up, a pool worker that executes due rows and keeps up
\* its heartbeats, and stale recovery.
CreateOrCancel(j) ==
  /\ \/ \E later \in BOOLEAN : CreateTask(j, later)
     \/ CancelTask(j) \/ FallDue(j) \/ CleanupOldJobs({j})
  /\ UNCHANGED <<container, rival, missed, premature, strays>>

RivalClaims(j) ==
  /\ j \in Eligible \ rival
  /\ ClaimTask(j)
  /\ rival' = rival \cup {j}
  /\ UNCHANGED <<container, missed, premature, strays>>

RivalBeats ==
  /\ UpdateHeartbeats(rival)
  /\ UNCHANGED <<container, rival, missed, premature, strays>>

RivalRecords(j) ==
  /\ j \in rival
  /\ CompleteTask(j) \/ \E retry \in BOOLEAN : FailTask(j, retry)
  /\ rival' = rival \ {j}
  /\ UNCHANGED <<container, missed, premature, strays>>

Recover(js) ==
  /\ js # {}
  /\ RequeueStaleRunning(js, StaleAfter)
  /\ UNCHANGED <<container, rival, missed, premature, strays>>

ContainerStep(c) ==
  \/ Launch(c) \/ FailUnknown(c) \/ ClaimJob(c) \/ FailStray(c) \/ ReturnFromJob(c)
  \/ Complete(c) \/ Fail(c) \/ Killed(c) \/ BeatOnce(c)

CloudNext ==
  \/ Interval \/ RivalBeats
  \/ \E c \in Containers : ContainerStep(c)
  \/ \E j \in Jobs : CreateOrCancel(j) \/ RivalClaims(j) \/ RivalRecords(j)
  \/ \E js \in SUBSET Jobs : Recover(js)

CloudSpec == CloudInit /\ [][CloudNext]_cloudVars

----------------------------------------------------------------------------
\* Two executions of one row, by containers or the pool, overlap only after stale recovery
\* has put it back, or a container whose claim raised: no other order of launches, claims,
\* unknown functions and late or repeated outcomes does it.
OverlapOnlyAfterRequeue ==
  \A j \in Jobs :
    Cardinality(Executors(j)) + (IF j \in rival THEN 1 ELSE 0) <= 1 + requeues[j] + strays[j]

\* Containers and the worker of the pool keep what JobLifecycle promises of a job, they being
\* its holders from the claim to the outcome: only a queued job is claimed, and only a holder
\* settles it. Only the step in which a container fails a job it has not claimed breaks that.
\* If there was none, recovery has not put the job back either, and no container failed
\* it after completing it, the strict promise is kept: it has one holder at a time, which
\* alone settles it, once, and an outcome stands until it is cleaned up.
Lifecycle == INSTANCE JobLifecycle WITH
  Workers <- Containers \cup {"pool"},
  status <- AbstractStatus,
  holders <- [j \in Jobs |-> {c \in Holding : Id(c) = j} \cup {w \in {"pool"} : j \in rival}]

FailsUnclaimed(j) == \E c \in Containers : Id(c) = j /\ (FailUnknown(c) \/ FailStray(c))

LifecycleStep ==
  \A j \in Jobs :
    /\ FailsUnclaimed(j) \/ Lifecycle!Step(j)
    /\ requeues'[j] = 0 /\ strays'[j] = 0 /\ j \notin premature' => Lifecycle!StrictStep(j)
KeepsLifecycle == Lifecycle!Init /\ [][LifecycleStep]_cloudVars

\* Recovery takes no row from a container whose heartbeats get through: all those due
\* between the claim and the limit, StaleAfter - 1 at least, must have failed.
AttendedStep ==
  \A j \in Jobs : requeues'[j] > requeues[j]
                    => Executors(j) = {} \/ missed + 1 >= StaleAfter
AttendedNotRequeued == [][AttendedStep]_cloudVars

============================================================================
