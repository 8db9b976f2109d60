------------------------------ MODULE Scheduler ------------------------------
(***************************************************************************)
(* The schedules of recurring jobs: WorkerPlugin._initialize_schedules      *)
(* (src/src/sqlstack/utils/worker/plugin.py), run by every application      *)
(* process when it starts, over the rows of the job table that carry a      *)
(* "scheduled-<name>" key, with the key check of TaskService.create_task.   *)
(*                                                                          *)
(* The session is in autocommit, so every statement is a step and processes *)
(* that start together interleave between them.  The workers appear only    *)
(* by what they do to a row: claim it, put it back, end it.                 *)
(***************************************************************************)
EXTENDS Integers

CONSTANTS
    Apps,       \* application processes
    Names,      \* names of the jobs registered with a schedule
    Configs,    \* schedule configurations that successive releases carry
    None,       \* no row, no release
    MaxDeaths   \* BOUND: deaths of processes

VARIABLES
    row,      \* row[n]: the row with n's key (the key is unique), or None
    executing,\* names whose row some worker executes
    app,      \* app[a]: the process, see AppState
    given,    \* history: names that have been given a row
    overtaken,\* history: <<a, n>> if a has yet to treat n and n's row was claimed after
              \* a's SELECT found it
    deaths    \* deaths of processes so far

vars == <<row, executing, app, given, overtaken, deaths>>

Queued   == {"scheduled", "pending"}
Terminal == {"completed", "failed", "cancelled"}
Status   == Queued \union Terminal \union {"running"}
Row      == [status : Status, config : Configs]

ASSUME SchedulerAssumption ==
    /\ None \notin Row \union Configs
    /\ MaxDeaths \in Nat

(* release   the configuration its code carries, for every name;             *)
(* todo      the names its loop has yet to treat;                            *)
(* found     the names whose queued row its SELECT found;                    *)
(* at        create_task's statement it is before, or "loop", and            *)
(* name      the name it is at.                                              *)
(* All but the phase matter only while it starts.                            *)
AppState ==
    [phase : {"down", "starting", "up"}, release : Configs \union {None},
     todo : SUBSET Names, found : SUBSET Names,
     at : {"loop", "check", "insert"}, name : Names \union {None}]

Down ==
    [phase |-> "down", release |-> None, todo |-> {}, found |-> {},
     at |-> "loop", name |-> None]

SchedulerTypeOK ==
    /\ row \in [Names -> Row \union {None}]
    /\ executing \subseteq Names
    /\ app \in [Apps -> AppState]
    /\ given \subseteq Names
    /\ overtaken \subseteq Apps \X Names
    /\ deaths \in 0 .. MaxDeaths

Becomes(a, state) ==
    /\ app' = [app EXCEPT ![a] = state]
    /\ overtaken' = {p \in overtaken : p[1] = a => p[2] \in state.found}

InStatus(n, S) == row[n] # None /\ row[n].status \in S

Init ==
    /\ row = [n \in Names |-> None]
    /\ executing = {}
    /\ app = [a \in Apps |-> Down]
    /\ given = {}
    /\ overtaken = {}
    /\ deaths = 0

-----------------------------------------------------------------------------
(* A process starts, with the release deployed by then, and selects the      *)
(* queued rows that carry a schedule's key.                                  *)
Selects(a, found) ==
    /\ app[a].phase = "down"
    /\ \E c \in Configs :
         Becomes(a, [Down EXCEPT !.phase = "starting",
                                 !.release = c,
                                 !.todo = Names,
                                 !.found = found])
    /\ UNCHANGED <<row, executing, given, deaths>>

\* Mutant: the SELECT goes by the key, whatever the row's status.
StartAnyStatus(a) == Selects(a, {n \in Names : row[n] # None})

Start(a) == Selects(a, {n \in Names : InStatus(n, Queued)})

Treating(a, n) ==
    /\ app[a].phase = "starting"
    /\ app[a].at = "loop"
    /\ n \in app[a].todo

(* Its next statement is create_task's SELECT by key, then its INSERT.       *)
At(a, n, stmt) ==
    /\ app[a].phase = "starting"
    /\ app[a].at = stmt
    /\ app[a].name = n

Done(a, n) ==
    Becomes(a, [app[a] EXCEPT !.todo = @ \ {n}, !.found = @ \ {n},
                              !.at = "loop", !.name = None])

\* The queued row found already carries this configuration.
Keep(a, n) ==
    /\ Treating(a, n)
    /\ n \in app[a].found
    /\ row[n].config = app[a].release
    /\ Done(a, n)
    /\ UNCHANGED <<row, executing, given, deaths>>

CancelAndCreate(a, n) ==
    /\ row' = [row EXCEPT ![n].status = "cancelled"]
    /\ Becomes(a, [app[a] EXCEPT !.at = "check", !.name = n])
    /\ UNCHANGED <<executing, given, deaths>>

(* The configuration has changed: the old row is cancelled by its id alone,  *)
(* whatever has become of it since the SELECT; create_task comes next.       *)
Replace(a, n) ==
    /\ Treating(a, n)
    /\ n \in app[a].found
    /\ row[n].config # app[a].release
    /\ CancelAndCreate(a, n)

\* No queued row was found: on to create_task.
Register(a, n) ==
    /\ Treating(a, n)
    /\ n \notin app[a].found
    /\ Becomes(a, [app[a] EXCEPT !.at = "check", !.name = n])
    /\ UNCHANGED <<row, executing, given, deaths>>

\* Mutant: create_task takes the key for taken whatever the SELECT says.
CheckForgets(a, n) ==
    /\ At(a, n, "check")
    /\ Done(a, n)
    /\ UNCHANGED <<row, executing, given, deaths>>

\* create_task: the row with the key, of whatever status, is reused.
Check(a, n) ==
    /\ At(a, n, "check")
    /\ IF row[n] # None THEN Done(a, n)
                        ELSE Becomes(a, [app[a] EXCEPT !.at = "insert"])
    /\ UNCHANGED <<row, executing, given, deaths>>

InsertRow(a, n, config) ==
    /\ row' = [row EXCEPT ![n] = [status |-> "scheduled", config |-> config]]
    /\ given' = given \union {n}

\* Mutant: the row is stored without its configuration.
InsertUnconfigured(a, n) ==
    /\ At(a, n, "insert")
    /\ row[n] = None
    /\ InsertRow(a, n, None)
    /\ Done(a, n)
    /\ UNCHANGED <<executing, deaths>>

(* The INSERT.  A process that was slower meets the key's uniqueness: the    *)
(* error ends its start.                                                     *)
Insert(a, n) ==
    /\ At(a, n, "insert")
    /\ IF row[n] = None
       THEN InsertRow(a, n, app[a].release) /\ Done(a, n)
       ELSE Becomes(a, Down) /\ UNCHANGED <<row, given>>
    /\ UNCHANGED <<executing, deaths>>

Ready(a) ==
    /\ app[a].phase = "starting"
    /\ app[a].at = "loop"
    /\ app[a].todo = {}
    /\ Becomes(a, [Down EXCEPT !.phase = "up"])
    /\ UNCHANGED <<row, executing, given, deaths>>

\* The process is stopped or dies, anywhere.
Die(a) ==
    /\ app[a].phase # "down"
    /\ deaths < MaxDeaths
    /\ deaths' = deaths + 1
    /\ Becomes(a, Down)
    /\ UNCHANGED <<row, executing, given>>

-----------------------------------------------------------------------------
(* The workers and maintenance.                                              *)

Claim(n) ==
    /\ InStatus(n, Queued)
    /\ row' = [row EXCEPT ![n].status = "running"]
    /\ executing' = executing \union {n}
    /\ overtaken' = overtaken \union {<<a, n>> : a \in {b \in Apps : n \in app[b].found}}
    /\ UNCHANGED <<app, given, deaths>>

(* The worker writes an outcome, or a retry, by the row's id alone: over a   *)
(* cancellation too.                                                         *)
Write(n, status) ==
    /\ n \in executing
    /\ row' = [row EXCEPT ![n].status = status]
    /\ executing' = executing \ {n}
    /\ UNCHANGED <<app, given, overtaken, deaths>>

End(n)   == Write(n, "completed") \/ Write(n, "failed")
Retry(n) == Write(n, "pending")

(* cleanup_old_jobs, after a retention that outlasts every start and every   *)
(* execution.                                                                *)
Purge(n) ==
    /\ InStatus(n, Terminal)
    /\ n \notin executing
    /\ \A a \in Apps : n \notin app[a].found
    /\ row' = [row EXCEPT ![n] = None]
    /\ UNCHANGED <<executing, app, given, overtaken, deaths>>

-----------------------------------------------------------------------------
Process(a) ==
    \/ Start(a) \/ Ready(a)
    \/ \E n \in Names :
         Keep(a, n) \/ Replace(a, n) \/ Register(a, n) \/ Check(a, n) \/ Insert(a, n)

Next ==
    \/ \E a \in Apps : Process(a) \/ Die(a)
    \/ \E n \in Names : Claim(n) \/ End(n) \/ Retry(n) \/ Purge(n)

Spec == Init /\ [][Next]_vars

(* Processes are started and run; a queued row falls due and is claimed;     *)
(* max_retries lets a job be put back only finitely often.                   *)
FairSpec ==
    /\ Spec
    /\ \A a \in Apps : WF_vars(Process(a))
    /\ \A n \in Names : WF_vars(Claim(n)) /\ SF_vars(End(n))

-----------------------------------------------------------------------------
(* Properties.                                                               *)

(* Once a process is up every schedule has been given a row, by it or by     *)
(* another process that was faster, however many died or failed on the way   *)
(* (_initialize_schedules, the key check and INSERT of create_task).         *)
UpIsScheduled ==
    (\E a \in Apps : app[a].phase = "up") => given = Names

(* What a worker has in hand, or has finished, is overwritten by "cancelled"  *)
(* only if it was claimed between the SELECT of a start and its UPDATE, and   *)
(* that start brings another configuration: no start takes a row that was     *)
(* out of the queue when it looked, however many starts, deaths, claims and   *)
(* retries there have been (the SELECT and the UPDATE by id of                *)
(* _initialize_schedules).                                                    *)
Overwrites(n) ==
    /\ InStatus(n, Status \ (Queued \union {"cancelled"}))
    /\ InStatus(n, {"cancelled"})'

OverwriteStep ==
    \A n \in Names : Overwrites(n) =>
        \E a \in Apps : /\ app[a].phase = "starting" /\ app[a].release # row[n].config
                        /\ <<a, n>> \in overtaken

OverwritesOnlyOvertaken == [][OverwriteStep]_vars

(* Every schedule gets a row that is in the end executed, or cancelled by a  *)
(* process of another release (_initialize_schedules and the workers).       *)
EveryScheduleTreated == \A n \in Names : <>InStatus(n, Terminal)

(* Once a process is up no schedule is left cancelled: the row that was      *)
(* cancelled because its configuration changed has been replaced ("Create    *)
(* new scheduled task with updated configuration", _initialize_schedules).   *)
ChangeTakesEffect ==
    (\E a \in Apps : app[a].phase = "up") =>
        \A n \in Names : ~InStatus(n, {"cancelled"})

(* A recurring job is executed again and again ("Every hour", register_job). *)
Recurs == \A n \in Names : []<>(n \in executing)
=============================================================================
