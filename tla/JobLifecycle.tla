----------------------------- MODULE JobLifecycle -----------------------------
(***************************************************************************)
(* What the job queue promises about each job, with the table, the clock    *)
(* and the workers' inner steps taken away: its status, and which workers   *)
(* hold it.  The steps of different jobs are independent, and one step of   *)
(* the system (a stale recovery, a crash) may be a step of several jobs, so *)
(* the next-state relation is a conjunction over the jobs.                  *)
(*                                                                          *)
(* Spec is what holds in every circumstance: only queued jobs are claimed,  *)
(* a job no worker holds changes only by claim, recovery, cancellation or   *)
(* clean-up, and so a terminal status nobody holds is final.  StrictSpec is *)
(* the queue as one would like it: one holder at a time, which alone        *)
(* settles the job, once, while it runs.                                    *)
(***************************************************************************)
CONSTANTS Jobs, Workers
VARIABLES status, holders

Final    == {"completed", "failed", "cancelled"}
Statuses == {"absent", "queued", "running", "deleted"} \union Final

LifecycleTypeOK ==
    /\ status \in [Jobs -> Statuses]
    /\ holders \in [Jobs -> SUBSET Workers]

Init ==
    /\ status = [j \in Jobs |-> "absent"]
    /\ holders = [j \in Jobs |-> {}]

Moves(j, from, to) == status[j] \in from /\ status'[j] \in to
Keeps(j)           == holders'[j] = holders[j]
LetsGo(j)          == holders'[j] \subseteq holders[j]

Submit(j) == Moves(j, {"absent"}, {"queued"}) /\ Keeps(j)
Revoke(j) == Moves(j, {"queued"}, {"cancelled"}) /\ Keeps(j)
Purge(j)  == Moves(j, Final, {"deleted"}) /\ Keeps(j)

\* A claimant that dies at once leaves the job running with no holder more.
Claim(j) ==
    /\ Moves(j, {"queued"}, {"running"})
    /\ Keeps(j) \/ \E w \in Workers \ holders[j] : holders'[j] = holders[j] \union {w}

Recover(j) == Moves(j, {"running"}, {"queued"}) /\ Keeps(j)

\* A holder writes an outcome over whatever the status is by now.
Settle(j) ==
    /\ holders[j] # {}
    /\ Moves(j, Statuses \ {"absent", "deleted"}, {"queued", "completed", "failed"})
    /\ LetsGo(j)

Release(j) == status'[j] = status[j] /\ LetsGo(j)

Step(j) ==
    \/ Submit(j) \/ Revoke(j) \/ Purge(j) \/ Claim(j) \/ Recover(j)
    \/ Settle(j) \/ Release(j)

Next == \A j \in Jobs : Step(j)

Spec == Init /\ [][Next]_<<status, holders>>

StrictStep(j) ==
    \/ Submit(j) \/ Revoke(j) \/ Purge(j)
    \/ Claim(j) /\ holders[j] = {}
    \/ Recover(j) /\ holders[j] = {}
    \/ Settle(j) /\ status[j] = "running" /\ holders'[j] = {}
    \/ Release(j)

StrictSpec == Init /\ [][\A j \in Jobs : StrictStep(j)]_<<status, holders>>
=============================================================================
