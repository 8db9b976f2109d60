------------------------------- MODULE JobLogs -------------------------------
(***************************************************************************)
(* The job log entries of one worker: JobLogBuffer (src/src/sqlstack/lib/   *)
(* log.py), shared by the executions of the worker, the flush that ends an  *)
(* execution (Worker._flush_job_logs) and the one that ends the worker      *)
(* (Worker._cleanup), and the inserts of TaskService.create_job_logs, each  *)
(* of which commits by itself.                                              *)
(*                                                                          *)
(* A flush takes the whole buffer, the entries of other jobs too, and       *)
(* awaits every insert: the other executions log, flush and end meanwhile.  *)
(*                                                                          *)
(* The lists are multisets here, functions from entries to how often they   *)
(* occur: nothing but the order of the inserts depends on the order of the  *)
(* entries, and that is left open.                                          *)
(***************************************************************************)
EXTENDS Integers

CONSTANTS
    Jobs,       \* jobs that the worker executes
    Final,      \* the flush in _cleanup
    MaxRuns,    \* BOUND: executions of a job
    MaxLogs,    \* BOUND: entries that the body of an execution logs
    MaxFaults   \* BOUND: flushes that fail or are cancelled

ASSUME JobLogsAssumption ==
    /\ Final \notin Jobs
    /\ {MaxRuns, MaxLogs, MaxFaults} \subseteq Nat

VARIABLES
    buffer,   \* _entries
    counter,  \* _sequence_counters, 0 for a job that is not there
    table,    \* table[e]: rows that carry entry e
    run,      \* number of the job's execution
    pc,       \* where an execution, or the final flush, is
    batch,    \* batch[f]: what flush f has taken from the buffer
    left,     \* left[f]: what of the batch is still to be inserted
    stopping, \* _cleanup has begun
    logged,   \* history: the entries appended
    returned, \* history: the entries that a failed flush put back
    faults    \* faults so far

vars == <<buffer, counter, table, run, pc, batch, left, stopping, logged, returned, faults>>

Flushers == Jobs \union {Final}
PCs == {"idle", "body", "insert", "restore", "reset", "stopped"}
Entry == [job : Jobs, run : 1 .. MaxRuns, seq : 0 .. MaxLogs]

Entries == [Entry -> Nat]
Nothing == [e \in Entry |-> 0]
In(es)  == {e \in Entry : es[e] > 0}

LogsTypeOK ==
    /\ buffer \in Entries
    /\ table \in Entries
    /\ counter \in [Jobs -> Nat]
    /\ run \in [Jobs -> 0 .. MaxRuns]
    /\ pc \in [Flushers -> PCs]
    /\ batch \in [Flushers -> Entries] /\ left \in [Flushers -> Entries]
    /\ stopping \in BOOLEAN
    /\ logged \subseteq Entry /\ returned \subseteq logged
    /\ faults \in 0 .. MaxFaults

Init ==
    /\ buffer = Nothing
    /\ table = Nothing
    /\ counter = [j \in Jobs |-> 0]
    /\ run = [j \in Jobs |-> 0]
    /\ pc = [f \in Flushers |-> "idle"]
    /\ batch = [f \in Flushers |-> Nothing] /\ left = [f \in Flushers |-> Nothing]
    /\ stopping = FALSE
    /\ logged = {} /\ returned = {}
    /\ faults = 0

Goto(f, place) == pc' = [pc EXCEPT ![f] = place]

-----------------------------------------------------------------------------
\* _cleanup ends with set_buffer(None).
Capturing == pc[Final] # "stopped"

(* append: the entry takes the job's next number.                            *)
AppendEntry(j) ==
    LET e == [job |-> j, run |-> run[j], seq |-> counter[j]]
    IN  /\ buffer' = [buffer EXCEPT ![e] = @ + 1]
        /\ counter' = [counter EXCEPT ![j] = @ + 1]
        /\ logged' = logged \union {e}

\* An execution begins.
Begin(j) ==
    /\ pc[j] = "idle" /\ ~stopping /\ run[j] < MaxRuns
    /\ run' = [run EXCEPT ![j] = @ + 1]
    /\ Goto(j, "body")
    /\ UNCHANGED <<buffer, counter, table, batch, left, stopping, logged, returned, faults>>

\* Its body logs.
Log(j) ==
    /\ pc[j] = "body" /\ counter[j] < MaxLogs
    /\ Capturing
    /\ AppendEntry(j)
    /\ UNCHANGED <<table, run, pc, batch, left, stopping, returned, faults>>

(* flush begins: at the end of an execution, or in _cleanup, whose waits for *)
(* the executions may all have timed out.                                    *)
MayFlush(f) ==
    \/ f \in Jobs /\ pc[f] = "body"
    \/ f = Final /\ pc[f] = "idle" /\ stopping

\* What follows a flush: reset_sequences, or the end of the worker.
After(f) == IF f = Final THEN "stopped" ELSE "reset"

\* Mutant: the entries taken stay in the buffer.
TakeKept(f) ==
    /\ MayFlush(f)
    /\ batch' = [batch EXCEPT ![f] = buffer] /\ left' = [left EXCEPT ![f] = buffer]
    /\ Goto(f, "insert")
    /\ UNCHANGED <<buffer, counter, table, run, stopping, logged, returned, faults>>

Take(f) ==
    /\ MayFlush(f)
    /\ batch' = [batch EXCEPT ![f] = buffer] /\ left' = [left EXCEPT ![f] = buffer]
    /\ buffer' = Nothing
    /\ Goto(f, "insert")
    /\ UNCHANGED <<counter, table, run, stopping, logged, returned, faults>>

Insert(f) ==
    /\ pc[f] = "insert"
    /\ \E e \in In(left[f]) :
         /\ table' = [table EXCEPT ![e] = @ + 1]
         /\ left' = [left EXCEPT ![f][e] = @ - 1]
    /\ UNCHANGED <<buffer, counter, run, pc, batch, stopping, logged, returned, faults>>

Emptied(f) ==
    /\ batch' = [batch EXCEPT ![f] = Nothing]
    /\ left' = [left EXCEPT ![f] = Nothing]

Flushed(f) ==
    /\ pc[f] = "insert" /\ In(left[f]) = {}
    /\ Emptied(f)
    /\ Goto(f, After(f))
    /\ UNCHANGED <<buffer, counter, table, run, stopping, logged, returned, faults>>

Fault == faults < MaxFaults /\ faults' = faults + 1

\* A warning is captured as an entry of the job in whose context it is logged.
Warn(f) ==
    IF f \in Jobs /\ Capturing THEN AppendEntry(f) ELSE UNCHANGED <<buffer, counter, logged>>

\* No session for the flush: _flush_job_logs, or _cleanup, warns and goes on.
Unavailable(f) ==
    /\ MayFlush(f)
    /\ Fault
    /\ Warn(f)
    /\ Goto(f, After(f))
    /\ UNCHANGED <<table, run, batch, left, stopping, returned>>

(* An insert fails; flush awaits its warning, so the others run on, before   *)
(* it puts the batch back.                                                   *)
InsertFails(f) ==
    /\ pc[f] = "insert" /\ In(left[f]) # {}
    /\ Fault
    /\ Warn(f)
    /\ Goto(f, "restore")
    /\ UNCHANGED <<table, run, batch, left, stopping, returned>>

\* Mutant: what was logged since the batch was taken is overwritten.
RestoreOver(f) ==
    /\ pc[f] = "restore"
    /\ buffer' = batch[f]
    /\ returned' = returned \union In(batch[f])
    /\ Emptied(f)
    /\ Goto(f, After(f))
    /\ UNCHANGED <<counter, table, run, stopping, logged, faults>>

Restore(f) ==
    /\ pc[f] = "restore"
    /\ buffer' = [e \in Entry |-> batch[f][e] + buffer[e]]
    /\ returned' = returned \union In(batch[f])
    /\ Emptied(f)
    /\ Goto(f, After(f))
    /\ UNCHANGED <<counter, table, run, stopping, logged, faults>>

(* _cleanup cancels an execution in the middle of its flush: CancelledError  *)
(* is no Exception, so nothing is put back and nothing is reset.             *)
Cancelled(j) ==
    /\ stopping /\ pc[j] \in {"insert", "restore"}
    /\ Fault
    /\ Emptied(j)
    /\ Goto(j, "idle")
    /\ UNCHANGED <<buffer, counter, table, run, stopping, logged, returned>>

\* Mutant: the sequence counter of the ended execution survives.
ResetUncounted(j) ==
    /\ pc[j] = "reset"
    /\ buffer' = [e \in Entry |-> IF e.job = j THEN 0 ELSE buffer[e]]
    /\ Goto(j, "idle")
    /\ UNCHANGED <<counter, table, run, batch, left, stopping, logged, returned, faults>>

\* reset_sequences: the counter and the job's unflushed entries go.
Reset(j) ==
    /\ pc[j] = "reset"
    /\ counter' = [counter EXCEPT ![j] = 0]
    /\ buffer' = [e \in Entry |-> IF e.job = j THEN 0 ELSE buffer[e]]
    /\ Goto(j, "idle")
    /\ UNCHANGED <<table, run, batch, left, stopping, logged, returned, faults>>

\* The worker is told to stop.
Stop ==
    /\ ~stopping
    /\ stopping' = TRUE
    /\ UNCHANGED <<buffer, counter, table, run, pc, batch, left, logged, returned, faults>>

Next ==
    \/ \E j \in Jobs : Begin(j) \/ Log(j) \/ Cancelled(j) \/ Reset(j)
    \/ \E f \in Flushers :
         \/ Take(f) \/ Insert(f) \/ Flushed(f)
         \/ Unavailable(f) \/ InsertFails(f) \/ Restore(f)
    \/ Stop

Spec == Init /\ [][Next]_vars

-----------------------------------------------------------------------------
(* Properties.                                                               *)

Stored == {e \in Entry : table[e] > 0}
Held   == In(buffer) \union Stored \union UNION {In(batch[f]) : f \in Flushers}

(* An entry is given up only by the reset that ends its own job's execution, *)
(* or by the cancellation of the flush that holds it: neither the flush of   *)
(* another job, nor its failure, nor the end of another execution loses it   *)
(* (flush, reset_sequences).                                                 *)
LostOnlyByOwner ==
    [][\A e \in Held :
         \/ e \in Held'
         \/ pc[e.job] = "reset" /\ pc'[e.job] = "idle"
         \/ \E j \in Jobs : /\ e \in In(batch[j]) /\ pc[j] \in {"insert", "restore"}
                            /\ stopping /\ pc'[j] = "idle"]_vars

(* Without a fault nothing is lost and nothing is stored twice, whichever    *)
(* execution's flush stores it; with faults an entry is stored at most once  *)
(* more for each (flush, create_job_logs).                                   *)
StoredOnce ==
    /\ faults = 0 => logged = Held
    /\ \A e \in Entry : table[e] <= 1 + faults

(* The entries of an execution are numbered from 0 without a gap, whatever   *)
(* an earlier execution of the job left behind (append, reset_sequences).    *)
Numbered ==
    \A e \in logged : \A s \in 0 .. e.seq : [e EXCEPT !.seq = s] \in logged

(* When a flush fails its entries are preserved for retry (the warning in    *)
(* flush): they are still held, at least until the worker stops.             *)
PreservedForRetry == ~stopping => returned \subseteq Held
=============================================================================
