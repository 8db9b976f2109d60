---------------------------- MODULE JobLogsProofs ----------------------------
(***************************************************************************)
(* Theorems about JobLogs, for any number of jobs, executions, entries and  *)
(* faults.                                                                  *)
(*                                                                          *)
(* None of the properties is inductive.  What they rest on: the entries of  *)
(* an execution under way are numbered up to the job's counter (Sequenced), *)
(* so that an entry appended is new; an entry is in one list at a time, and *)
(* once (Unique); what a flush has taken and does not have to insert any    *)
(* more is in the table (Part); an entry that may yet be inserted has been  *)
(* stored no more often than flushes have failed (Spent).                   *)
(***************************************************************************)
EXTENDS JobLogs, TLAPS

Sequenced(j) ==
    /\ \A e \in logged : e.job = j => e.run <= run[j]
    /\ pc[j] # "idle" =>
         /\ run[j] >= 1
         /\ \A e \in Entry : e.job = j /\ e.run = run[j] => (e \in logged <=> e.seq < counter[j])
    /\ pc[j] = "idle" /\ ~stopping => counter[j] = 0
    /\ pc[j] \in {"body", "insert"} => counter[j] <= MaxLogs

Somewhere(e) == buffer[e] > 0 \/ table[e] > 0 \/ \E f \in Flushers : batch[f][e] > 0

Unique(e) ==
    /\ buffer[e] <= 1
    /\ \A f \in Flushers : batch[f][e] <= 1 /\ (buffer[e] > 0 => batch[f][e] = 0)
    /\ \A f, g \in Flushers : batch[f][e] > 0 /\ batch[g][e] > 0 => f = g

Part(f, e) == left[f][e] <= batch[f][e] /\ (left[f][e] < batch[f][e] => table[e] > 0)

Spent(e) ==
    /\ table[e] <= 1 + faults
    /\ buffer[e] > 0 => table[e] <= faults
    /\ \A f \in Flushers :
         /\ pc[f] = "insert" /\ left[f][e] > 0 => table[e] <= faults
         /\ pc[f] = "restore" /\ batch[f][e] > 0 => table[e] <= faults

Faultless(e) ==
    faults = 0 =>
      /\ e \in logged => Somewhere(e)
      /\ pc[e.job] # "body" => buffer[e] = 0

Traced(e) ==
    /\ Somewhere(e) => e \in logged
    /\ Unique(e) /\ Spent(e) /\ Faultless(e)
    /\ \A f \in Flushers : Part(f, e)

Flushing ==
    \A f \in Flushers :
        /\ pc[f] \notin {"insert", "restore"} => batch[f] = Nothing
        /\ pc[f] = "restore" => faults > 0

LogsInv ==
    /\ LogsTypeOK
    /\ \A j \in Jobs : Sequenced(j)
    /\ \A e \in Entry : Traced(e)
    /\ Flushing

-----------------------------------------------------------------------------
(* Appending.                                                                *)

\* The entry that an execution logs next.
Fresh(j) == [job |-> j, run |-> run[j], seq |-> counter[j]]

\* It is an entry, and has never been logged.
LEMMA FreshIsNew ==
    ASSUME LogsInv, NEW j \in Jobs, pc[j] \in {"body", "insert"}
    PROVE  Fresh(j) \in Entry \ logged
<1>1. Sequenced(j) /\ counter[j] \in Nat /\ run[j] \in 0 .. MaxRuns /\ MaxLogs \in Nat
      /\ MaxRuns \in Nat
  BY JobLogsAssumption DEF LogsInv, LogsTypeOK, JobLogsAssumption
<1>2. run[j] >= 1 /\ counter[j] <= MaxLogs
  BY <1>1 DEF Sequenced
<1>3. Fresh(j) \in Entry
  BY <1>1, <1>2 DEF Fresh, Entry
<1>4. Fresh(j).job = j /\ Fresh(j).run = run[j] /\ Fresh(j).seq = counter[j]
  BY DEF Fresh
<1>5. QED BY <1>1, <1>3, <1>4 DEF Sequenced

\* Appending puts just that entry into the buffer, once, and counts it.
LEMMA AppendDoes ==
    ASSUME LogsInv, NEW j \in Jobs, pc[j] \in {"body", "insert"}, AppendEntry(j)
    PROVE  /\ buffer' \in Entries /\ logged' = logged \union {Fresh(j)} /\ logged' \subseteq Entry
           /\ \A e \in Entry : buffer'[e] = IF e = Fresh(j) THEN 1 ELSE buffer[e]
           /\ counter' \in [Jobs -> Nat] /\ counter'[j] = counter[j] + 1
           /\ \A i \in Jobs \ {j} : counter'[i] = counter[i]
<1>1. Fresh(j) \in Entry \ logged /\ buffer \in Entries /\ counter \in [Jobs -> Nat]
      /\ logged \subseteq Entry
  BY FreshIsNew DEF LogsInv, LogsTypeOK
<1>2. buffer' = [buffer EXCEPT ![Fresh(j)] = @ + 1] /\ counter' = [counter EXCEPT ![j] = @ + 1]
      /\ logged' = logged \union {Fresh(j)}
  BY DEF AppendEntry, Fresh
<1>3. buffer[Fresh(j)] = 0
  BY <1>1 DEF LogsInv, Traced, Somewhere, Entries
<1> HIDE DEF Fresh
<1>4. QED BY <1>1, <1>2, <1>3 DEF Entries

\* A warning is an entry of the job whose flush it is about, or nothing.
LEMMA WarnDoes ==
    ASSUME LogsInv, NEW f \in Flushers, f \in Jobs => pc[f] \in {"body", "insert"}, Warn(f)
    PROVE  (f \in Jobs /\ AppendEntry(f)) \/ UNCHANGED <<buffer, counter, logged>>
  BY DEF Warn

\* After an append the job's entries are numbered up to its counter.
LEMMA AppendSequenced ==
    ASSUME LogsInv, NEW j \in Jobs, pc[j] \in {"body", "insert"}, AppendEntry(j),
           UNCHANGED <<run, stopping>>, pc'[j] # "idle",
           pc'[j] \in {"body", "insert"} => counter[j] < MaxLogs
    PROVE  Sequenced(j)'
<1>1. /\ Sequenced(j) /\ Fresh(j) \in Entry /\ logged' = logged \union {Fresh(j)}
      /\ counter[j] \in Nat /\ counter'[j] = counter[j] + 1 /\ MaxLogs \in Nat
      /\ run[j] \in 0 .. MaxRuns /\ pc[j] # "idle"
  BY FreshIsNew, AppendDoes, JobLogsAssumption DEF LogsInv, LogsTypeOK, JobLogsAssumption
<1>2. Fresh(j).job = j /\ Fresh(j).run = run[j] /\ Fresh(j).seq = counter[j]
  BY DEF Fresh
<1>3. ASSUME NEW e \in Entry, e.job = j, e.run = run[j]
      PROVE  e = Fresh(j) <=> e.seq = counter[j]
  BY <1>2, <1>3 DEF Entry, Fresh
<1> HIDE DEF Fresh
<1>4. \A e \in logged' : e.job = j => e.run <= run'[j]
  BY <1>1, <1>2 DEF Sequenced
<1>5. ASSUME NEW e \in Entry, e.job = j, e.run = run[j]
      PROVE  e \in logged' <=> e.seq < counter'[j]
  <2>1. e \in logged <=> e.seq < counter[j]
    BY <1>1, <1>5 DEF Sequenced
  <2>2. e.seq \in Nat
    BY <1>1 DEF Entry
  <2>3. QED BY <1>1, <1>3, <1>5, <2>1, <2>2
<1>6. run[j] >= 1 /\ (pc'[j] \in {"body", "insert"} => counter'[j] <= MaxLogs)
  BY <1>1 DEF Sequenced
<1>7. QED BY <1>1, <1>4, <1>5, <1>6 DEF Sequenced

\* It leaves the numbering of the other jobs alone.
LEMMA AppendElsewhere ==
    ASSUME LogsInv, NEW j \in Jobs, pc[j] \in {"body", "insert"}, AppendEntry(j),
           UNCHANGED <<run, stopping>>, NEW i \in Jobs \ {j}, pc'[i] = pc[i]
    PROVE  Sequenced(i)'
<1>1. /\ Sequenced(i) /\ logged' = logged \union {Fresh(j)} /\ counter'[i] = counter[i]
  BY AppendDoes DEF LogsInv
<1>2. Fresh(j).job = j
  BY DEF Fresh
<1> HIDE DEF Fresh
<1>3. QED BY <1>1, <1>2 DEF Sequenced

\* With nothing appended, the numbering depends on the job's place alone.
LEMMA SequencedStill ==
    ASSUME NEW i \in Jobs, Sequenced(i),
           logged' = logged, run'[i] = run[i], counter'[i] = counter[i],
           stopping => stopping', pc[i] # "idle" \/ pc'[i] = "idle", pc'[i] = "idle" => stopping' \/ pc[i] = "idle",
           pc'[i] \in {"body", "insert"} => pc[i] \in {"body", "insert"}
    PROVE  Sequenced(i)'
  BY DEF Sequenced

\* Only the place of the execution, or flush, that steps is changed.
LEMMA GotoDoes ==
    ASSUME LogsTypeOK, NEW f \in Flushers, NEW place \in PCs, Goto(f, place)
    PROVE  /\ pc' \in [Flushers -> PCs] /\ pc'[f] = place
           /\ \A g \in Flushers \ {f} : pc'[g] = pc[g]
  BY DEF LogsTypeOK, Goto

\* A flush that ends leaves its place, and not for the start of an execution.
LEMMA AfterIsPlace ==
    ASSUME NEW f \in Flushers
    PROVE  After(f) \in PCs \ {"insert", "restore", "body", "idle"}
  BY DEF After, PCs

\* The executions and the final flush are different flushers.
LEMMA JobsFlush == Jobs \subseteq Flushers /\ Final \in Flushers /\ Final \notin Jobs
  BY JobLogsAssumption DEF Flushers, JobLogsAssumption

\* An insert moves one entry from what is left to the table.
LEMMA InsertDoes ==
    ASSUME LogsTypeOK, NEW f \in Flushers, NEW e \in In(left[f]),
           table' = [table EXCEPT ![e] = @ + 1], left' = [left EXCEPT ![f][e] = @ - 1]
    PROVE  /\ e \in Entry /\ left[f][e] > 0 /\ table' \in Entries /\ left' \in [Flushers -> Entries]
           /\ table'[e] = table[e] + 1 /\ \A d \in Entry \ {e} : table'[d] = table[d]
           /\ left'[f][e] = left[f][e] - 1
           /\ \A d \in Entry \ {e} : left'[f][d] = left[f][d]
           /\ \A g \in Flushers \ {f} : left'[g] = left[g]
<1>1. e \in Entry /\ left[f][e] > 0 /\ left[f] \in Entries /\ table \in Entries
      /\ left \in [Flushers -> Entries]
  BY DEF In, LogsTypeOK
<1>2. table' \in Entries /\ table'[e] = table[e] + 1 /\ \A d \in Entry \ {e} : table'[d] = table[d]
  BY <1>1 DEF Entries
<1> DEFINE rest == [left[f] EXCEPT ![e] = @ - 1]
<1>3. rest \in Entries /\ rest[e] = left[f][e] - 1 /\ \A d \in Entry \ {e} : rest[d] = left[f][d]
  BY <1>1 DEF Entries
<1>4. left' = [left EXCEPT ![f] = rest]
  OBVIOUS
<1> HIDE DEF rest
<1>5. left' \in [Flushers -> Entries] /\ left'[f] = rest /\ \A g \in Flushers \ {f} : left'[g] = left[g]
  BY <1>1, <1>3, <1>4
<1>6. QED BY <1>1, <1>2, <1>3, <1>5

-----------------------------------------------------------------------------
(* The numbering.                                                            *)

\* Every step keeps the numbering of every job.
LEMMA SequencedStep ==
    ASSUME LogsInv, [Next]_vars, NEW i \in Jobs
    PROVE  Sequenced(i)'
<1> USE JobsFlush
<1>1. LogsTypeOK /\ Sequenced(i) /\ i \in Flushers /\ pc \in [Flushers -> PCs]
  BY DEF LogsInv, LogsTypeOK
<1>2. CASE UNCHANGED vars
  BY <1>1, <1>2, SequencedStill DEF vars
<1>3. ASSUME NEW j \in Jobs, Begin(j)
      PROVE  Sequenced(i)'
  <2>1. pc'[j] = "body" /\ \A g \in Flushers \ {j} : pc'[g] = pc[g]
    BY <1>1, <1>3, GotoDoes DEF Begin, PCs
  <2>2. CASE i # j
    <3>1. run'[i] = run[i] /\ logged' = logged /\ counter' = counter /\ stopping' = stopping
      BY <1>1, <1>3, <2>2 DEF Begin, LogsTypeOK
    <3>2. QED BY <1>1, <2>1, <2>2, <3>1, SequencedStill
  <2>3. CASE i = j
    <3>1. run'[i] = run[i] + 1 /\ run[i] \in Nat /\ logged' = logged /\ counter'[i] = 0
          /\ logged \subseteq Entry
      BY <1>1, <1>3, <2>3, JobLogsAssumption DEF Begin, LogsTypeOK, Sequenced, JobLogsAssumption
    <3>2. ASSUME NEW e \in logged, e.job = i PROVE e.run <= run'[i] /\ e.run # run'[i]
      <4>1. e.run <= run[i] /\ e.run \in Int
        BY <1>1, <3>1, <3>2, JobLogsAssumption DEF Sequenced, Entry, JobLogsAssumption
      <4>2. QED BY <3>1, <4>1
    <3>3. \A e \in Entry : ~(e.seq < counter'[i])
      BY <3>1, JobLogsAssumption DEF Entry, JobLogsAssumption
    <3>4. counter'[i] <= MaxLogs /\ run'[i] >= 1
      BY <3>1, JobLogsAssumption DEF JobLogsAssumption
    <3>5. QED BY <2>1, <2>3, <3>1, <3>2, <3>3, <3>4 DEF Sequenced
  <2>4. QED BY <2>2, <2>3
<1>4. ASSUME NEW j \in Jobs, Log(j)
      PROVE  Sequenced(i)'
  <2>1. pc[j] = "body" /\ AppendEntry(j) /\ UNCHANGED <<run, stopping, pc>> /\ counter[j] < MaxLogs
    BY <1>4 DEF Log
  <2>2. QED BY <2>1, AppendSequenced, AppendElsewhere
<1>5. ASSUME NEW j \in Jobs, Cancelled(j)
      PROVE  Sequenced(i)'
  <2>1. pc'[j] = "idle" /\ \A g \in Flushers \ {j} : pc'[g] = pc[g]
    BY <1>1, <1>5, GotoDoes DEF Cancelled, PCs
  <2>2. stopping /\ UNCHANGED <<logged, run, counter, stopping>>
    BY <1>5 DEF Cancelled
  <2>3. QED BY <1>1, <2>1, <2>2 DEF Sequenced
<1>6. ASSUME NEW j \in Jobs, Reset(j)
      PROVE  Sequenced(i)'
  <2>1. pc'[j] = "idle" /\ \A g \in Flushers \ {j} : pc'[g] = pc[g]
    BY <1>1, <1>6, GotoDoes DEF Reset, PCs
  <2>2. UNCHANGED <<logged, run, stopping>> /\ counter' = [counter EXCEPT ![j] = 0]
        /\ counter \in [Jobs -> Nat]
    BY <1>1, <1>6 DEF Reset, LogsTypeOK
  <2>3. CASE i = j
    BY <1>1, <2>1, <2>2, <2>3 DEF Sequenced
  <2>4. CASE i # j
    <3>1. counter'[i] = counter[i]
      BY <2>2, <2>4
    <3>2. QED BY <1>1, <2>1, <2>2, <2>4, <3>1, SequencedStill
  <2>5. QED BY <2>3, <2>4
<1>7. ASSUME NEW f \in Flushers, UNCHANGED <<counter, run, stopping, logged>>,
             pc[f] = "body" \/ f = Final \/ (pc[f] \in {"insert", "restore"}),
             NEW place \in PCs \ {"idle", "body"}, Goto(f, place),
             place = "insert" => pc[f] = "body" \/ f = Final
      PROVE  Sequenced(i)'
  <2>1. pc'[f] = place /\ \A g \in Flushers \ {f} : pc'[g] = pc[g]
    BY <1>1, <1>7, GotoDoes
  <2>2. QED BY <1>1, <1>7, <2>1, SequencedStill
<1>8. ASSUME NEW f \in Flushers, Take(f) \/ Flushed(f) \/ Restore(f)
      PROVE  Sequenced(i)'
  <2>1. CASE Take(f)
    BY <1>7, <2>1 DEF Take, MayFlush, PCs
  <2>2. CASE Flushed(f)
    BY <1>7, <2>2, AfterIsPlace DEF Flushed
  <2>3. CASE Restore(f)
    BY <1>7, <2>3, AfterIsPlace DEF Restore
  <2>4. QED BY <1>8, <2>1, <2>2, <2>3
<1>9. ASSUME NEW f \in Flushers, Insert(f)
      PROVE  Sequenced(i)'
  BY <1>1, <1>9, SequencedStill DEF Insert
<1>10. ASSUME NEW f \in Flushers, Unavailable(f) \/ InsertFails(f)
       PROVE  Sequenced(i)'
  <2>1. PICK place \in PCs \ {"insert", "body", "idle"} : Goto(f, place)
    BY <1>10, AfterIsPlace DEF Unavailable, InsertFails, PCs
  <2>2. /\ pc[f] = "body" \/ f = Final \/ pc[f] = "insert"
        /\ f \in Jobs => pc[f] \in {"body", "insert"}
        /\ Warn(f) /\ UNCHANGED <<run, stopping>>
    BY <1>10 DEF Unavailable, InsertFails, MayFlush
  <2>3. pc'[f] = place /\ \A g \in Flushers \ {f} : pc'[g] = pc[g]
    BY <1>1, <2>1, GotoDoes
  <2>4. CASE f \in Jobs /\ AppendEntry(f)
    BY <2>1, <2>2, <2>3, <2>4, AppendSequenced, AppendElsewhere
  <2>5. CASE UNCHANGED <<buffer, counter, logged>>
    BY <1>1, <2>1, <2>2, <2>3, <2>5, SequencedStill
  <2>6. QED BY <2>2, <2>4, <2>5, WarnDoes
<1>11. CASE Stop
  BY <1>1, <1>11, SequencedStill DEF Stop
<1>12. QED BY <1>2, <1>3, <1>4, <1>5, <1>6, <1>8, <1>9, <1>10, <1>11 DEF Next

-----------------------------------------------------------------------------
(* Where the entries are.                                                    *)

\* A step that moves no entry and sends no flush into its loop leaves the traces alone.
LEMMA TracedStill ==
    ASSUME NEW e \in Entry, Traced(e), LogsTypeOK, UNCHANGED <<buffer, table, batch, left, logged>>,
           faults' = faults \/ faults' = faults + 1, Flushing,
           \A f \in Flushers : pc'[f] = pc[f] \/ pc'[f] \notin {"insert", "restore"}
                               \/ (pc[f] = "insert" /\ pc'[f] = "restore" /\ faults' > faults),
           faults' = 0 => pc'[e.job] = "body" \/ pc[e.job] # "body"
    PROVE  Traced(e)'
<1>1. /\ buffer \in Entries /\ table \in Entries /\ faults \in Nat
      /\ batch \in [Flushers -> Entries] /\ left \in [Flushers -> Entries]
  BY JobLogsAssumption DEF LogsTypeOK, JobLogsAssumption
<1>2. table[e] \in Nat /\ \A f \in Flushers : batch[f][e] \in Nat /\ left[f][e] \in Nat
  BY <1>1 DEF Entries
<1>3. Somewhere(e)' = Somewhere(e) /\ Unique(e)' /\ \A f \in Flushers : Part(f, e)'
  BY DEF Traced, Somewhere, Unique, Part
<1>4. ASSUME NEW f \in Flushers
      PROVE  /\ pc'[f] = "insert" /\ left'[f][e] > 0 => table'[e] <= faults'
             /\ pc'[f] = "restore" /\ batch'[f][e] > 0 => table'[e] <= faults'
  <2>1. table[e] <= 1 + faults /\ (pc[f] = "insert" /\ left[f][e] > 0 => table[e] <= faults)
        /\ (pc[f] = "restore" /\ batch[f][e] > 0 => table[e] <= faults)
    BY DEF Traced, Spent
  <2>2. faults' >= faults
    BY <1>1
  <2>3. QED BY <1>1, <1>2, <2>1, <2>2
<1>5. Spent(e)'
  <2>1. table[e] <= 1 + faults /\ (buffer[e] > 0 => table[e] <= faults)
    BY DEF Traced, Spent
  <2>2. QED BY <1>1, <1>2, <1>4, <2>1 DEF Spent
<1>6. Faultless(e)'
  BY <1>1, <1>3 DEF Traced, Faultless
<1>7. QED BY <1>3, <1>5, <1>6 DEF Traced

\* An entry appended is in the buffer only.
LEMMA AppendTraced ==
    ASSUME LogsInv, NEW j \in Jobs, pc[j] \in {"body", "insert"}, AppendEntry(j),
           UNCHANGED <<table, batch, left>>, NEW e \in Entry,
           \/ faults' = faults /\ pc' = pc /\ pc[j] = "body"
           \/ /\ faults' = faults + 1
              /\ \A f \in Flushers :
                   \/ pc'[f] = pc[f]
                   \/ pc'[f] \notin {"insert", "restore"}
                   \/ pc[f] = "insert" /\ pc'[f] = "restore"
    PROVE  Traced(e)'
<1> USE JobsFlush
<1>1. /\ buffer \in Entries /\ table \in Entries /\ faults \in Nat /\ logged \subseteq Entry
      /\ batch \in [Flushers -> Entries] /\ left \in [Flushers -> Entries]
      /\ LogsTypeOK /\ Flushing /\ Traced(e)
  BY JobLogsAssumption DEF LogsInv, LogsTypeOK, JobLogsAssumption
<1>2. /\ buffer' \in Entries /\ logged' = logged \union {Fresh(j)} /\ Fresh(j) \in Entry \ logged
      /\ buffer'[e] = IF e = Fresh(j) THEN 1 ELSE buffer[e]
      /\ Fresh(j).job = j
  BY FreshIsNew, AppendDoes DEF Fresh
<1>3. table[e] \in Nat /\ buffer[e] \in Nat /\ \A f \in Flushers : batch[f][e] \in Nat /\ left[f][e] \in Nat
  BY <1>1 DEF Entries
<1> HIDE DEF Fresh
<1>4. CASE e = Fresh(j)
  <2>1. buffer'[e] = 1 /\ table'[e] = 0 /\ \A f \in Flushers : batch'[f][e] = 0 /\ left'[f][e] = 0
    <3>1. ~Somewhere(e)
      BY <1>1, <1>2, <1>4 DEF Traced
    <3>2. ASSUME NEW f \in Flushers PROVE batch[f][e] = 0 /\ left[f][e] = 0
      BY <1>1, <1>3, <3>1 DEF Somewhere, Traced, Part
    <3>3. QED BY <1>2, <1>3, <1>4, <3>1, <3>2 DEF Somewhere
  <2>2. e \in logged' /\ faults' \in Nat
    BY <1>1, <1>2, <1>4
  <2>3. Unique(e)' /\ \A f \in Flushers : Part(f, e)'
    BY <2>1 DEF Unique, Part
  <2>4. Spent(e)'
    BY <2>1, <2>2 DEF Spent
  <2>5. Somewhere(e)'
    BY <2>1 DEF Somewhere
  <2>6. Faultless(e)'
    BY <1>1, <1>2, <1>4, <2>5 DEF Faultless
  <2>7. QED BY <2>2, <2>3, <2>4, <2>5, <2>6 DEF Traced
<1>5. CASE e # Fresh(j)
  <2>1. buffer'[e] = buffer[e] /\ table' = table /\ batch' = batch /\ left' = left
        /\ (e \in logged' <=> e \in logged) /\ faults' \in Nat
        /\ (faults' = faults \/ faults' = faults + 1)
    BY <1>1, <1>2, <1>5
  <2>2. (Somewhere(e)' <=> Somewhere(e)) /\ Unique(e)' /\ \A f \in Flushers : Part(f, e)'
    BY <1>1, <2>1 DEF Traced, Somewhere, Unique, Part
  <2>3. ASSUME NEW f \in Flushers
        PROVE  /\ pc'[f] = "insert" /\ left'[f][e] > 0 => table'[e] <= faults'
               /\ pc'[f] = "restore" /\ batch'[f][e] > 0 => table'[e] <= faults'
    <3>1. table[e] <= 1 + faults /\ (pc[f] = "insert" /\ left[f][e] > 0 => table[e] <= faults)
          /\ (pc[f] = "restore" /\ batch[f][e] > 0 => table[e] <= faults)
      BY <1>1 DEF Traced, Spent
    <3>2. QED BY <1>1, <1>3, <2>1, <3>1
  <2>4. Spent(e)'
    <3>1. table[e] <= 1 + faults /\ (buffer[e] > 0 => table[e] <= faults)
      BY <1>1 DEF Traced, Spent
    <3>2. QED BY <1>1, <1>3, <2>1, <2>3, <3>1 DEF Spent
  <2>5. Faultless(e)'
    BY <1>1, <2>1, <2>2 DEF Traced, Faultless
  <2>6. QED BY <1>1, <2>1, <2>2, <2>4, <2>5 DEF Traced
<1>6. QED BY <1>4, <1>5

\* The numbers that LogsTypeOK promises, for one entry.
LEMMA CountsAreNat ==
    ASSUME LogsTypeOK, NEW e \in Entry
    PROVE  /\ buffer[e] \in Nat /\ table[e] \in Nat /\ faults \in Nat /\ e.job \in Jobs
           /\ \A f \in Flushers : batch[f][e] \in Nat /\ left[f][e] \in Nat
<1>1. faults \in Nat
  BY JobLogsAssumption DEF LogsTypeOK, JobLogsAssumption
<1>2. e.job \in Jobs
  BY DEF Entry
<1>3. QED BY <1>1, <1>2 DEF LogsTypeOK, Entries

\* A flush takes the whole buffer.
LEMMA TakeTraced ==
    ASSUME LogsInv, NEW f \in Flushers, Take(f), NEW e \in Entry
    PROVE  Traced(e)'
<1> USE JobsFlush
<1>1. LogsTypeOK /\ Traced(e)
  BY DEF LogsInv
<1>2. /\ pc'[f] = "insert" /\ \A g \in Flushers \ {f} : pc'[g] = pc[g]
      /\ pc[f] \notin {"insert", "restore"}
  BY <1>1, GotoDoes DEF Take, MayFlush, PCs
<1>3. batch[f][e] = 0
  BY <1>2 DEF LogsInv, Flushing, Nothing
<1>4. /\ UNCHANGED <<table, logged, faults>> /\ buffer'[e] = 0
      /\ batch'[f][e] = buffer[e] /\ left'[f][e] = buffer[e]
      /\ \A g \in Flushers \ {f} : batch'[g] = batch[g] /\ left'[g] = left[g]
  BY <1>1 DEF Take, LogsTypeOK, Nothing
<1>5. /\ buffer[e] \in Nat /\ table[e] \in Nat /\ faults \in Nat
      /\ \A g \in Flushers : batch[g][e] \in Nat /\ left[g][e] \in Nat
  BY <1>1, CountsAreNat
<1>6. Somewhere(e)' <=> Somewhere(e)
  BY <1>3, <1>4, <1>5 DEF Somewhere
<1>7. Unique(e)'
  <2>1. ASSUME NEW g \in Flushers, batch'[g][e] > 0
        PROVE  (g = f /\ buffer[e] > 0) \/ (g # f /\ batch[g][e] > 0 /\ buffer[e] = 0)
    BY <1>1, <1>4, <1>5, <2>1 DEF Traced, Unique
  <2>2. ASSUME NEW g \in Flushers PROVE batch'[g][e] <= 1
    BY <1>1, <1>4 DEF Traced, Unique
  <2>3. ASSUME NEW g \in Flushers, NEW h \in Flushers, batch'[g][e] > 0, batch'[h][e] > 0
        PROVE  g = h
    BY <1>1, <1>5, <2>1, <2>3 DEF Traced, Unique
  <2>4. QED BY <1>4, <2>2, <2>3 DEF Unique
<1>8. ASSUME NEW g \in Flushers PROVE Part(g, e)'
  BY <1>1, <1>4, <1>5 DEF Traced, Part
<1>9. Spent(e)'
  <2>1. ASSUME NEW g \in Flushers
        PROVE  /\ pc'[g] = "insert" /\ left'[g][e] > 0 => table'[e] <= faults'
               /\ pc'[g] = "restore" /\ batch'[g][e] > 0 => table'[e] <= faults'
    BY <1>1, <1>2, <1>4 DEF Traced, Spent
  <2>2. QED BY <1>1, <1>4, <2>1 DEF Traced, Spent
<1>10. Faultless(e)'
  BY <1>1, <1>4, <1>6 DEF Traced, Faultless
<1>11. QED BY <1>1, <1>4, <1>6, <1>7, <1>8, <1>9, <1>10 DEF Traced

\* An insert leaves no more of the entry to be inserted.
LEMMA InsertTraced ==
    ASSUME LogsInv, NEW f \in Flushers, Insert(f), NEW e \in Entry
    PROVE  Traced(e)'
<1> USE JobsFlush
<1>1. LogsTypeOK /\ Traced(e)
  BY DEF LogsInv
<1>2. PICK d \in In(left[f]) : table' = [table EXCEPT ![d] = @ + 1] /\ left' = [left EXCEPT ![f][d] = @ - 1]
  BY DEF Insert
<1>3. UNCHANGED <<buffer, pc, batch, logged, faults>> /\ pc[f] = "insert"
  BY DEF Insert
<1>4. /\ buffer[e] \in Nat /\ table[e] \in Nat /\ faults \in Nat
      /\ \A g \in Flushers : batch[g][e] \in Nat /\ left[g][e] \in Nat
  BY <1>1, CountsAreNat
<1>5. CASE d = e
  <2>1. /\ left[f][e] > 0 /\ table'[e] = table[e] + 1 /\ left'[f][e] = left[f][e] - 1
        /\ \A g \in Flushers \ {f} : left'[g] = left[g]
    BY <1>1, <1>2, <1>5, InsertDoes
  <2>2. left[f][e] = 1 /\ batch[f][e] = 1 /\ buffer[e] = 0 /\ table[e] <= faults
    BY <1>1, <1>3, <1>4, <2>1 DEF Traced, Unique, Part, Spent
  <2>3. \A g \in Flushers \ {f} : batch[g][e] = 0 /\ left[g][e] = 0
    BY <1>1, <1>4, <2>2 DEF Traced, Unique, Part
  <2>4. Somewhere(e) /\ Somewhere(e)' /\ Unique(e)'
    BY <1>1, <1>3, <2>2 DEF Traced, Unique, Somewhere
  <2>5. ASSUME NEW g \in Flushers PROVE Part(g, e)'
    BY <1>1, <1>3, <1>4, <2>1, <2>2 DEF Traced, Part
  <2>6. ASSUME NEW g \in Flushers
        PROVE  ~(pc'[g] = "insert" /\ left'[g][e] > 0) /\ ~(pc'[g] = "restore" /\ batch'[g][e] > 0)
    BY <1>3, <1>4, <2>1, <2>2, <2>3
  <2>7. Spent(e)'
    BY <1>3, <1>4, <2>1, <2>2, <2>6 DEF Spent
  <2>8. QED BY <1>1, <1>3, <2>4, <2>5, <2>7 DEF Traced, Faultless
<1>6. CASE d # e
  <2>1. table'[e] = table[e] /\ \A g \in Flushers : left'[g][e] = left[g][e]
    BY <1>1, <1>2, <1>6, InsertDoes
  <2>2. (Somewhere(e)' <=> Somewhere(e)) /\ Unique(e)' /\ \A g \in Flushers : Part(g, e)'
    BY <1>1, <1>3, <2>1 DEF Traced, Unique, Part, Somewhere
  <2>3. Spent(e)'
    BY <1>1, <1>3, <2>1 DEF Traced, Spent
  <2>4. QED BY <1>1, <1>3, <2>2, <2>3 DEF Traced, Faultless
<1>7. QED BY <1>5, <1>6

\* What a flush that ends has taken is in the table.
LEMMA FlushedTraced ==
    ASSUME LogsInv, NEW f \in Flushers, Flushed(f), NEW e \in Entry
    PROVE  Traced(e)'
<1> USE JobsFlush
<1>1. LogsTypeOK /\ Traced(e)
  BY DEF LogsInv
<1>2. /\ pc[f] = "insert" /\ pc'[f] \notin {"insert", "restore", "body"}
      /\ \A g \in Flushers \ {f} : pc'[g] = pc[g]
  BY <1>1, GotoDoes, AfterIsPlace DEF Flushed
<1>3. /\ UNCHANGED <<buffer, table, logged, faults>> /\ left[f][e] = 0
      /\ batch'[f][e] = 0 /\ left'[f][e] = 0
      /\ \A g \in Flushers \ {f} : batch'[g] = batch[g] /\ left'[g] = left[g]
  <2>1. left[f][e] = 0
    BY <1>1, CountsAreNat DEF Flushed, In
  <2>2. QED BY <1>1, <2>1 DEF Flushed, Emptied, LogsTypeOK, Nothing
<1>4. /\ buffer[e] \in Nat /\ table[e] \in Nat /\ faults \in Nat /\ e.job \in Jobs
      /\ \A g \in Flushers : batch[g][e] \in Nat /\ left[g][e] \in Nat
  BY <1>1, CountsAreNat
<1>5. batch[f][e] > 0 => table[e] > 0
  BY <1>1, <1>3 DEF Traced, Part
<1>6. Somewhere(e)' <=> Somewhere(e)
  BY <1>3, <1>5 DEF Somewhere
<1>7. Unique(e)'
  BY <1>1, <1>3 DEF Traced, Unique
<1>8. ASSUME NEW g \in Flushers PROVE Part(g, e)'
  BY <1>1, <1>3 DEF Traced, Part
<1>9. Spent(e)'
  BY <1>1, <1>2, <1>3 DEF Traced, Spent
<1>10. Faultless(e)'
  BY <1>1, <1>2, <1>3, <1>4, <1>6 DEF Traced, Faultless
<1>11. QED BY <1>1, <1>3, <1>6, <1>7, <1>8, <1>9, <1>10 DEF Traced

\* A flush that fails puts its batch back.
LEMMA RestoreTraced ==
    ASSUME LogsInv, NEW f \in Flushers, Restore(f), NEW e \in Entry
    PROVE  Traced(e)'
<1> USE JobsFlush
<1>1. LogsTypeOK /\ Traced(e)
  BY DEF LogsInv
<1>2. /\ pc[f] = "restore" /\ pc'[f] \notin {"insert", "restore", "body"}
      /\ \A g \in Flushers \ {f} : pc'[g] = pc[g]
  BY <1>1, GotoDoes, AfterIsPlace DEF Restore
<1>3. /\ UNCHANGED <<table, logged, faults>> /\ buffer'[e] = batch[f][e] + buffer[e]
      /\ batch'[f][e] = 0 /\ left'[f][e] = 0
      /\ \A g \in Flushers \ {f} : batch'[g] = batch[g] /\ left'[g] = left[g]
  BY <1>1 DEF Restore, Emptied, LogsTypeOK, Nothing
<1>4. /\ buffer[e] \in Nat /\ table[e] \in Nat /\ faults \in Nat /\ e.job \in Jobs
      /\ \A g \in Flushers : batch[g][e] \in Nat /\ left[g][e] \in Nat
  BY <1>1, CountsAreNat
<1>5. faults > 0
  BY <1>2 DEF LogsInv, Flushing
<1>6. Somewhere(e)' <=> Somewhere(e)
  BY <1>3, <1>4 DEF Somewhere
<1>7. Unique(e)'
  <2>1. batch[f][e] = 0 \/ (batch[f][e] = 1 /\ buffer[e] = 0 /\ \A g \in Flushers \ {f} : batch[g][e] = 0)
    BY <1>1, <1>4 DEF Traced, Unique
  <2>2. CASE batch[f][e] = 0
    BY <1>1, <1>3, <1>4, <2>2 DEF Traced, Unique
  <2>3. CASE batch[f][e] = 1 /\ buffer[e] = 0 /\ \A g \in Flushers \ {f} : batch[g][e] = 0
    BY <1>3, <2>3 DEF Unique
  <2>4. QED BY <2>1, <2>2, <2>3
<1>8. ASSUME NEW g \in Flushers PROVE Part(g, e)'
  BY <1>1, <1>3 DEF Traced, Part
<1>9. Spent(e)'
  <2>1. buffer'[e] > 0 => table[e] <= faults
    BY <1>1, <1>2, <1>3, <1>4 DEF Traced, Spent
  <2>2. QED BY <1>1, <1>2, <1>3, <2>1 DEF Traced, Spent
<1>10. Faultless(e)'
  BY <1>3, <1>4, <1>5 DEF Faultless
<1>11. QED BY <1>1, <1>3, <1>6, <1>7, <1>8, <1>9, <1>10 DEF Traced

\* A cancellation needs a fault.
LEMMA CancelledTraced ==
    ASSUME LogsInv, NEW j \in Jobs, Cancelled(j), NEW e \in Entry
    PROVE  Traced(e)'
<1> USE JobsFlush
<1>1. LogsTypeOK /\ Traced(e)
  BY DEF LogsInv
<1>2. /\ pc'[j] \notin {"insert", "restore"} /\ \A g \in Flushers \ {j} : pc'[g] = pc[g]
  BY <1>1, GotoDoes DEF Cancelled, PCs
<1>3. /\ UNCHANGED <<buffer, table, logged>> /\ faults' = faults + 1
      /\ batch'[j][e] = 0 /\ left'[j][e] = 0
      /\ \A g \in Flushers \ {j} : batch'[g] = batch[g] /\ left'[g] = left[g]
  BY <1>1 DEF Cancelled, Emptied, Fault, LogsTypeOK, Nothing
<1>4. buffer[e] \in Nat /\ table[e] \in Nat /\ faults \in Nat
  BY <1>1, CountsAreNat
<1>5. (Somewhere(e)' => Somewhere(e)) /\ Unique(e)' /\ \A g \in Flushers : Part(g, e)'
  BY <1>1, <1>3 DEF Traced, Somewhere, Unique, Part
<1>6. Spent(e)'
  <2>1. ASSUME NEW g \in Flushers
        PROVE  /\ pc'[g] = "insert" /\ left'[g][e] > 0 => table'[e] <= faults'
               /\ pc'[g] = "restore" /\ batch'[g][e] > 0 => table'[e] <= faults'
    BY <1>1, <1>3, <1>4 DEF Traced, Spent
  <2>2. QED BY <1>1, <1>3, <1>4, <2>1 DEF Traced, Spent
<1>7. QED BY <1>1, <1>3, <1>4, <1>5, <1>6 DEF Traced, Faultless

\* A reset drops entries of the buffer, none as long as nothing has failed.
LEMMA ResetTraced ==
    ASSUME LogsInv, NEW j \in Jobs, Reset(j), NEW e \in Entry
    PROVE  Traced(e)'
<1> USE JobsFlush
<1>1. LogsTypeOK /\ Traced(e)
  BY DEF LogsInv
<1>2. /\ pc[j] = "reset" /\ pc'[j] = "idle" /\ \A g \in Flushers \ {j} : pc'[g] = pc[g]
  BY <1>1, GotoDoes DEF Reset, PCs
<1>3. /\ UNCHANGED <<table, batch, left, logged, faults>>
      /\ buffer'[e] = IF e.job = j THEN 0 ELSE buffer[e]
  BY DEF Reset
<1>4. buffer[e] \in Nat /\ table[e] \in Nat /\ faults \in Nat /\ e.job \in Jobs
  BY <1>1, CountsAreNat
<1>5. (Somewhere(e)' => Somewhere(e)) /\ Unique(e)' /\ \A g \in Flushers : Part(g, e)'
  BY <1>1, <1>3 DEF Traced, Somewhere, Unique, Part
<1>6. Spent(e)'
  BY <1>1, <1>2, <1>3 DEF Traced, Spent
<1>7. Faultless(e)'
  <2>1. faults = 0 => buffer'[e] = buffer[e]
    BY <1>1, <1>2, <1>3 DEF Traced, Faultless
  <2>2. faults = 0 => (Somewhere(e)' <=> Somewhere(e))
    BY <1>3, <2>1 DEF Somewhere
  <2>3. pc[e.job] # pc'[e.job] => pc[e.job] # "body"
    BY <1>2, <1>4
  <2>4. QED BY <1>1, <1>3, <2>1, <2>2, <2>3 DEF Traced, Faultless
<1>8. QED BY <1>1, <1>3, <1>5, <1>6, <1>7 DEF Traced

\* Every step keeps the trace of every entry.
LEMMA TracedStep ==
    ASSUME LogsInv, [Next]_vars, NEW e \in Entry
    PROVE  Traced(e)'
<1> USE JobsFlush
<1>1. LogsTypeOK /\ Traced(e) /\ Flushing /\ faults \in Nat /\ e.job \in Jobs
  BY CountsAreNat DEF LogsInv
<1>2. CASE UNCHANGED vars
  BY <1>1, <1>2, TracedStill DEF vars
<1>3. ASSUME NEW j \in Jobs, Begin(j)
      PROVE  Traced(e)'
  <2>1. /\ pc[j] = "idle" /\ pc'[j] = "body" /\ \A g \in Flushers \ {j} : pc'[g] = pc[g]
        /\ UNCHANGED <<buffer, table, batch, left, logged, faults>>
    BY <1>1, <1>3, GotoDoes DEF Begin, PCs
  <2>2. QED BY <1>1, <2>1, TracedStill
<1>4. ASSUME NEW j \in Jobs, Log(j)
      PROVE  Traced(e)'
  BY <1>1, <1>4, AppendTraced DEF Log
<1>5. ASSUME NEW f \in Flushers, Unavailable(f) \/ InsertFails(f)
      PROVE  Traced(e)'
  <2>1. PICK place \in PCs \ {"insert", "body", "idle"} :
          Goto(f, place) /\ (place = "restore" => pc[f] = "insert")
    BY <1>5, AfterIsPlace DEF Unavailable, InsertFails, PCs
  <2>2. /\ f \in Jobs => pc[f] \in {"body", "insert"}
        /\ Warn(f) /\ UNCHANGED <<table, batch, left>> /\ faults' = faults + 1
    BY <1>5 DEF Unavailable, InsertFails, MayFlush, Fault
  <2>3. \A g \in Flushers : pc'[g] = pc[g] \/ pc'[g] \notin {"insert", "restore"}
                             \/ (pc[g] = "insert" /\ pc'[g] = "restore")
    BY <1>1, <2>1, GotoDoes
  <2>4. CASE f \in Jobs /\ AppendEntry(f)
    BY <2>2, <2>3, <2>4, AppendTraced
  <2>5. CASE UNCHANGED <<buffer, counter, logged>>
    BY <1>1, <2>2, <2>3, <2>5, TracedStill
  <2>6. QED BY <2>2, <2>4, <2>5, WarnDoes
<1>6. CASE Stop
  BY <1>1, <1>6, TracedStill DEF Stop
<1>7. QED BY <1>2, <1>3, <1>4, <1>5, <1>6, TakeTraced, InsertTraced, FlushedTraced,
             RestoreTraced, CancelledTraced, ResetTraced DEF Next

-----------------------------------------------------------------------------
(* The batches and the types.                                                *)

\* Every step keeps the batches where the flushes are.
LEMMA FlushingStep ==
    ASSUME LogsInv, [Next]_vars
    PROVE  Flushing'
<1> SUFFICES ASSUME NEW g \in Flushers
             PROVE  /\ pc'[g] \notin {"insert", "restore"} => batch'[g] = Nothing
                    /\ pc'[g] = "restore" => faults' > 0
  BY DEF Flushing
<1> USE JobsFlush
<1>1. LogsTypeOK /\ faults \in Nat /\ (pc[g] = "restore" => faults > 0)
      /\ (pc[g] \notin {"insert", "restore"} => batch[g] = Nothing)
  BY JobLogsAssumption DEF LogsInv, Flushing, LogsTypeOK, JobLogsAssumption
<1>2. CASE UNCHANGED vars
  BY <1>1, <1>2 DEF vars
<1>3. ASSUME NEW f \in Flushers, NEW place \in PCs, Goto(f, place),
             (place \notin {"insert", "restore"} /\ Emptied(f))
             \/ (place \notin {"insert", "restore"} /\ pc[f] \notin {"insert", "restore"} /\ batch' = batch)
             \/ (place = "restore" /\ faults' = faults + 1 /\ batch' = batch)
             \/ (place = "insert" /\ batch' = [batch EXCEPT ![f] = buffer]),
             faults' = faults \/ faults' = faults + 1
      PROVE  /\ pc'[g] \notin {"insert", "restore"} => batch'[g] = Nothing
             /\ pc'[g] = "restore" => faults' > 0
  <2>1. pc'[f] = place /\ \A h \in Flushers \ {f} : pc'[h] = pc[h]
    BY <1>1, <1>3, GotoDoes
  <2>2. batch \in [Flushers -> Entries]
    BY <1>1 DEF LogsTypeOK
  <2>3. CASE g # f
    BY <1>1, <1>3, <2>1, <2>2, <2>3 DEF Emptied
  <2>4. CASE g = f
    BY <1>1, <1>3, <2>1, <2>2, <2>4 DEF Emptied
  <2>5. QED BY <2>3, <2>4
<1>4. ASSUME NEW j \in Jobs, Begin(j) \/ Cancelled(j) \/ Reset(j)
      PROVE  /\ pc'[g] \notin {"insert", "restore"} => batch'[g] = Nothing
             /\ pc'[g] = "restore" => faults' > 0
  <2>1. CASE Begin(j)
    BY <1>3, <2>1 DEF Begin, PCs
  <2>2. CASE Cancelled(j)
    BY <1>3, <2>2 DEF Cancelled, Fault, PCs
  <2>3. CASE Reset(j)
    BY <1>3, <2>3 DEF Reset, PCs
  <2>4. QED BY <1>4, <2>1, <2>2, <2>3
<1>5. ASSUME NEW f \in Flushers, Take(f) \/ Flushed(f) \/ Unavailable(f) \/ InsertFails(f) \/ Restore(f)
      PROVE  /\ pc'[g] \notin {"insert", "restore"} => batch'[g] = Nothing
             /\ pc'[g] = "restore" => faults' > 0
  <2>1. CASE Take(f)
    BY <1>3, <2>1 DEF Take, PCs
  <2>2. CASE Flushed(f)
    BY <1>3, <2>2, AfterIsPlace DEF Flushed
  <2>3. CASE Unavailable(f)
    BY <1>3, <2>3, AfterIsPlace DEF Unavailable, MayFlush, Fault
  <2>4. CASE InsertFails(f)
    BY <1>3, <2>4 DEF InsertFails, Fault, PCs
  <2>5. CASE Restore(f)
    BY <1>3, <2>5, AfterIsPlace DEF Restore
  <2>6. QED BY <1>5, <2>1, <2>2, <2>3, <2>4, <2>5
<1>6. ASSUME UNCHANGED <<pc, batch, faults>>
      PROVE  /\ pc'[g] \notin {"insert", "restore"} => batch'[g] = Nothing
             /\ pc'[g] = "restore" => faults' > 0
  BY <1>1, <1>6
<1>7. QED BY <1>2, <1>4, <1>5, <1>6 DEF Next, Log, Insert, Stop

\* The empty list is a list.
LEMMA NothingIsEntries == Nothing \in Entries
  BY DEF Nothing, Entries

\* A flush that lets go of its batch leaves lists.
LEMMA EmptiedType ==
    ASSUME LogsTypeOK, NEW f \in Flushers, Emptied(f)
    PROVE  batch' \in [Flushers -> Entries] /\ left' \in [Flushers -> Entries]
  BY NothingIsEntries DEF Emptied, LogsTypeOK

\* Every step keeps the types; what is put back was logged, being traced.
LEMMA TypeStep ==
    ASSUME LogsInv, [Next]_vars
    PROVE  LogsTypeOK'
<1> USE JobsFlush
<1>1. LogsTypeOK /\ MaxRuns \in Nat /\ MaxLogs \in Nat /\ MaxFaults \in Nat
  BY JobLogsAssumption DEF LogsInv, JobLogsAssumption
<1>2. CASE UNCHANGED vars
  BY <1>1, <1>2 DEF vars, LogsTypeOK
<1>3. ASSUME NEW j \in Jobs, Begin(j)
      PROVE  LogsTypeOK'
  <2>1. pc' \in [Flushers -> PCs]
    BY <1>1, <1>3, GotoDoes DEF Begin, PCs
  <2>2. run' \in [Jobs -> 0 .. MaxRuns]
    BY <1>1, <1>3 DEF Begin, LogsTypeOK
  <2>3. QED BY <1>1, <1>3, <2>1, <2>2 DEF Begin, LogsTypeOK
<1>4. ASSUME NEW j \in Jobs, Log(j)
      PROVE  LogsTypeOK'
  <2>1. pc[j] = "body" /\ AppendEntry(j)
        /\ UNCHANGED <<table, run, pc, batch, left, stopping, returned, faults>>
    BY <1>4 DEF Log
  <2>2. buffer' \in Entries /\ logged' \subseteq Entry /\ logged \subseteq logged'
        /\ counter' \in [Jobs -> Nat]
    BY <2>1, AppendDoes
  <2>3. QED BY <1>1, <2>1, <2>2 DEF LogsTypeOK
<1>5. ASSUME NEW j \in Jobs, Cancelled(j)
      PROVE  LogsTypeOK'
  <2>1. pc' \in [Flushers -> PCs]
    BY <1>1, <1>5, GotoDoes DEF Cancelled, PCs
  <2>2. batch' \in [Flushers -> Entries] /\ left' \in [Flushers -> Entries]
    BY <1>1, <1>5, EmptiedType DEF Cancelled
  <2>3. faults' \in 0 .. MaxFaults
    BY <1>1, <1>5 DEF Cancelled, Fault, LogsTypeOK
  <2>4. QED BY <1>1, <1>5, <2>1, <2>2, <2>3 DEF Cancelled, LogsTypeOK
<1>6. ASSUME NEW j \in Jobs, Reset(j)
      PROVE  LogsTypeOK'
  <2>1. pc' \in [Flushers -> PCs]
    BY <1>1, <1>6, GotoDoes DEF Reset, PCs
  <2>2. buffer' \in Entries
    BY <1>1, <1>6 DEF Reset, LogsTypeOK, Entries
  <2>3. counter' \in [Jobs -> Nat]
    BY <1>1, <1>6 DEF Reset, LogsTypeOK
  <2>4. QED BY <1>1, <1>6, <2>1, <2>2, <2>3 DEF Reset, LogsTypeOK
<1>7. ASSUME NEW f \in Flushers, Take(f)
      PROVE  LogsTypeOK'
  <2>1. pc' \in [Flushers -> PCs]
    BY <1>1, <1>7, GotoDoes DEF Take, PCs
  <2>2. batch' \in [Flushers -> Entries] /\ left' \in [Flushers -> Entries] /\ buffer' \in Entries
    BY <1>1, <1>7, NothingIsEntries DEF Take, LogsTypeOK
  <2>3. QED BY <1>1, <1>7, <2>1, <2>2 DEF Take, LogsTypeOK
<1>8. ASSUME NEW f \in Flushers, Insert(f)
      PROVE  LogsTypeOK'
  <2>1. table' \in Entries /\ left' \in [Flushers -> Entries]
    BY <1>1, <1>8, InsertDoes DEF Insert
  <2>2. QED BY <1>1, <1>8, <2>1 DEF Insert, LogsTypeOK
<1>9. ASSUME NEW f \in Flushers, Flushed(f)
      PROVE  LogsTypeOK'
  <2>1. pc' \in [Flushers -> PCs]
    BY <1>1, <1>9, GotoDoes, AfterIsPlace DEF Flushed
  <2>2. batch' \in [Flushers -> Entries] /\ left' \in [Flushers -> Entries]
    BY <1>1, <1>9, EmptiedType DEF Flushed
  <2>3. QED BY <1>1, <1>9, <2>1, <2>2 DEF Flushed, LogsTypeOK
<1>10. ASSUME NEW f \in Flushers, Unavailable(f) \/ InsertFails(f)
       PROVE  LogsTypeOK'
  <2>1. PICK place \in PCs : Goto(f, place)
    BY <1>10, AfterIsPlace DEF Unavailable, InsertFails, PCs
  <2>2. /\ f \in Jobs => pc[f] \in {"body", "insert"}
        /\ Warn(f) /\ UNCHANGED <<table, run, batch, left, stopping, returned>>
        /\ faults' \in 0 .. MaxFaults
    BY <1>1, <1>10 DEF Unavailable, InsertFails, MayFlush, Fault, LogsTypeOK
  <2>3. pc' \in [Flushers -> PCs]
    BY <1>1, <2>1, GotoDoes
  <2>4. buffer' \in Entries /\ logged' \subseteq Entry /\ logged \subseteq logged'
        /\ counter' \in [Jobs -> Nat]
    <3>1. CASE f \in Jobs /\ AppendEntry(f)
      BY <2>2, <3>1, AppendDoes
    <3>2. CASE UNCHANGED <<buffer, counter, logged>>
      BY <1>1, <3>2 DEF LogsTypeOK
    <3>3. QED BY <2>2, <3>1, <3>2, WarnDoes
  <2>5. QED BY <1>1, <2>2, <2>3, <2>4 DEF LogsTypeOK
<1>11. ASSUME NEW f \in Flushers, Restore(f)
       PROVE  LogsTypeOK'
  <2>1. pc' \in [Flushers -> PCs]
    BY <1>1, <1>11, GotoDoes, AfterIsPlace DEF Restore
  <2>2. batch' \in [Flushers -> Entries] /\ left' \in [Flushers -> Entries]
    BY <1>1, <1>11, EmptiedType DEF Restore
  <2>3. buffer' \in Entries
    <3>1. buffer' = [e \in Entry |-> batch[f][e] + buffer[e]]
      BY <1>11 DEF Restore
    <3>2. \A e \in Entry : batch[f][e] + buffer[e] \in Nat
      BY <1>1, CountsAreNat
    <3>3. QED BY <3>1, <3>2 DEF Entries
  <2>4. returned' \subseteq logged
    <3>1. In(batch[f]) \subseteq logged
      BY DEF In, LogsInv, Traced, Somewhere
    <3>2. QED BY <1>1, <1>11, <3>1 DEF Restore, LogsTypeOK
  <2>5. QED BY <1>1, <1>11, <2>1, <2>2, <2>3, <2>4 DEF Restore, LogsTypeOK
<1>12. CASE Stop
  BY <1>1, <1>12 DEF Stop, LogsTypeOK
<1>13. QED BY <1>2, <1>3, <1>4, <1>5, <1>6, <1>7, <1>8, <1>9, <1>10, <1>11, <1>12 DEF Next

-----------------------------------------------------------------------------
(* The theorems.                                                             *)

\* The invariant that the properties rest on.
THEOREM LogsInductive == Spec => []LogsInv
<1>1. Init => LogsInv
  <2> SUFFICES ASSUME Init PROVE LogsInv
    OBVIOUS
  <2> USE JobsFlush
  <2>1. LogsTypeOK
    <3>1. MaxRuns \in Nat /\ MaxFaults \in Nat /\ "idle" \in PCs
      BY JobLogsAssumption DEF JobLogsAssumption, PCs
    <3>2. run \in [Jobs -> 0 .. MaxRuns] /\ faults \in 0 .. MaxFaults /\ counter \in [Jobs -> Nat]
      BY <3>1 DEF Init
    <3>3. QED BY <3>1, <3>2, NothingIsEntries DEF Init, LogsTypeOK
  <2>2. \A j \in Jobs : Sequenced(j)
    BY DEF Init, Sequenced
  <2>3. ASSUME NEW e \in Entry PROVE Traced(e)
    <3>1. buffer[e] = 0 /\ table[e] = 0 /\ \A f \in Flushers : batch[f][e] = 0 /\ left[f][e] = 0
      BY DEF Init, Nothing
    <3>2. faults = 0 /\ e \notin logged /\ ~Somewhere(e)
      BY <3>1 DEF Init, Somewhere
    <3>3. Unique(e) /\ Spent(e) /\ Faultless(e) /\ \A f \in Flushers : Part(f, e)
      BY <3>1, <3>2 DEF Unique, Spent, Faultless, Part
    <3>4. QED BY <3>2, <3>3 DEF Traced
  <2>4. Flushing
    BY DEF Init, Flushing
  <2>5. QED BY <2>1, <2>2, <2>3, <2>4 DEF LogsInv
<1>2. ASSUME LogsInv, [Next]_vars PROVE LogsInv'
  BY <1>2, TypeStep, SequencedStep, TracedStep, FlushingStep DEF LogsInv, Entry
<1>3. QED BY <1>1, <1>2, PTL DEF Spec

\* What the buffer, the table and the batches hold are entries, and what was put back was logged.
THEOREM LogsTypeCorrect == Spec => []LogsTypeOK
<1>1. LogsInv => LogsTypeOK
  BY DEF LogsInv
<1>2. QED BY <1>1, LogsInductive, PTL

(* Without a fault nothing is lost and nothing stored twice; with faults an  *)
(* entry is stored at most once more for each (flush, create_job_logs).      *)
THEOREM StoredOnceHolds == Spec => []StoredOnce
<1>1. ASSUME LogsInv PROVE StoredOnce
  <2>1. ASSUME NEW e \in Entry PROVE Somewhere(e) <=> e \in Held
    BY DEF Somewhere, Held, Stored, In
  <2>2. Held \subseteq Entry /\ logged \subseteq Entry
    BY <1>1 DEF Held, Stored, In, LogsInv, LogsTypeOK
  <2>3. faults = 0 => logged = Held
    BY <1>1, <2>1, <2>2 DEF LogsInv, Traced, Faultless
  <2>4. \A e \in Entry : table[e] <= 1 + faults
    BY <1>1 DEF LogsInv, Traced, Spent
  <2>5. QED BY <2>3, <2>4 DEF StoredOnce
<1>2. QED BY <1>1, LogsInductive, PTL

(* The entries of an execution are numbered from 0 without a gap (append,    *)
(* reset_sequences).                                                         *)
THEOREM NumberedHolds == Spec => []Numbered
<1>1. Init => Numbered
  BY DEF Init, Numbered
<1>2. ASSUME LogsInv, Numbered, [Next]_vars PROVE Numbered'
  <2>1. CASE logged' = logged
    BY <1>2, <2>1 DEF Numbered
  <2>2. ASSUME NEW j \in Jobs, pc[j] \in {"body", "insert"}, AppendEntry(j)
        PROVE  Numbered'
    <3>1. /\ logged' = logged \union {Fresh(j)} /\ Fresh(j) \in Entry /\ Sequenced(j)
          /\ counter[j] \in Nat
      BY <1>2, <2>2, FreshIsNew, AppendDoes DEF LogsInv, LogsTypeOK
    <3>2. /\ pc[j] # "idle"
          /\ \A e \in Entry : e.job = j /\ e.run = run[j] => (e \in logged <=> e.seq < counter[j])
      BY <2>2, <3>1 DEF Sequenced
    <3>3. ASSUME NEW s \in 0 .. counter[j]
          PROVE  [Fresh(j) EXCEPT !.seq = s] \in logged'
      <4>1. CASE s = counter[j]
        BY <3>1, <4>1 DEF Fresh
      <4>2. CASE s < counter[j]
        <5>1. [Fresh(j) EXCEPT !.seq = s] \in Entry
          BY <3>1, <4>2, JobLogsAssumption DEF Fresh, Entry, JobLogsAssumption
        <5>2. QED BY <3>1, <3>2, <4>2, <5>1 DEF Fresh
      <4>3. QED BY <3>1, <4>1, <4>2
    <3>4. Fresh(j).seq = counter[j]
      BY DEF Fresh
    <3> HIDE DEF Fresh
    <3>5. QED BY <1>2, <3>1, <3>3, <3>4 DEF Numbered
  <2>3. ASSUME NEW f \in Flushers, Unavailable(f) \/ InsertFails(f)
        PROVE  Numbered'
    <3>1. Warn(f) /\ (f \in Jobs => pc[f] \in {"body", "insert"})
      BY <2>3, JobsFlush DEF Unavailable, InsertFails, MayFlush
    <3>2. QED BY <1>2, <2>1, <2>2, <3>1, WarnDoes
  <2>4. QED BY <1>2, <2>1, <2>2, <2>3
            DEF Next, vars, Begin, Log, Cancelled, Reset, Take, Insert, Flushed, Restore, Stop
<1>3. QED BY <1>1, <1>2, LogsInductive, PTL DEF Spec

(* An entry is given up only by the reset that ends its own job's execution, *)
(* or by the cancellation of the flush that holds it (flush,                 *)
(* reset_sequences).                                                         *)
THEOREM LostOnlyByOwnerHolds == Spec => LostOnlyByOwner
<1> DEFINE Owned(e) ==
      \/ pc[e.job] = "reset" /\ pc'[e.job] = "idle"
      \/ \E j \in Jobs : /\ e \in In(batch[j]) /\ pc[j] \in {"insert", "restore"}
                         /\ stopping /\ pc'[j] = "idle"
<1>1. ASSUME LogsInv, [Next]_vars, NEW e \in Entry, Somewhere(e)
      PROVE  Somewhere(e)' \/ Owned(e)
  <2> USE JobsFlush
  <2>1. LogsTypeOK
    BY <1>1 DEF LogsInv
  <2>2. /\ buffer[e] \in Nat /\ table[e] \in Nat /\ e.job \in Jobs
        /\ \A f \in Flushers : batch[f][e] \in Nat /\ left[f][e] \in Nat
    BY <2>1, CountsAreNat
  <2>3. CASE UNCHANGED <<buffer, table, batch>>
    BY <1>1, <2>3 DEF Somewhere
  <2>4. ASSUME NEW j \in Jobs, pc[j] \in {"body", "insert"}, AppendEntry(j), UNCHANGED <<table, batch>>
        PROVE  Somewhere(e)'
    <3>1. buffer[e] > 0 => buffer'[e] > 0
      BY <1>1, <2>4, AppendDoes
    <3>2. QED BY <1>1, <2>2, <2>4, <3>1 DEF Somewhere
  <2>5. ASSUME NEW j \in Jobs, Cancelled(j)
        PROVE  Somewhere(e)' \/ Owned(e)
    <3>1. pc'[j] = "idle" /\ stopping /\ pc[j] \in {"insert", "restore"} /\ UNCHANGED <<buffer, table>>
          /\ \A g \in Flushers \ {j} : batch'[g] = batch[g]
      BY <2>1, <2>5, GotoDoes DEF Cancelled, Emptied, PCs, LogsTypeOK
    <3>2. CASE batch[j][e] > 0
      BY <3>1, <3>2 DEF In
    <3>3. CASE ~(batch[j][e] > 0)
      BY <1>1, <3>1, <3>3 DEF Somewhere
    <3>4. QED BY <3>2, <3>3
  <2>6. ASSUME NEW j \in Jobs, Reset(j)
        PROVE  Somewhere(e)' \/ Owned(e)
    <3>1. pc[j] = "reset" /\ pc'[j] = "idle" /\ UNCHANGED <<table, batch>>
          /\ buffer'[e] = IF e.job = j THEN 0 ELSE buffer[e]
      BY <2>1, <2>6, GotoDoes DEF Reset, PCs
    <3>2. QED BY <1>1, <3>1 DEF Somewhere
  <2>7. ASSUME NEW f \in Flushers, Take(f)
        PROVE  Somewhere(e)'
    <3>1. batch[f] = Nothing
      BY <1>1, <2>7 DEF Take, MayFlush, LogsInv, Flushing
    <3>2. /\ table' = table /\ batch'[f] = buffer
          /\ \A g \in Flushers \ {f} : batch'[g] = batch[g]
      BY <2>1, <2>7 DEF Take, LogsTypeOK
    <3>3. batch[f][e] = 0
      BY <3>1 DEF Nothing
    <3>4. QED BY <1>1, <3>2, <3>3 DEF Somewhere
  <2>8. ASSUME NEW f \in Flushers, Insert(f)
        PROVE  Somewhere(e)'
    <3>1. (table[e] > 0 => table'[e] > 0) /\ UNCHANGED <<buffer, batch>>
      BY <2>1, <2>2, <2>8, InsertDoes DEF Insert
    <3>2. QED BY <1>1, <2>2, <3>1 DEF Somewhere
  <2>9. ASSUME NEW f \in Flushers, Flushed(f)
        PROVE  Somewhere(e)'
    <3>1. left[f][e] = 0 /\ (batch[f][e] > 0 => table[e] > 0)
      BY <1>1, <2>2, <2>9 DEF Flushed, In, LogsInv, Traced, Part
    <3>2. UNCHANGED <<buffer, table>> /\ \A g \in Flushers \ {f} : batch'[g] = batch[g]
      BY <2>1, <2>9 DEF Flushed, Emptied, LogsTypeOK
    <3>3. QED BY <1>1, <3>1, <3>2 DEF Somewhere
  <2>10. ASSUME NEW f \in Flushers, Restore(f)
         PROVE  Somewhere(e)'
    <3>1. table' = table /\ buffer'[e] = batch[f][e] + buffer[e]
          /\ \A g \in Flushers \ {f} : batch'[g] = batch[g]
      BY <2>1, <2>10 DEF Restore, Emptied, LogsTypeOK
    <3>2. QED BY <1>1, <2>2, <3>1 DEF Somewhere
  <2>11. ASSUME NEW f \in Flushers, Unavailable(f) \/ InsertFails(f)
         PROVE  Somewhere(e)'
    <3>1. Warn(f) /\ (f \in Jobs => pc[f] \in {"body", "insert"}) /\ UNCHANGED <<table, batch>>
      BY <2>11 DEF Unavailable, InsertFails, MayFlush
    <3>2. CASE UNCHANGED <<buffer, counter, logged>>
      BY <1>1, <3>1, <3>2 DEF Somewhere
    <3>3. QED BY <1>1, <2>4, <3>1, <3>2, WarnDoes
  <2>12. ASSUME NEW j \in Jobs, Log(j)
         PROVE  Somewhere(e)'
    BY <2>4, <2>12 DEF Log
  <2> HIDE DEF Owned
  <2>13. QED BY <1>1, <2>3, <2>5, <2>6, <2>7, <2>8, <2>9, <2>10, <2>11, <2>12
             DEF Next, vars, Begin, Stop
<1>2. ASSUME LogsInv, [Next]_vars
      PROVE  [\A e \in Held :
                \/ e \in Held'
                \/ pc[e.job] = "reset" /\ pc'[e.job] = "idle"
                \/ \E j \in Jobs : /\ e \in In(batch[j]) /\ pc[j] \in {"insert", "restore"}
                                   /\ stopping /\ pc'[j] = "idle"]_vars
  <2>1. ASSUME NEW e \in Held PROVE e \in Entry /\ Somewhere(e)
    BY DEF Held, Stored, In, Somewhere
  <2>2. ASSUME NEW e \in Entry, Somewhere(e)' PROVE e \in Held'
    BY <2>2 DEF Held, Stored, In, Somewhere
  <2>3. ASSUME NEW e \in Held PROVE e \in Held' \/ Owned(e)
    <3> HIDE DEF Owned
    <3>1. QED BY <1>1, <1>2, <2>1, <2>2
  <2>4. QED BY <2>3
<1>3. QED BY <1>2, LogsInductive, PTL DEF Spec, LostOnlyByOwner
=============================================================================
