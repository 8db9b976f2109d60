---------------------------- MODULE SystemProofs ----------------------------
(* Theorems about the Cloud Run worker and the start of a process, for any    *)
(* number of rows, containers, processes and values. Each component is proved *)
(* about alone; EachAlone carries that, and what AccountsProofs and           *)
(* RealtimeProofs show, over to the services together.                        *)
(*                                                                            *)
(* CloudRun: OverlapOnlyAfterRequeue is not inductive, because an execution   *)
(* that has returned still writes the row. Weighed counts all who hold it,    *)
(* from the claim to the end, against its recoveries, the containers whose    *)
(* claim raised and whether it is open: running, or settled under a holder. Touched bounds   *)
(* the age that recovery sees by the heartbeats that failed.                  *)
(*                                                                            *)
(* That the row keeps the promise of JobLifecycle needs more: without a       *)
(* recovery whoever holds it holds it alone (HeldOnce), so the steps of the   *)
(* strict lifecycle follow from the same count.                               *)
(*                                                                            *)
(* Installation: OneIdUnlessRace is not inductive: an upsert must find no     *)
(* process up, and that is so because a process generates only while the      *)
(* table has no id, which Alone adds. SplitOnlyByRow needs what a process     *)
(* still remembers of its import: Remembers says where each of its copies of  *)
(* the setting comes from.                                                    *)
EXTENDS MCServices, AccountsProofs, RealtimeProofs, TableProofs

-----------------------------------------------------------------------------
(* CloudRun: the invariant.                                                   *)

\* A row that somebody may hold though neither recovery nor a failed claim has put it back:
\* it is running, or a container that had no function for it, or was not done with it, has
\* settled it under its holder.
Pursued(j) == IsRunning(j) \/ (j \in premature /\ job[j].status \in {"deleted"} \union Terminal)

Holders(j) == {c \in Holding : Id(c) = j}

\* Those who hold the row are one more than its recoveries and failed claims at most, and
\* none more if it is not open.
Weighed(j) ==
  Cardinality(Holders(j)) + (IF j \in rival THEN 1 ELSE 0)
    <= requeues[j] + strays[j] + (IF Pursued(j) THEN 1 ELSE 0)

\* The row of a container at work is no older than the heartbeats that failed, and the one
\* that is due.
Touched(c) ==
  AtStage(c, "body") /\ IsRunning(Id(c)) =>
    job[Id(c)].age <= missed + (IF container[c].fresh THEN 0 ELSE 1)

CloudInv ==
  /\ CloudTypeOK /\ TableInv
  /\ \A j \in Jobs : Weighed(j)
  /\ \A c \in Containers : Touched(c)

HoldStages == {"dropping", "body", "completing", "retrying", "givingUp"}

-----------------------------------------------------------------------------
(* Containers.                                                                *)

\* A container that moves is at its new stage, with its job.
LEMMA MoveToDoes ==
  ASSUME CloudTypeOK, NEW c \in Containers, NEW stage \in Stages, MoveTo(c, stage)
  PROVE  /\ container' \in [Containers -> [stage : Stages, id : Jobs, fresh : BOOLEAN]]
         /\ AtStage(c, stage)' /\ Id(c)' = Id(c) /\ container'[c].fresh
         /\ \A d \in Containers \ {c} : container'[d] = container[d]
<1> DEFINE moved == [container[c] EXCEPT !.stage = stage, !.fresh = TRUE]
<1>1. container[c] \in [stage : Stages, id : Jobs, fresh : BOOLEAN]
  BY DEF CloudTypeOK
<1>2. /\ moved \in [stage : Stages, id : Jobs, fresh : BOOLEAN]
      /\ moved.stage = stage /\ moved.id = container[c].id /\ moved.fresh
  BY <1>1
<1>3. container' = [container EXCEPT ![c] = moved]
  BY <1>1 DEF MoveTo, CloudTypeOK
<1> HIDE DEF moved
<1>4. QED BY <1>2, <1>3 DEF CloudTypeOK, AtStage, Id

\* The holders of a row are finitely many.
LEMMA HoldersFinite ==
  ASSUME NEW j \in Jobs
  PROVE  IsFiniteSet(Holders(j)) /\ Cardinality(Holders(j)) \in Nat
<1>1. Holders(j) \subseteq Containers
  BY DEF Holders, Holding
<1>2. QED BY <1>1, CloudAssumption, FS_Subset, FS_CardinalityType DEF CloudAssumption

\* Nobody new holds the row, and it is as open as it was, or put back once more.
LEMMA WeighedStill ==
  ASSUME CloudTypeOK, NEW j \in Jobs, Weighed(j), Holders(j)' \subseteq Holders(j),
         j \in rival' => j \in rival,
         \/ requeues'[j] = requeues[j] /\ strays'[j] = strays[j] /\ (Pursued(j) => Pursued(j)')
         \/ requeues'[j] = requeues[j] + 1 /\ strays'[j] = strays[j]
         \/ requeues'[j] = requeues[j] /\ strays'[j] = strays[j] + 1
  PROVE  Weighed(j)'
<1>1. /\ Cardinality(Holders(j)) \in Nat /\ Cardinality(Holders(j)') \in Nat
      /\ Cardinality(Holders(j)') <= Cardinality(Holders(j))
  BY HoldersFinite, FS_Subset, FS_CardinalityType
<1>2. requeues[j] \in Nat /\ strays[j] \in Nat
  BY TableAssumption DEF TableAssumption, CloudTypeOK, TableTypeOK
<1>3. QED BY <1>1, <1>2 DEF Weighed

\* A holder who goes takes the right to the row along, whatever becomes of the row.
LEMMA WeighedLess ==
  ASSUME CloudTypeOK, NEW j \in Jobs, Weighed(j), requeues'[j] = requeues[j], strays'[j] = strays[j],
         \/ /\ j \in rival /\ j \notin rival'
            /\ Holders(j)' \subseteq Holders(j)
         \/ /\ \E c \in Holders(j) : Holders(j)' \subseteq Holders(j) \ {c}
            /\ j \in rival' => j \in rival
  PROVE  Weighed(j)'
<1>1. requeues[j] \in Nat /\ strays[j] \in Nat
  BY TableAssumption DEF TableAssumption, CloudTypeOK, TableTypeOK
<1>2. Cardinality(Holders(j)) \in Nat /\ IsFiniteSet(Holders(j))
  BY HoldersFinite
<1>3. CASE /\ j \in rival /\ j \notin rival'
           /\ Holders(j)' \subseteq Holders(j)
  <2>1. Cardinality(Holders(j)') \in Nat /\ Cardinality(Holders(j)') <= Cardinality(Holders(j))
    BY <1>2, <1>3, FS_Subset, FS_CardinalityType
  <2>2. QED BY <1>1, <1>2, <1>3, <2>1 DEF Weighed
<1>4. ASSUME NEW c \in Holders(j), Holders(j)' \subseteq Holders(j) \ {c}, j \in rival' => j \in rival
      PROVE  Weighed(j)'
  <2>1. /\ IsFiniteSet(Holders(j) \ {c})
        /\ Cardinality(Holders(j) \ {c}) = Cardinality(Holders(j)) - 1
    BY <1>2, <1>4, FS_RemoveElement
  <2>2. Cardinality(Holders(j)') \in Nat /\ Cardinality(Holders(j)') <= Cardinality(Holders(j)) - 1
    BY <1>4, <2>1, FS_Subset, FS_CardinalityType
  <2>3. QED BY <1>1, <1>2, <1>4, <2>2 DEF Weighed
<1>5. QED BY <1>3, <1>4

\* A claim finds a queued row, which is not open, and opens it.
LEMMA WeighedMore ==
  ASSUME CloudTypeOK, NEW j \in Jobs, Weighed(j), ClaimTask(j), strays' = strays,
         \/ Holders(j)' = Holders(j) /\ rival' = rival \union {j}
         \/ rival' = rival /\ \E c \in Containers : Holders(j)' = Holders(j) \union {c}
  PROVE  Weighed(j)'
<1>1. requeues[j] \in Nat /\ strays[j] \in Nat /\ job \in [Jobs -> JobRow]
  BY TableAssumption DEF TableAssumption, CloudTypeOK, TableTypeOK
<1>2. Cardinality(Holders(j)) \in Nat /\ IsFiniteSet(Holders(j))
  BY HoldersFinite
<1>3. ~Pursued(j) /\ Pursued(j)' /\ requeues' = requeues
  BY <1>1 DEF ClaimTask, IsQueued, Queued, Pursued, IsRunning, Terminal, SetStatus, JobRow
<1>4. CASE Holders(j)' = Holders(j) /\ rival' = rival \union {j}
  BY <1>1, <1>2, <1>3, <1>4 DEF Weighed
<1>5. ASSUME NEW c \in Containers, Holders(j)' = Holders(j) \union {c}, rival' = rival
      PROVE  Weighed(j)'
  <2>1. Cardinality(Holders(j)') \in Nat /\ Cardinality(Holders(j)') <= Cardinality(Holders(j)) + 1
    <3>1. \/ Cardinality(Holders(j) \union {c}) = Cardinality(Holders(j))
          \/ Cardinality(Holders(j) \union {c}) = Cardinality(Holders(j)) + 1
      BY <1>2, FS_AddElement
    <3>2. QED BY <1>2, <1>5, <3>1
  <2>2. QED BY <1>1, <1>2, <1>3, <1>5, <2>1 DEF Weighed
<1>6. QED BY <1>4, <1>5

\* Who holds what after a container has moved.
LEMMA HoldersMove ==
  ASSUME CloudTypeOK, NEW c \in Containers, NEW stage \in Stages, MoveTo(c, stage), NEW j \in Jobs
  PROVE  Holders(j)' = IF j # Id(c) THEN Holders(j)
                       ELSE IF stage \in HoldStages THEN Holders(j) \union {c} ELSE Holders(j) \ {c}
<1>1. /\ container'[c].stage = stage /\ container'[c].id = Id(c)
      /\ \A d \in Containers \ {c} : container'[d] = container[d]
  BY MoveToDoes DEF AtStage, Id
<1>2. \A d : d \in Holders(j) <=> d \in Containers /\ container[d].stage \in HoldStages /\ container[d].id = j
  BY DEF Holders, Holding, HoldStages, Id
<1>3. \A d : d \in Holders(j)' <=> d \in Containers /\ container'[d].stage \in HoldStages /\ container'[d].id = j
  BY DEF Holders, Holding, HoldStages, Id
<1>4. CASE j # Id(c)
  BY <1>1, <1>2, <1>3, <1>4 DEF Id
<1>5. CASE j = Id(c) /\ stage \in HoldStages
  BY <1>1, <1>2, <1>3, <1>5
<1>6. CASE j = Id(c) /\ stage \notin HoldStages
  BY <1>1, <1>2, <1>3, <1>6
<1>7. QED BY <1>4, <1>5, <1>6

-----------------------------------------------------------------------------
(* Who holds a row.                                                           *)

\* The statements about one row leave the others alone, and no claim is one of recovery.
LEMMA OneRow ==
  ASSUME TableTypeOK, NEW j \in Jobs,
         ClaimTask(j) \/ CompleteTask(j) \/ \E retry \in BOOLEAN : FailTask(j, retry)
  PROVE  requeues' = requeues /\ \A i \in Jobs \ {j} : job'[i] = job[i]
  BY DEF TableTypeOK, ClaimTask, CompleteTask, FailTask

\* A row stays open while its status stands.
LEMMA OpenStill ==
  ASSUME NEW j \in Jobs, job'[j].status = job[j].status, premature \subseteq premature'
  PROVE  Pursued(j) => Pursued(j)'
  BY DEF Pursued, IsRunning

\* Beats and the passing of time touch no status.
LEMMA AgesOnly ==
  ASSUME TableTypeOK, AgeHeartbeats \/ \E js \in SUBSET Jobs : UpdateHeartbeats(js), NEW j \in Jobs
  PROVE  job'[j].status = job[j].status /\ requeues' = requeues
  BY DEF TableTypeOK, JobRow, AgeHeartbeats, UpdateHeartbeats

\* A step of a container keeps the weight of every row.
LEMMA WeighedContainer ==
  ASSUME CloudInv, NEW c \in Containers, ContainerStep(c), NEW j \in Jobs
  PROVE  Weighed(j)'
<1> USE DEF Stages, HoldStages
<1>1. CloudTypeOK /\ TableTypeOK /\ Weighed(j) /\ Id(c) \in Jobs
  BY DEF CloudInv, CloudTypeOK, Id
<1>2. c \in Holders(Id(c)) <=> container[c].stage \in HoldStages
  BY DEF Holders, Holding
<1>3. ASSUME NEW stage \in Stages, MoveTo(c, stage), UNCHANGED <<tableVars, rival, premature, strays>>,
             stage \notin HoldStages \/ container[c].stage \in HoldStages
      PROVE  Weighed(j)'
  <2>1. Holders(j)' \subseteq Holders(j)
    BY <1>1, <1>2, <1>3, HoldersMove
  <2>2. Pursued(j) => Pursued(j)'
    BY <1>3 DEF Pursued, IsRunning, tableVars
  <2>3. QED BY <1>1, <1>3, <2>1, <2>2, WeighedStill DEF tableVars
<1>4. CASE Launch(c)
  BY <1>3, <1>4 DEF Launch
<1>5. CASE FailUnknown(c)
  <2>1. /\ MoveTo(c, "exited") /\ FailTask(Id(c), FALSE) /\ rival' = rival
        /\ premature' = premature \union {Id(c)} /\ strays' = strays
    BY <1>5 DEF FailUnknown
  <2>2. Holders(j)' \subseteq Holders(j)
    BY <1>1, <2>1, HoldersMove
  <2>3. requeues' = requeues /\ (j # Id(c) => job'[j] = job[j])
    BY <1>1, <2>1, OneRow
  <2>4. CASE j # Id(c)
    BY <1>1, <2>1, <2>2, <2>3, <2>4, OpenStill, WeighedStill
  <2>5. CASE j = Id(c)
    <3>1. FailTask(j, FALSE) /\ j \in premature'
      BY <2>1, <2>5
    <3>2. Exists(j) => job'[j].status = "failed"
      BY <1>1, <3>1 DEF FailTask, TableTypeOK, JobRow, SetStatus
    <3>3. ~Exists(j) => job' = job
      BY <3>1 DEF FailTask
    <3>4. Pursued(j) => Pursued(j)'
      BY <3>1, <3>2, <3>3 DEF Pursued, IsRunning, Exists, Terminal
    <3>5. QED BY <1>1, <2>1, <2>2, <2>3, <3>4, WeighedStill
  <2>6. QED BY <2>4, <2>5
<1>6. CASE ClaimJob(c)
  <2>1. CASE (MoveTo(c, "exited") \/ MoveTo(c, "straying")) /\ UNCHANGED tableVars
    BY <1>3, <1>6, <2>1 DEF ClaimJob
  <2>2. ASSUME NEW next \in {"body", "dropping"}, ClaimTask(Id(c)), MoveTo(c, next)
        PROVE  Weighed(j)'
    <3>1. rival' = rival /\ premature' = premature /\ strays' = strays
      BY <1>6 DEF ClaimJob
    <3>2. requeues' = requeues /\ (j # Id(c) => job'[j] = job[j])
      BY <1>1, <2>2, OneRow
    <3>3. CASE j # Id(c)
      <4>1. Holders(j)' = Holders(j)
        BY <1>1, <2>2, <3>3, HoldersMove
      <4>2. QED BY <1>1, <3>1, <3>2, <3>3, <4>1, OpenStill, WeighedStill
    <3>4. CASE j = Id(c)
      <4>1. Holders(j)' = Holders(j) \union {c}
        BY <1>1, <2>2, <3>4, HoldersMove
      <4>2. ClaimTask(j)
        BY <2>2, <3>4
      <4>3. QED BY <1>1, <3>1, <4>1, <4>2, WeighedMore
    <3>5. QED BY <3>3, <3>4
  <2>3. QED BY <1>6, <2>1, <2>2 DEF ClaimJob
<1>7. CASE ReturnFromJob(c)
  BY <1>3, <1>7 DEF ReturnFromJob, AtStage
<1>8. ASSUME container[c].stage \in HoldStages, MoveTo(c, "exited"),
             CompleteTask(Id(c)) \/ \E retry \in BOOLEAN : FailTask(Id(c), retry),
             UNCHANGED <<rival, premature, strays>>
      PROVE  Weighed(j)'
  <2>1. requeues' = requeues /\ (j # Id(c) => job'[j] = job[j])
    BY <1>1, <1>8, OneRow
  <2>2. CASE j # Id(c)
    <3>1. Holders(j)' = Holders(j)
      BY <1>1, <1>8, <2>2, HoldersMove
    <3>2. QED BY <1>1, <1>8, <2>1, <2>2, <3>1, OpenStill, WeighedStill
  <2>3. CASE j = Id(c)
    <3>1. Holders(j)' = Holders(j) \ {c} /\ c \in Holders(j)
      BY <1>1, <1>2, <1>8, <2>3, HoldersMove
    <3>2. QED BY <1>1, <1>8, <2>1, <3>1, WeighedLess
  <2>4. QED BY <2>2, <2>3
<1>9. CASE Complete(c)
  <2>1. CASE UNCHANGED tableVars /\ MoveTo(c, "retrying") /\ premature' = premature
    BY <1>3, <1>9, <2>1 DEF Complete, AtStage
  <2>2. CASE CompleteTask(Id(c)) /\ MoveTo(c, "retrying") /\ premature' = premature \union {Id(c)}
    <3>1. rival' = rival /\ strays' = strays
      BY <1>9 DEF Complete
    <3>2. requeues' = requeues /\ (j # Id(c) => job'[j] = job[j])
      BY <1>1, <2>2, OneRow
    <3>3. Holders(j)' \subseteq Holders(j)
      BY <1>1, <1>2, <1>9, <2>2, HoldersMove DEF Complete, AtStage
    <3>4. CASE j # Id(c)
      BY <1>1, <2>2, <3>1, <3>2, <3>3, <3>4, OpenStill, WeighedStill
    <3>5. CASE j = Id(c)
      <4>1. CompleteTask(j) /\ j \in premature'
        BY <2>2, <3>5
      <4>2. Exists(j) => job'[j].status = "completed"
        BY <1>1, <4>1 DEF CompleteTask, TableTypeOK, JobRow, SetStatus
      <4>3. ~Exists(j) => job' = job
        BY <4>1 DEF CompleteTask
      <4>4. Pursued(j) => Pursued(j)'
        BY <4>1, <4>2, <4>3 DEF Pursued, IsRunning, Exists, Terminal
      <4>5. QED BY <1>1, <3>1, <3>2, <3>3, <4>4, WeighedStill
    <3>6. QED BY <3>4, <3>5
  <2>3. CASE CompleteTask(Id(c)) /\ MoveTo(c, "exited") /\ premature' = premature
    BY <1>9, <1>8, <2>3 DEF Complete, AtStage
  <2>4. QED BY <1>9, <2>1, <2>2, <2>3 DEF Complete
<1>10. CASE Fail(c)
  BY <1>10, <1>8 DEF Fail, AtStage
<1>11. CASE Killed(c)
  BY <1>3, <1>11 DEF Killed
<1>12. CASE BeatOnce(c)
  <2>1. Holders(j)' = Holders(j)
    <3>1. \A d \in Containers : container'[d].stage = container[d].stage /\ container'[d].id = container[d].id
      BY <1>1, <1>12 DEF BeatOnce, CloudTypeOK
    <3>2. QED BY <3>1 DEF Holders, Holding, Id
  <2>2. /\ UpdateHeartbeats({Id(c)}) \/ UNCHANGED tableVars
        /\ rival' = rival /\ premature' = premature /\ strays' = strays
    BY <1>12 DEF BeatOnce
  <2>3. job'[j].status = job[j].status /\ requeues' = requeues
    BY <1>1, <2>2, AgesOnly DEF tableVars
  <2>4. QED BY <1>1, <2>1, <2>2, <2>3, OpenStill, WeighedStill
<1>13. CASE FailStray(c)
  <2>1. /\ MoveTo(c, "exited") /\ FailTask(Id(c), TRUE) /\ UNCHANGED <<rival, premature>>
        /\ strays' = [strays EXCEPT ![Id(c)] = @ + 1]
    BY <1>13 DEF FailStray
  <2>2. Holders(j)' \subseteq Holders(j)
    BY <1>1, <2>1, HoldersMove
  <2>3. requeues' = requeues /\ (j # Id(c) => job'[j] = job[j])
    BY <1>1, <2>1, OneRow
  <2>4. strays'[j] = IF j = Id(c) THEN strays[j] + 1 ELSE strays[j]
    BY <1>1, <2>1 DEF CloudTypeOK
  <2>5. j # Id(c) => (Pursued(j) => Pursued(j)')
    BY <2>1, <2>3, OpenStill
  <2>6. QED BY <1>1, <2>1, <2>2, <2>3, <2>4, <2>5, WeighedStill
<1>14. QED
  BY <1>4, <1>5, <1>6, <1>7, <1>9, <1>10, <1>11, <1>12, <1>13 DEF ContainerStep

\* So does every step.
LEMMA WeighedStep ==
  ASSUME CloudInv, [CloudNext]_cloudVars, NEW i \in Jobs
  PROVE  Weighed(i)'
<1>1. CloudTypeOK /\ TableTypeOK /\ Weighed(i) /\ rival \subseteq Jobs
  BY DEF CloudInv, CloudTypeOK
<1>2. ASSUME container' = container PROVE Holders(i)' = Holders(i)
  BY <1>2 DEF Holders, Holding, Id
<1>3. CASE UNCHANGED cloudVars
  BY <1>1, <1>2, <1>3, OpenStill, WeighedStill DEF cloudVars
<1>4. CASE Interval
  <2>1. Holders(i)' = Holders(i)
    <3>1. \A d \in Containers : container'[d].stage = container[d].stage /\ container'[d].id = container[d].id
      BY <1>1, <1>4 DEF Interval, CloudTypeOK
    <3>2. QED BY <3>1 DEF Holders, Holding, Id
  <2>2. AgeHeartbeats /\ UNCHANGED <<rival, premature, strays>>
    BY <1>4 DEF Interval
  <2>3. QED BY <1>1, <2>1, <2>2, AgesOnly, OpenStill, WeighedStill
<1>5. CASE RivalBeats
  BY <1>1, <1>2, <1>5, AgesOnly, OpenStill, WeighedStill DEF RivalBeats
<1>6. ASSUME NEW j \in Jobs, CreateOrCancel(j) PROVE Weighed(i)'
  <2>1. UNCHANGED <<container, rival, premature, strays>>
    BY <1>6 DEF CreateOrCancel
  <2>2. requeues' = requeues /\ (i # j => job'[i] = job[i])
    BY <1>1, <1>6 DEF CreateOrCancel, CreateTask, CancelTask, FallDue, CleanupOldJobs, TableTypeOK
  <2>3. CASE i # j
    BY <1>1, <1>2, <2>1, <2>2, <2>3, OpenStill, WeighedStill
  <2>4. CASE i = j
    <3>1. CASE CleanupOldJobs({j})
      <4>1. IsTerminal(i) /\ job'[i].status = "deleted"
        BY <1>1, <2>4, <3>1 DEF CleanupOldJobs, SetStatus, TableTypeOK, JobRow
      <4>2. Pursued(i) => Pursued(i)'
        BY <2>1, <4>1 DEF Pursued, IsRunning, IsTerminal, Terminal
      <4>3. QED BY <1>1, <1>2, <2>1, <2>2, <4>2, WeighedStill
    <3>2. CASE ~CleanupOldJobs({j})
      <4>1. job[i].status \in Queued \union {"absent"}
        BY <1>6, <2>4, <3>2 DEF CreateOrCancel, CreateTask, CancelTask, FallDue, IsQueued
      <4>2. ~Pursued(i)
        BY <4>1 DEF Pursued, IsRunning, Queued, Terminal
      <4>3. QED BY <1>1, <1>2, <2>1, <2>2, <4>2, WeighedStill
    <3>3. QED BY <3>1, <3>2
  <2>5. QED BY <2>3, <2>4
<1>7. ASSUME NEW j \in Jobs, RivalClaims(j) PROVE Weighed(i)'
  <2>1. ClaimTask(j) /\ rival' = rival \union {j} /\ UNCHANGED <<container, premature, strays>>
    BY <1>7 DEF RivalClaims
  <2>2. requeues' = requeues /\ (i # j => job'[i] = job[i])
    BY <1>1, <2>1, OneRow
  <2>3. CASE i # j
    BY <1>1, <1>2, <2>1, <2>2, <2>3, OpenStill, WeighedStill
  <2>4. CASE i = j
    BY <1>1, <1>2, <2>1, <2>4, WeighedMore
  <2>5. QED BY <2>3, <2>4
<1>8. ASSUME NEW j \in Jobs, RivalRecords(j) PROVE Weighed(i)'
  <2>1. /\ CompleteTask(j) \/ \E retry \in BOOLEAN : FailTask(j, retry)
        /\ j \in rival /\ rival' = rival \ {j} /\ UNCHANGED <<container, premature, strays>>
    BY <1>8 DEF RivalRecords
  <2>2. requeues' = requeues /\ (i # j => job'[i] = job[i])
    BY <1>1, <2>1, OneRow
  <2>3. CASE i # j
    BY <1>1, <1>2, <2>1, <2>2, <2>3, OpenStill, WeighedStill
  <2>4. CASE i = j
    BY <1>1, <1>2, <2>1, <2>2, <2>4, WeighedLess
  <2>5. QED BY <2>3, <2>4
<1>9. ASSUME NEW js \in SUBSET Jobs, Recover(js) PROVE Weighed(i)'
  <2>1. UNCHANGED <<container, rival, premature, strays>> /\ RequeueStaleRunning(js, StaleAfter)
    BY <1>9 DEF Recover
  <2>2. CASE i \in js
    <3>1. requeues'[i] = requeues[i] + 1
      BY <2>1, <2>2 DEF RequeueStaleRunning
    <3>2. QED BY <1>1, <1>2, <2>1, <3>1, WeighedStill
  <2>3. CASE i \notin js
    <3>1. requeues'[i] = requeues[i] /\ job'[i] = job[i]
      BY <1>1, <2>1, <2>3 DEF RequeueStaleRunning
    <3>2. QED BY <1>1, <1>2, <2>1, <3>1, OpenStill, WeighedStill
  <2>4. QED BY <2>2, <2>3
<1>10. QED BY <1>3, <1>4, <1>5, <1>6, <1>7, <1>8, <1>9, WeighedContainer DEF CloudNext

-----------------------------------------------------------------------------
(* The age of a heartbeat.                                                    *)

\* Every step but the passing of an interval issues one statement at most.
LEMMA CloudStatement ==
  ASSUME CloudTypeOK, [CloudNext]_cloudVars, ~Interval
  PROVE  Statement
<1>1. CASE UNCHANGED cloudVars
  BY <1>1 DEF cloudVars, tableVars, Statement, Upkeep
<1>2. ASSUME NEW c \in Containers, ContainerStep(c) PROVE Statement
  <2>1. Id(c) \in Jobs
    BY DEF CloudTypeOK, Id
  <2>2. CASE Launch(c) \/ ReturnFromJob(c) \/ Killed(c)
    BY <2>2 DEF Launch, ReturnFromJob, Killed, Statement, Upkeep
  <2>3. CASE FailUnknown(c) \/ FailStray(c) \/ Complete(c) \/ Fail(c)
    BY <2>1, <2>3 DEF FailUnknown, FailStray, Complete, Fail, Statement, Outcome, Upkeep
  <2>4. CASE ClaimJob(c) \/ BeatOnce(c)
    BY <2>1, <2>4 DEF ClaimJob, BeatOnce, Statement, Upkeep
  <2>5. QED BY <1>2, <2>2, <2>3, <2>4 DEF ContainerStep
<1>3. ASSUME NEW j \in Jobs, CreateOrCancel(j) \/ RivalClaims(j) \/ RivalRecords(j) PROVE Statement
  BY <1>3 DEF CreateOrCancel, RivalClaims, RivalRecords, Statement, Outcome, Upkeep
<1>4. CASE RivalBeats \/ \E js \in SUBSET Jobs : Recover(js)
  BY <1>4 DEF RivalBeats, Recover, CloudTypeOK, Statement, Upkeep
<1>5. QED BY <1>1, <1>2, <1>3, <1>4 DEF CloudNext

\* A statement, with no heartbeat forgotten, leaves the age within its bound.
LEMMA TouchedStill ==
  ASSUME CloudTypeOK, NEW c \in Containers, Touched(c), Statement,
         container'[c] = container[c], missed' = missed \/ missed' = missed + 1
  PROVE  Touched(c)'
<1>1. Id(c) \in Jobs /\ Id(c)' = Id(c) /\ missed \in Nat /\ TableTypeOK
  BY CloudAssumption DEF CloudTypeOK, Id, CloudAssumption
<1>2. CASE ~(AtStage(c, "body") /\ IsRunning(Id(c))')
  BY <1>1, <1>2 DEF Touched, AtStage, IsRunning, Id
<1>3. CASE AtStage(c, "body") /\ IsRunning(Id(c))'
  <2>1. PICK j \in Jobs : j = Id(c)
    BY <1>1
  <2>2. IsRunning(j)'
    BY <1>1, <1>3, <2>1 DEF IsRunning
  <2>3. job'[j].age = 0 \/ (IsRunning(j) /\ job'[j].age = job[j].age)
    BY <1>1, <2>2, StatementRefreshes
  <2>4. job[j].age \in Nat
    BY <1>1, TableAssumption DEF TableTypeOK, JobRow, Ages, AgeCap, TableAssumption
  <2>5. job'[j].age <= missed' + (IF container[c].fresh THEN 0 ELSE 1)
    BY <1>1, <1>3, <2>1, <2>3, <2>4 DEF Touched
  <2>6. QED BY <1>1, <2>1, <2>5 DEF Touched
<1>4. QED BY <1>2, <1>3

\* Every step keeps the age of every row held within its bound.
LEMMA TouchedStep ==
  ASSUME CloudInv, [CloudNext]_cloudVars, NEW d \in Containers
  PROVE  Touched(d)'
<1>1. /\ CloudTypeOK /\ TableTypeOK /\ Touched(d) /\ Id(d) \in Jobs /\ missed \in Nat
      /\ job \in [Jobs -> JobRow]
  BY CloudAssumption DEF CloudInv, CloudTypeOK, TableTypeOK, Id, CloudAssumption
<1>2. \A j \in Jobs : job[j].age \in Nat
  BY <1>1, TableAssumption DEF JobRow, Ages, AgeCap, TableAssumption
<1>3. CASE Interval
  <2>1. /\ container'[d].stage = container[d].stage /\ container'[d].id = Id(d) /\ ~container'[d].fresh
        /\ missed' = missed /\ AgeHeartbeats
        /\ AtStage(d, "body") => container[d].fresh
    BY <1>1, <1>3 DEF Interval, CloudTypeOK, Beating, Holding, AtStage, Id
  <2>2. ASSUME NEW j \in Jobs, IsRunning(j)'
        PROVE  IsRunning(j) /\ job'[j].age <= job[j].age + 1
    BY <1>1, <1>2, <2>1, <2>2 DEF AgeHeartbeats, IsRunning, JobRow
  <2>3. CASE ~(AtStage(d, "body")' /\ IsRunning(Id(d))')
    BY <2>3 DEF Touched
  <2>4. CASE AtStage(d, "body")' /\ IsRunning(Id(d))'
    <3>1. PICK j \in Jobs : j = Id(d) /\ j = Id(d)'
      BY <1>1, <2>1 DEF Id
    <3>2. IsRunning(j) /\ job'[j].age <= job[j].age + 1 /\ job'[j].age \in Int
      BY <1>1, <1>2, <2>1, <2>2, <2>4, <3>1 DEF IsRunning, AgeHeartbeats, JobRow
    <3>3. job[j].age <= missed
      BY <1>1, <2>1, <2>4, <3>1, <3>2 DEF Touched, AtStage
    <3>4. job'[j].age <= missed + 1
      BY <1>1, <1>2, <3>2, <3>3
    <3>5. QED BY <2>1, <3>1, <3>4 DEF Touched
  <2>5. QED BY <2>3, <2>4
<1>4. CASE ~Interval /\ container'[d] = container[d] /\ (missed' = missed \/ missed' = missed + 1)
  BY <1>1, <1>4, CloudStatement, TouchedStill
<1>5. ASSUME NEW c \in Containers, ContainerStep(c)
      PROVE  Touched(d)'
  <2>1. ASSUME NEW stage \in Stages \ {"body"}, MoveTo(c, stage), missed' = missed
        PROVE  (container'[d] = container[d] /\ missed' = missed) \/ Touched(d)'
    <3>1. c # d => container'[d] = container[d]
      BY <1>1, <2>1, MoveToDoes
    <3>2. c = d => ~AtStage(d, "body")'
      BY <1>1, <2>1, MoveToDoes DEF AtStage
    <3>3. QED BY <2>1, <3>1, <3>2 DEF Touched
  <2>2. CASE ClaimTask(Id(c)) /\ MoveTo(c, "body") /\ missed' = missed
    <3>1. c # d => container'[d] = container[d]
      BY <1>1, <2>2, MoveToDoes DEF Stages
    <3>2. ASSUME c = d PROVE Touched(d)'
      <4>1. PICK j \in Jobs : j = Id(d) /\ j = Id(d)' /\ container'[d].fresh
        BY <1>1, <2>2, <3>2, MoveToDoes DEF Stages
      <4>2. job'[j].age = 0
        BY <1>1, <2>2, <3>2, <4>1 DEF ClaimTask, SetStatus, JobRow
      <4>3. QED BY <1>1, <2>2, <4>1, <4>2 DEF Touched
    <3>3. CASE Interval
      BY <1>3, <3>3
    <3>4. QED BY <1>4, <2>2, <3>1, <3>2, <3>3
  <2>3. CASE BeatOnce(c)
    <3>1. missed' = missed \/ missed' = missed + 1
      BY <2>3 DEF BeatOnce
    <3>2. c # d => container'[d] = container[d]
      BY <1>1, <2>3 DEF BeatOnce, CloudTypeOK
    <3>3. ASSUME c = d PROVE Touched(d)'
      <4>1. /\ container'[d].fresh /\ container'[d].stage = container[d].stage
            /\ container'[d].id = container[d].id
        BY <1>1, <2>3, <3>3 DEF BeatOnce, CloudTypeOK
      <4>2. PICK j \in Jobs : j = Id(d) /\ j = Id(d)'
        BY <1>1, <4>1 DEF Id
      <4>3. CASE UpdateHeartbeats({Id(c)}) /\ missed' = missed
        <5>1. IsRunning(j)' => job'[j].age = 0
          BY <1>1, <3>3, <4>2, <4>3 DEF UpdateHeartbeats, IsRunning, JobRow
        <5>2. QED BY <1>1, <4>1, <4>2, <4>3, <5>1 DEF Touched
      <4>4. CASE missed' = missed + 1 /\ UNCHANGED tableVars
        <5>1. IsRunning(j) /\ AtStage(d, "body") => job[j].age <= missed + 1
          BY <1>1, <1>2, <4>2 DEF Touched
        <5>2. QED BY <1>1, <4>1, <4>2, <4>4, <5>1 DEF Touched, tableVars, IsRunning, AtStage
      <4>5. QED BY <2>3, <4>3, <4>4 DEF BeatOnce
    <3>4. CASE Interval
      BY <1>3, <3>4
    <3>5. QED BY <1>4, <3>1, <3>2, <3>3, <3>4
  <2>4. CASE ~BeatOnce(c) /\ ~(ClaimTask(Id(c)) /\ MoveTo(c, "body"))
    <3>1. \E stage \in Stages \ {"body"} : MoveTo(c, stage) /\ missed' = missed
      BY <1>5, <2>4
         DEF ContainerStep, Launch, FailUnknown, ClaimJob, FailStray, ReturnFromJob, Complete, Fail,
             Killed, Stages
    <3>2. CASE Interval
      BY <1>3, <3>2
    <3>3. QED BY <1>4, <2>1, <3>1, <3>2
  <2>5. missed' = missed \/ BeatOnce(c)
    BY <1>5 DEF ContainerStep, Launch, FailUnknown, ClaimJob, FailStray, ReturnFromJob, Complete, Fail,
             Killed
  <2>6. QED BY <2>2, <2>3, <2>4, <2>5
<1>6. CASE UNCHANGED <<container, missed>>
  BY <1>3, <1>4, <1>6
<1>7. QED
  BY <1>3, <1>5, <1>6
     DEF CloudNext, cloudVars, RivalBeats, CreateOrCancel, RivalClaims, RivalRecords, Recover

-----------------------------------------------------------------------------
(* The theorems about CloudRun.                                               *)

\* Every step keeps the types and the accounting of the table.
LEMMA CloudTypeStep ==
  ASSUME CloudInv, [CloudNext]_cloudVars
  PROVE  CloudTypeOK' /\ TableInv'
<1>1. CloudTypeOK /\ TableInv /\ TableTypeOK /\ MaxMissed \in Nat
  BY CloudAssumption DEF CloudInv, CloudTypeOK, CloudAssumption
<1>2. TableInv'
  <2>1. CASE Interval
    BY <1>1, <2>1, AgesInv DEF Interval
  <2>2. CASE ~Interval
    BY <1>1, <2>2, CloudStatement, StatementInv
  <2>3. QED BY <2>1, <2>2
<1>3. container' \in [Containers -> [stage : Stages, id : Jobs, fresh : BOOLEAN]]
  <2>1. CASE container' = container
    BY <1>1, <2>1 DEF CloudTypeOK
  <2>2. ASSUME NEW c \in Containers, NEW stage \in Stages, MoveTo(c, stage)
        PROVE  container' \in [Containers -> [stage : Stages, id : Jobs, fresh : BOOLEAN]]
    BY <1>1, <2>2, MoveToDoes
  <2>3. ASSUME NEW c \in Containers, ContainerStep(c)
        PROVE  container' \in [Containers -> [stage : Stages, id : Jobs, fresh : BOOLEAN]]
    <3>1. CASE BeatOnce(c)
      BY <1>1, <3>1 DEF BeatOnce, CloudTypeOK
    <3>2. CASE ~BeatOnce(c)
      <4>1. \E stage \in Stages : MoveTo(c, stage)
        BY <2>3, <3>2
           DEF ContainerStep, Launch, FailUnknown, ClaimJob, FailStray, ReturnFromJob, Complete, Fail,
             Killed, Stages
      <4>2. QED BY <2>2, <4>1
    <3>3. QED BY <3>1, <3>2
  <2>4. CASE Interval
    BY <1>1, <2>4 DEF Interval, CloudTypeOK
  <2>5. QED
    BY <2>1, <2>3, <2>4
       DEF CloudNext, cloudVars, RivalBeats, CreateOrCancel, RivalClaims, RivalRecords, Recover
<1>4. /\ rival' \subseteq Jobs /\ premature' \subseteq Jobs /\ missed' \in 0..MaxMissed
      /\ strays' \in [Jobs -> Nat]
  <2>1. CASE UNCHANGED <<rival, premature, missed, strays>>
    BY <1>1, <2>1 DEF CloudTypeOK
  <2>2. ASSUME NEW c \in Containers, FailUnknown(c) \/ FailStray(c) \/ Complete(c) \/ BeatOnce(c)
        PROVE  /\ rival' \subseteq Jobs /\ premature' \subseteq Jobs /\ missed' \in 0..MaxMissed
               /\ strays' \in [Jobs -> Nat]
    <3>1. Id(c) \in Jobs
      BY <1>1 DEF CloudTypeOK, Id
    <3>2. CASE FailUnknown(c) \/ Complete(c)
      BY <1>1, <3>1, <3>2 DEF FailUnknown, Complete, CloudTypeOK
    <3>3. CASE FailStray(c)
      BY <1>1, <3>1, <3>3 DEF FailStray, CloudTypeOK
    <3>4. CASE BeatOnce(c)
      <4>1. UNCHANGED <<rival, premature, strays>> /\ missed' \in {missed} \union {missed + 1}
            /\ (missed' = missed + 1 => missed' = missed \/ missed < MaxMissed)
        BY <1>1, <3>4 DEF BeatOnce, CloudTypeOK
      <4>2. QED BY <1>1, <4>1 DEF CloudTypeOK
    <3>5. QED BY <2>2, <3>2, <3>3, <3>4
  <2>3. ASSUME NEW j \in Jobs, RivalClaims(j) \/ RivalRecords(j)
        PROVE  /\ rival' \subseteq Jobs /\ premature' \subseteq Jobs /\ missed' \in 0..MaxMissed
               /\ strays' \in [Jobs -> Nat]
    BY <1>1, <2>3 DEF RivalClaims, RivalRecords, CloudTypeOK
  <2>4. QED
    BY <2>1, <2>2, <2>3
       DEF CloudNext, cloudVars, ContainerStep, Launch, ClaimJob, ReturnFromJob, Fail, Killed,
           Interval, RivalBeats, CreateOrCancel, Recover
<1>5. QED BY <1>2, <1>3, <1>4 DEF CloudTypeOK, TableInv

\* The invariant that the properties of CloudRun rest on.
LEMMA CloudInvHolds == CloudSpec => []CloudInv
<1>1. ASSUME CloudInit PROVE CloudInv
  <2>1. TableInv
    <3>1. 0 \in Ages /\ 0 \in 0..MaxRequeues /\ "absent" \in Status
      BY ZeroIsAnAge, TableAssumption DEF TableAssumption, Status
    <3>2. TableTypeOK
      BY <1>1, <3>1 DEF CloudInit, TableInit, TableTypeOK, JobRow
    <3>3. Accounting
      BY <1>1, TableAssumption
         DEF TableAssumption, CloudInit, TableInit, Accounting, Accounted, Unclaimed
    <3>4. QED BY <3>2, <3>3 DEF TableInv
  <2>2. CloudTypeOK
    <3>1. container \in [Containers -> [stage : Stages, id : Jobs, fresh : BOOLEAN]]
      BY <1>1 DEF CloudInit, Stages
    <3>2. QED BY <1>1, <2>1, <3>1, CloudAssumption DEF CloudInit, CloudTypeOK, TableInv, CloudAssumption
  <2>3. \A c \in Containers : container[c].stage = "off"
    BY <1>1 DEF CloudInit
  <2>4. ASSUME NEW j \in Jobs PROVE Weighed(j)
    <3>1. Holders(j) = {}
      BY <2>3 DEF Holders, Holding
    <3>2. Cardinality(Holders(j)) = 0 /\ j \notin rival /\ requeues[j] = 0 /\ strays[j] = 0
      BY <1>1, <3>1, FS_EmptySet DEF CloudInit, TableInit
    <3>3. QED BY <3>2 DEF Weighed
  <2>5. ASSUME NEW c \in Containers PROVE Touched(c)
    BY <2>3 DEF Touched, AtStage
  <2>6. QED BY <2>1, <2>2, <2>4, <2>5 DEF CloudInv
<1>2. ASSUME CloudInv, [CloudNext]_cloudVars PROVE CloudInv'
  BY <1>2, CloudTypeStep, WeighedStep, TouchedStep DEF CloudInv
<1>3. QED BY <1>1, <1>2, PTL DEF CloudSpec

\* The rows, the containers and the worker stay what they are said to be.
THEOREM CloudTypeCorrect == CloudSpec => []CloudTypeOK
<1>1. CloudInv => CloudTypeOK
  BY DEF CloudInv
<1>2. QED BY <1>1, CloudInvHolds, PTL

\* Containers that write outcomes over each other's and the pool's spend no more attempts than
\* the retries and the recoveries pay for.
THEOREM SharedBudgetHolds == CloudSpec => []Accounting
<1>1. CloudInv => Accounting
  BY DEF CloudInv, TableInv
<1>2. QED BY <1>1, CloudInvHolds, PTL

\* Two executions of one row, by containers or the pool, overlap only after stale recovery or
\* a container whose claim raised has put it back (claim_task, requeue_stale_running,
\* cloudrun_entry.py:137-143).
THEOREM OverlapOnlyAfterRequeueHolds == CloudSpec => []OverlapOnlyAfterRequeue
<1>1. ASSUME CloudInv PROVE OverlapOnlyAfterRequeue
  <2>1. ASSUME NEW j \in Jobs
        PROVE  Cardinality(Executors(j)) + (IF j \in rival THEN 1 ELSE 0) <= 1 + requeues[j] + strays[j]
    <3>1. Executors(j) \subseteq Holders(j)
      BY DEF Executors, Holders, Holding, AtStage
    <3>2. /\ Cardinality(Holders(j)) \in Nat /\ Cardinality(Executors(j)) \in Nat
          /\ Cardinality(Executors(j)) <= Cardinality(Holders(j))
      BY <3>1, HoldersFinite, FS_Subset, FS_CardinalityType
    <3>3. requeues[j] \in Nat /\ strays[j] \in Nat /\ Weighed(j)
      BY <1>1, TableAssumption DEF CloudInv, CloudTypeOK, TableTypeOK, TableAssumption
    <3>4. QED BY <3>2, <3>3 DEF Weighed
  <2>2. QED BY <2>1 DEF OverlapOnlyAfterRequeue
<1>2. QED BY <1>1, CloudInvHolds, PTL

-----------------------------------------------------------------------------
(* The promise of JobLifecycle.                                               *)

\* Those who hold the row: Lifecycle's holders.
HeldBy(j) == Holders(j) \union {w \in {"pool"} : j \in rival}

\* What a step must be for one job.
Kept(j) ==
  /\ Lifecycle!Step(j)
  /\ requeues'[j] = 0 /\ strays'[j] = 0 /\ j \notin premature' => Lifecycle!StrictStep(j)

\* What it is when a container fails the job unclaimed: history says so.
Strayed(j) == FailsUnclaimed(j) /\ (strays'[j] # 0 \/ j \in premature')

\* A row that was never put back is held by one at most, and only if it is open.
LEMMA HeldOnce ==
  ASSUME CloudInv, NEW j \in Jobs, requeues[j] = 0, strays[j] = 0
  PROVE  /\ ~Pursued(j) => HeldBy(j) = {}
         /\ j \in rival => Holders(j) = {}
         /\ \A c \in Holders(j) : Holders(j) \ {c} = {} /\ j \notin rival
<1>1. Weighed(j) /\ Cardinality(Holders(j)) \in Nat /\ IsFiniteSet(Holders(j))
  BY HoldersFinite DEF CloudInv
<1>2. Cardinality(Holders(j)) + (IF j \in rival THEN 1 ELSE 0) <= (IF Pursued(j) THEN 1 ELSE 0)
  BY <1>1 DEF Weighed
<1>3. ASSUME ~Pursued(j) PROVE HeldBy(j) = {}
  <2>1. j \notin rival /\ Cardinality(Holders(j)) = 0
    BY <1>1, <1>2, <1>3
  <2>2. QED BY <1>1, <2>1, FS_EmptySet DEF HeldBy
<1>4. ASSUME j \in rival PROVE Holders(j) = {}
  <2>1. Cardinality(Holders(j)) = 0
    BY <1>1, <1>2, <1>4
  <2>2. QED BY <1>1, <2>1, FS_EmptySet
<1>5. ASSUME NEW c \in Holders(j) PROVE Holders(j) \ {c} = {} /\ j \notin rival
  <2>1. /\ IsFiniteSet(Holders(j) \ {c})
        /\ Cardinality(Holders(j) \ {c}) = Cardinality(Holders(j)) - 1
    BY <1>1, <1>5, FS_RemoveElement
  <2>2. Cardinality(Holders(j) \ {c}) \in Nat
    BY <2>1, FS_CardinalityType
  <2>3. Cardinality(Holders(j) \ {c}) = 0 /\ j \notin rival
    BY <1>1, <1>2, <2>1, <2>2
  <2>4. QED BY <2>1, <2>3, FS_EmptySet
<1>6. QED BY <1>3, <1>4, <1>5

\* The relations of Lifecycle, said of HeldBy.
LEMMA HeldRelations ==
  ASSUME NEW j \in Jobs
  PROVE  /\ Lifecycle!Keeps(j) <=> HeldBy(j)' = HeldBy(j)
         /\ Lifecycle!LetsGo(j) <=> HeldBy(j)' \subseteq HeldBy(j)
  BY DEF Lifecycle!Keeps, Lifecycle!LetsGo, HeldBy, Holders

\* A step that leaves the status alone, and in which nobody new comes to hold the row.
LEMMA KeptRelease ==
  ASSUME NEW j \in Jobs, AbstractStatus'[j] = AbstractStatus[j], HeldBy(j)' \subseteq HeldBy(j)
  PROVE  Kept(j)
  BY HeldRelations DEF Kept, Lifecycle!Step, Lifecycle!StrictStep, Lifecycle!Release

\* A claim, by a container or by the pool.
LEMMA KeptClaim ==
  ASSUME CloudInv, NEW j \in Jobs, ClaimTask(j), strays' = strays,
         NEW w \in Containers \union {"pool"}, HeldBy(j)' = HeldBy(j) \union {w}
  PROVE  Kept(j)
<1>1. TableTypeOK /\ ~Pursued(j) /\ requeues' = requeues
  BY DEF CloudInv, CloudTypeOK, ClaimTask, IsQueued, Queued, Pursued, IsRunning, Terminal
<1>2. job'[j] = SetStatus(job[j], "running") /\ "running" \in Status \ Queued
  BY <1>1 DEF ClaimTask, TableTypeOK, Status, Queued
<1>3. AbstractStatus[j] = "queued" /\ AbstractStatus'[j] = "running"
  BY <1>1, <1>2, SetStatusMoves DEF ClaimTask, AbstractStatus
<1>4. Lifecycle!Claim(j)
  <2>1. CASE w \in HeldBy(j)
    BY <1>3, <2>1, HeldRelations DEF Lifecycle!Claim, Lifecycle!Moves
  <2>2. CASE w \notin HeldBy(j)
    BY <1>3, <2>2 DEF Lifecycle!Claim, Lifecycle!Moves, HeldBy, Holders
  <2>3. QED BY <2>1, <2>2
<1>5. requeues'[j] = 0 /\ strays'[j] = 0 => HeldBy(j) = {}
  BY <1>1, HeldOnce
<1>6. QED BY <1>4, <1>5 DEF Kept, Lifecycle!Step, Lifecycle!StrictStep, HeldBy, Holders

\* An outcome, by one who holds the row and lets go of it, or is on record as not done.
LEMMA KeptSettle ==
  ASSUME CloudInv, NEW j \in Jobs, strays' = strays, premature \subseteq premature',
         CompleteTask(j) \/ \E retry \in BOOLEAN : FailTask(j, retry),
         \/ /\ j \in rival /\ j \notin rival'
            /\ Holders(j)' \subseteq Holders(j)
         \/ /\ \E c \in Holders(j) : Holders(j)' \subseteq Holders(j) \ {c}
            /\ j \in rival' => j \in rival
         \/ /\ j \in premature' /\ HeldBy(j) # {}
            /\ HeldBy(j)' \subseteq HeldBy(j)
  PROVE  Kept(j)
<1>1. TableTypeOK /\ requeues' = requeues
  BY DEF CloudInv, CloudTypeOK, CompleteTask, FailTask
<1>2. HeldBy(j)' \subseteq HeldBy(j) /\ HeldBy(j) # {}
  BY DEF HeldBy
<1>3. CASE ~Exists(j)
  <2>1. job' = job
    BY <1>3 DEF CompleteTask, FailTask
  <2>2. QED BY <1>2, <2>1, KeptRelease DEF AbstractStatus, IsQueued
<1>4. CASE Exists(j)
  <2>1. \/ job'[j] = SetStatus(job[j], "completed")
        \/ job'[j] = SetStatus(job[j], "failed")
        \/ job'[j] = PutBack(job[j])
    BY <1>1, <1>4 DEF CompleteTask, FailTask, TableTypeOK
  <2>2. {"completed", "failed"} \subseteq Status \ Queued
    BY DEF Status, Terminal, Queued
  <2>3. AbstractStatus'[j] \in {"queued", "completed", "failed"}
    BY <1>1, <2>1, <2>2, SetStatusMoves, PutBackMoves
  <2>4. AbstractStatus[j] \in Lifecycle!Statuses \ {"absent", "deleted"}
    BY <1>1, <1>4 DEF AbstractStatus, Exists, IsQueued, TableTypeOK, JobRow, Status, Queued, Terminal,
       Lifecycle!Statuses, Lifecycle!Final
  <2>5. Lifecycle!Settle(j)
    BY <1>2, <2>3, <2>4, HeldRelations DEF Lifecycle!Settle, Lifecycle!Moves, HeldBy, Holders
  <2>6. ASSUME requeues'[j] = 0, strays'[j] = 0, j \notin premature'
        PROVE  AbstractStatus[j] = "running" /\ HeldBy(j)' = {}
    <3>1. requeues[j] = 0 /\ strays[j] = 0 /\ j \notin premature
      BY <1>1, <2>6
    <3>2. IsRunning(j)
      BY <1>2, <3>1, HeldOnce DEF Pursued
    <3>3. HeldBy(j)' = {}
      BY <2>6, <3>1, HeldOnce DEF HeldBy
    <3>4. QED BY <3>2, <3>3 DEF AbstractStatus, IsRunning, IsQueued, Queued
  <2>7. QED BY <2>5, <2>6 DEF Kept, Lifecycle!Step, Lifecycle!StrictStep, HeldBy, Holders
<1>5. QED BY <1>3, <1>4

\* Producers, cancellation, clean-up and the clock.
LEMMA KeptClient ==
  ASSUME CloudInv, NEW i \in Jobs, CreateOrCancel(i), NEW j \in Jobs
  PROVE  Kept(j)
<1>1. TableTypeOK /\ HeldBy(j)' = HeldBy(j)
  BY DEF CloudInv, CloudTypeOK, CreateOrCancel, HeldBy, Holders, Holding, Id
<1>2. CASE i # j
  <2>1. job'[j] = job[j]
    BY <1>1, <1>2 DEF CreateOrCancel, CreateTask, CancelTask, FallDue, CleanupOldJobs, TableTypeOK
  <2>2. QED BY <1>1, <2>1, KeptRelease DEF AbstractStatus, IsQueued
<1>3. CASE i = j /\ \E later \in BOOLEAN : CreateTask(j, later)
  <2>1. AbstractStatus[j] = "absent" /\ AbstractStatus'[j] = "queued"
    BY <1>1, <1>3 DEF CreateTask, TableTypeOK, JobRow, AbstractStatus, IsQueued, Queued
  <2>2. Lifecycle!Submit(j)
    BY <1>1, <2>1, HeldRelations DEF Lifecycle!Submit, Lifecycle!Moves
  <2>3. QED BY <2>2 DEF Kept, Lifecycle!Step, Lifecycle!StrictStep
<1>4. CASE i = j /\ CancelTask(j)
  <2>1. job'[j] = SetStatus(job[j], "cancelled") /\ "cancelled" \in Status \ Queued
    BY <1>1, <1>4 DEF CancelTask, TableTypeOK, Status, Terminal, Queued
  <2>2. AbstractStatus[j] = "queued" /\ AbstractStatus'[j] = "cancelled"
    BY <1>1, <1>4, <2>1, SetStatusMoves DEF CancelTask, AbstractStatus
  <2>3. Lifecycle!Revoke(j)
    BY <1>1, <2>2, HeldRelations DEF Lifecycle!Revoke, Lifecycle!Moves
  <2>4. QED BY <2>3 DEF Kept, Lifecycle!Step, Lifecycle!StrictStep
<1>5. CASE i = j /\ FallDue(j)
  <2>1. AbstractStatus'[j] = AbstractStatus[j]
    BY <1>1, <1>5 DEF FallDue, AbstractStatus, IsQueued, TableTypeOK, JobRow
  <2>2. QED BY <1>1, <2>1, KeptRelease
<1>6. CASE i = j /\ CleanupOldJobs({j})
  <2>1. job'[j] = SetStatus(job[j], "deleted") /\ "deleted" \in Status \ Queued
    BY <1>6 DEF CleanupOldJobs, Status, Queued
  <2>2. AbstractStatus[j] \in Lifecycle!Final /\ AbstractStatus'[j] = "deleted"
    BY <1>1, <1>6, <2>1, SetStatusMoves
       DEF CleanupOldJobs, AbstractStatus, IsTerminal, IsQueued, Terminal, Queued, Lifecycle!Final
  <2>3. Lifecycle!Purge(j)
    BY <1>1, <2>2, HeldRelations DEF Lifecycle!Purge, Lifecycle!Moves
  <2>4. QED BY <2>3 DEF Kept, Lifecycle!Step, Lifecycle!StrictStep
<1>7. QED BY <1>2, <1>3, <1>4, <1>5, <1>6 DEF CreateOrCancel

\* Stale recovery: whoever held the row still does.
LEMMA KeptRecover ==
  ASSUME CloudInv, NEW js \in SUBSET Jobs, Recover(js), NEW j \in Jobs
  PROVE  Kept(j)
<1>1. /\ TableTypeOK /\ HeldBy(j)' = HeldBy(j) /\ requeues[j] \in Nat
      /\ RequeueStaleRunning(js, StaleAfter)
  BY TableAssumption
     DEF TableAssumption, CloudInv, CloudTypeOK, TableTypeOK, Recover, HeldBy, Holders, Holding, Id
<1>2. CASE j \notin js
  BY <1>1, <1>2, KeptRelease DEF RequeueStaleRunning, AbstractStatus, IsQueued
<1>3. CASE j \in js
  <2>1. job'[j] = PutBack(job[j]) /\ IsRunning(j) /\ requeues'[j] = requeues[j] + 1
    BY <1>1, <1>3 DEF RequeueStaleRunning, Stale
  <2>2. AbstractStatus[j] = "running" /\ AbstractStatus'[j] = "queued"
    BY <1>1, <2>1, PutBackMoves DEF AbstractStatus, IsRunning, IsQueued, Queued
  <2>3. Lifecycle!Recover(j)
    BY <1>1, <2>2, HeldRelations DEF Lifecycle!Recover, Lifecycle!Moves
  <2>4. QED BY <1>1, <2>1, <2>3 DEF Kept, Lifecycle!Step
<1>4. QED BY <1>2, <1>3

\* A step that is not a statement about the row, and in which nobody new comes to hold it.
LEMMA KeptAlone ==
  ASSUME NEW j \in Jobs, job'[j] = job[j] \/ job'[j].status = job[j].status,
         Holders(j)' \subseteq Holders(j), j \in rival' => j \in rival
  PROVE  Kept(j)
  BY KeptRelease DEF AbstractStatus, IsQueued, HeldBy

\* The steps of a container.
LEMMA KeptContainer ==
  ASSUME CloudInv, NEW c \in Containers, ContainerStep(c), NEW j \in Jobs
  PROVE  Kept(j) \/ Strayed(j)
<1> USE DEF Stages, HoldStages
<1>1. CloudTypeOK /\ TableTypeOK /\ Id(c) \in Jobs
  BY DEF CloudInv, CloudTypeOK, Id
<1>2. c \in Holders(Id(c)) <=> container[c].stage \in HoldStages
  BY DEF Holders, Holding
<1>3. ASSUME NEW stage \in Stages, MoveTo(c, stage), UNCHANGED <<tableVars, rival>>,
             stage \notin HoldStages \/ container[c].stage \in HoldStages
      PROVE  Kept(j)
  <2>1. Holders(j)' \subseteq Holders(j)
    BY <1>1, <1>2, <1>3, HoldersMove
  <2>2. QED BY <1>3, <2>1, KeptAlone DEF tableVars
<1>4. CASE Launch(c)
  BY <1>3, <1>4 DEF Launch
<1>5. CASE FailUnknown(c) \/ FailStray(c)
  <2>1. /\ MoveTo(c, "exited") /\ \E retry \in BOOLEAN : FailTask(Id(c), retry)
        /\ rival' = rival
    BY <1>5 DEF FailUnknown, FailStray
  <2>2. CASE j # Id(c)
    <3>1. job'[j] = job[j] /\ Holders(j)' \subseteq Holders(j)
      BY <1>1, <2>1, <2>2, OneRow, HoldersMove
    <3>2. QED BY <2>1, <3>1, KeptAlone
  <2>3. CASE j = Id(c)
    <3>1. CASE FailUnknown(c)
      BY <2>3, <3>1 DEF FailUnknown, Strayed, FailsUnclaimed
    <3>2. CASE FailStray(c)
      <4>1. strays[j] \in Nat /\ strays'[j] = strays[j] + 1
        BY <1>1, <2>3, <3>2 DEF FailStray, CloudTypeOK
      <4>2. QED BY <2>3, <3>2, <4>1 DEF Strayed, FailsUnclaimed
    <3>3. QED BY <1>5, <3>1, <3>2
  <2>4. QED BY <2>2, <2>3
<1>6. CASE ClaimJob(c)
  <2>1. CASE (MoveTo(c, "exited") \/ MoveTo(c, "straying")) /\ UNCHANGED tableVars
    BY <1>3, <1>6, <2>1 DEF ClaimJob
  <2>2. ASSUME NEW next \in {"body", "dropping"}, ClaimTask(Id(c)), MoveTo(c, next)
        PROVE  Kept(j)
    <3>1. rival' = rival /\ strays' = strays
      BY <1>6 DEF ClaimJob
    <3>2. CASE j # Id(c)
      <4>1. job'[j] = job[j] /\ Holders(j)' = Holders(j)
        BY <1>1, <2>2, <3>2, OneRow, HoldersMove
      <4>2. QED BY <3>1, <4>1, KeptAlone
    <3>3. CASE j = Id(c)
      <4>1. Holders(j)' = Holders(j) \union {c}
        BY <1>1, <2>2, <3>3, HoldersMove
      <4>2. HeldBy(j)' = HeldBy(j) \union {c}
        BY <3>1, <4>1 DEF HeldBy
      <4>3. ClaimTask(j)
        BY <2>2, <3>3
      <4>4. QED BY <3>1, <4>2, <4>3, KeptClaim
    <3>4. QED BY <3>2, <3>3
  <2>3. QED BY <1>6, <2>1, <2>2 DEF ClaimJob
<1>7. CASE ReturnFromJob(c)
  BY <1>3, <1>7 DEF ReturnFromJob, AtStage
<1>8. ASSUME container[c].stage \in HoldStages, MoveTo(c, "exited"),
             CompleteTask(Id(c)) \/ \E retry \in BOOLEAN : FailTask(Id(c), retry),
             UNCHANGED <<rival, premature, strays>>
      PROVE  Kept(j)
  <2>1. CASE j # Id(c)
    <3>1. job'[j] = job[j] /\ Holders(j)' = Holders(j)
      BY <1>1, <1>8, <2>1, OneRow, HoldersMove
    <3>2. QED BY <1>8, <3>1, KeptAlone
  <2>2. CASE j = Id(c)
    <3>1. Holders(j)' = Holders(j) \ {c} /\ c \in Holders(j)
      BY <1>1, <1>2, <1>8, <2>2, HoldersMove
    <3>2. QED BY <1>8, <2>2, <3>1, KeptSettle
  <2>3. QED BY <2>1, <2>2
<1>9. CASE Complete(c)
  <2>1. CASE UNCHANGED tableVars /\ MoveTo(c, "retrying")
    BY <1>3, <1>9, <2>1 DEF Complete, AtStage
  <2>2. CASE CompleteTask(Id(c)) /\ MoveTo(c, "retrying") /\ premature' = premature \union {Id(c)}
    <3>1. rival' = rival /\ strays' = strays /\ container[c].stage \in HoldStages
      BY <1>9 DEF Complete, AtStage
    <3>2. CASE j # Id(c)
      <4>1. job'[j] = job[j] /\ Holders(j)' = Holders(j)
        BY <1>1, <2>2, <3>2, OneRow, HoldersMove
      <4>2. QED BY <3>1, <4>1, KeptAlone
    <3>3. CASE j = Id(c)
      <4>1. Holders(j)' \subseteq Holders(j) /\ c \in Holders(j)
        BY <1>1, <1>2, <2>2, <3>1, <3>3, HoldersMove
      <4>2. HeldBy(j)' \subseteq HeldBy(j) /\ HeldBy(j) # {} /\ j \in premature'
        BY <2>2, <3>1, <3>3, <4>1 DEF HeldBy
      <4>3. QED BY <2>2, <3>1, <3>3, <4>2, KeptSettle
    <3>4. QED BY <3>2, <3>3
  <2>3. CASE CompleteTask(Id(c)) /\ MoveTo(c, "exited") /\ premature' = premature
    BY <1>8, <1>9, <2>3 DEF Complete, AtStage
  <2>4. QED BY <1>9, <2>1, <2>2, <2>3 DEF Complete
<1>10. CASE Fail(c)
  BY <1>8, <1>10 DEF Fail, AtStage
<1>11. CASE Killed(c)
  BY <1>3, <1>11 DEF Killed
<1>12. CASE BeatOnce(c)
  <2>1. Holders(j)' = Holders(j)
    <3>1. \A d \in Containers : container'[d].stage = container[d].stage /\ container'[d].id = container[d].id
      BY <1>1, <1>12 DEF BeatOnce, CloudTypeOK
    <3>2. QED BY <3>1 DEF Holders, Holding, Id
  <2>2. job'[j].status = job[j].status /\ rival' = rival
    BY <1>1, <1>12, AgesOnly DEF BeatOnce, tableVars
  <2>3. QED BY <2>1, <2>2, KeptAlone
<1>13. QED BY <1>4, <1>5, <1>6, <1>7, <1>9, <1>10, <1>11, <1>12 DEF ContainerStep

\* Every step keeps the promise for every job it does not fail unclaimed.
LEMMA KeptStep ==
  ASSUME CloudInv, [CloudNext]_cloudVars, NEW j \in Jobs
  PROVE  Kept(j) \/ Strayed(j)
<1>1. CloudTypeOK /\ TableTypeOK /\ rival \subseteq Jobs
  BY DEF CloudInv, CloudTypeOK
<1>2. CASE UNCHANGED cloudVars
  BY <1>2, KeptAlone DEF cloudVars, Holders, Holding, Id
<1>3. CASE Interval
  <2>1. Holders(j)' = Holders(j)
    <3>1. \A d \in Containers : container'[d].stage = container[d].stage /\ container'[d].id = container[d].id
      BY <1>1, <1>3 DEF Interval, CloudTypeOK
    <3>2. QED BY <3>1 DEF Holders, Holding, Id
  <2>2. job'[j].status = job[j].status /\ rival' = rival
    BY <1>1, <1>3, AgesOnly DEF Interval
  <2>3. QED BY <2>1, <2>2, KeptAlone
<1>4. CASE RivalBeats
  <2>1. Holders(j)' = Holders(j) /\ rival' = rival
    BY <1>4 DEF RivalBeats, Holders, Holding, Id
  <2>2. job'[j].status = job[j].status
    BY <1>1, <1>4, AgesOnly DEF RivalBeats
  <2>3. QED BY <2>1, <2>2, KeptAlone
<1>5. ASSUME NEW i \in Jobs, RivalClaims(i) PROVE Kept(j)
  <2>1. ClaimTask(i) /\ rival' = rival \union {i} /\ Holders(j)' = Holders(j) /\ strays' = strays
    BY <1>5 DEF RivalClaims, Holders, Holding, Id
  <2>2. CASE i # j
    BY <1>1, <2>1, <2>2, OneRow, KeptAlone
  <2>3. CASE i = j
    <3>1. HeldBy(j)' = HeldBy(j) \union {"pool"}
      BY <2>1, <2>3 DEF HeldBy
    <3>2. QED BY <2>1, <2>3, <3>1, KeptClaim
  <2>4. QED BY <2>2, <2>3
<1>6. ASSUME NEW i \in Jobs, RivalRecords(i) PROVE Kept(j)
  <2>1. /\ CompleteTask(i) \/ \E retry \in BOOLEAN : FailTask(i, retry)
        /\ i \in rival /\ rival' = rival \ {i} /\ Holders(j)' = Holders(j)
        /\ premature' = premature /\ strays' = strays
    BY <1>6 DEF RivalRecords, Holders, Holding, Id
  <2>2. CASE i # j
    BY <1>1, <2>1, <2>2, OneRow, KeptAlone
  <2>3. CASE i = j
    BY <2>1, <2>3, KeptSettle
  <2>4. QED BY <2>2, <2>3
<1>7. QED
  BY <1>2, <1>3, <1>4, <1>5, <1>6, KeptClient, KeptRecover, KeptContainer DEF CloudNext

\* Containers and the pool keep JobLifecycle's promise in every step but those in which a
\* container fails a job unclaimed, and its strict promise of every job that was spared such
\* a step, a recovery and a failure after its completion (claim_task, complete_task, fail_task;
\* cloudrun_entry.py).
THEOREM KeepsLifecycleHolds == CloudSpec => KeepsLifecycle
<1>1. ASSUME CloudInit PROVE Lifecycle!Init
  <2>1. \A c \in Containers : container[c].stage = "off"
    BY <1>1 DEF CloudInit
  <2>2. Holding = {} /\ rival = {}
    BY <1>1, <2>1 DEF CloudInit, Holding
  <2>3. QED BY <1>1, <2>2 DEF CloudInit, TableInit, Lifecycle!Init, AbstractStatus, IsQueued, Queued
<1>2. CloudInv /\ [CloudNext]_cloudVars => LifecycleStep
  BY KeptStep DEF LifecycleStep, Kept, Strayed
<1>3. QED BY <1>1, <1>2, CloudInvHolds, PTL DEF CloudSpec, KeepsLifecycle

-----------------------------------------------------------------------------
\* Recovery takes no row from a container of whose heartbeats less than StaleAfter - 1 have
\* failed (_heartbeat_loop, requeue_stale_running).
THEOREM AttendedNotRequeuedHolds == CloudSpec => AttendedNotRequeued
<1>1. ASSUME CloudInv, [CloudNext]_cloudVars PROVE AttendedStep
  <2> SUFFICES ASSUME NEW j \in Jobs, requeues'[j] > requeues[j], NEW c \in Executors(j)
               PROVE  missed + 1 >= StaleAfter
    BY DEF AttendedStep
  <2>1. CloudTypeOK /\ TableTypeOK /\ missed \in Nat /\ StaleAfter \in Nat /\ requeues[j] \in Nat
    BY <1>1, CloudAssumption, TableAssumption
       DEF CloudInv, CloudTypeOK, TableTypeOK, CloudAssumption, TableAssumption
  <2>2. requeues' # requeues
    BY <2>1
  <2>3. PICK js \in SUBSET Jobs : Recover(js)
    BY <1>1, <2>2
       DEF CloudNext, cloudVars, tableVars, ContainerStep, Launch, FailUnknown, ClaimJob,
           FailStray, ReturnFromJob, Complete, Fail, Killed, BeatOnce, Interval, RivalBeats, CreateOrCancel, RivalClaims,
           RivalRecords, ClaimTask, CompleteTask, FailTask, CreateTask, CancelTask, FallDue,
           CleanupOldJobs, UpdateHeartbeats, AgeHeartbeats
  <2>4. IsRunning(j) /\ job[j].age >= StaleAfter
    BY <2>1, <2>3 DEF Recover, RequeueStaleRunning, Stale
  <2>5. c \in Containers /\ AtStage(c, "body") /\ Id(c) = j /\ Touched(c)
    BY <1>1 DEF Executors, CloudInv
  <2>6. job[j].age \in Nat
    BY <2>1, TableAssumption DEF TableTypeOK, JobRow, Ages, AgeCap, TableAssumption
  <2>7. job[j].age <= missed + 1
    BY <2>1, <2>4, <2>5, <2>6 DEF Touched
  <2>8. QED BY <2>1, <2>4, <2>6, <2>7
<1>2. QED BY <1>1, CloudInvHolds, PTL DEF CloudSpec, AttendedNotRequeued

-----------------------------------------------------------------------------
(* Installation: the invariant.                                               *)

\* Without a race one process at most is generating, and then the table has no id; a process
\* that is up has the table's.
Alone ==
  ~raced => \A p \in Procs :
    /\ Stage(p, "generating") => idRow = 0 /\ \A q \in Procs : Stage(q, "generating") => q = p
    /\ Stage(p, "up") => app[p].id = idRow /\ idRow # 0

\* An id that is written was generated.
Proper == \A p \in Procs : Stage(p, "generating") => app[p].id \in 1..generated

\* A process in this state got its copies of the setting as the code says.
Recalled(state, file) ==
  LET effective(environ) == IF file # "unset" THEN file ELSE environ
  IN /\ state.stage = "off" => state.cached = "none"
     /\ state.stage # "off" =>
          /\ file # "unset" => state.captured = file
          /\ state.captured = effective(state.environ) \/ state.environ = state.merged
          /\ state.cached \in {"none", state.captured, effective(state.environ)}
     /\ state.stage = "imported" =>
          state.captured = effective(state.environ) /\ state.cached = state.captured
Remembers == \A p \in Procs : Recalled(app[p], dotenv)

InstallInv == InstallTypeOK /\ Alone /\ Proper /\ Remembers

-----------------------------------------------------------------------------
\* A process that is off is well formed and remembers nothing.
LEMMA OffState == Off \in AppRecord /\ Off.stage = "off" /\ Off.cached = "none"
  BY InstallAssumption DEF InstallAssumption, Off, AppRecord, Settings

\* The invariant holds before any process has started.
LEMMA InstallInitInv == InstallInit => InstallInv
<1> SUFFICES ASSUME InstallInit PROVE InstallInv
  OBVIOUS
<1>1. \A p \in Procs : app[p] = Off
  BY DEF InstallInit
<1>2. InstallTypeOK
  <2>1. app \in [Procs -> AppRecord]
    BY OffState DEF InstallInit
  <2>2. idRow \in 0..generated /\ generated \in 0..MaxIds
    BY InstallAssumption DEF InstallAssumption, InstallInit
  <2>3. QED BY <2>1, <2>2 DEF InstallInit, InstallTypeOK, Settings
<1>3. Alone /\ Proper /\ Remembers
  BY <1>1, OffState DEF Alone, Proper, Remembers, Recalled, Stage
<1>4. QED BY <1>2, <1>3 DEF InstallInv

\* A step of one process, to a state that is well formed and remembered, leaves the others
\* as they were.
LEMMA OneMoves ==
  ASSUME InstallInv, NEW p \in Procs, NEW state \in AppRecord, AppIs(p, state),
         Recalled(state, dotenv), UNCHANGED <<dotenv, configRow>>,
         generated \in Nat /\ generated' \in Nat /\ generated <= generated',
         state.stage = "generating" => state.id \in 1..generated'
  PROVE  /\ app' \in [Procs -> AppRecord] /\ app'[p] = state
         /\ \A q \in Procs \ {p} : app'[q] = app[q]
         /\ Proper' /\ Remembers'
<1>1. /\ app' \in [Procs -> AppRecord] /\ app'[p] = state
      /\ \A q \in Procs \ {p} : app'[q] = app[q]
  BY DEF InstallInv, InstallTypeOK, AppIs
<1>2. Proper'
  BY <1>1 DEF InstallInv, Proper, Stage
<1>3. Remembers'
  BY <1>1 DEF InstallInv, Remembers
<1>4. QED BY <1>1, <1>2, <1>3

\* So does a step that leaves the table and the stage behind an id alone.
LEMMA QuietMove ==
  ASSUME InstallInv, NEW p \in Procs, NEW state \in AppRecord, AppIs(p, state),
         Recalled(state, dotenv), UNCHANGED <<dotenv, configRow, idRow, generated, raced>>,
         state.stage \in {"generating", "up"} => state.stage = app[p].stage /\ state.id = app[p].id
  PROVE  InstallInv'
<1>1. /\ state.stage = "generating" => state.id \in 1..generated'
      /\ generated \in Nat /\ generated' \in Nat /\ generated <= generated'
  BY InstallAssumption DEF InstallAssumption, InstallInv, InstallTypeOK, Proper, Stage
<1>2. /\ app' \in [Procs -> AppRecord] /\ app'[p] = state
      /\ \A q \in Procs \ {p} : app'[q] = app[q]
      /\ Proper' /\ Remembers'
  BY <1>1, OneMoves
<1>3. InstallTypeOK'
  BY <1>2 DEF InstallInv, InstallTypeOK, Settings
<1>4. Alone'
  BY <1>2 DEF InstallInv, Alone, Stage
<1>5. QED BY <1>2, <1>3, <1>4 DEF InstallInv

\* Every step keeps the invariant.
LEMMA InstallStepInv == InstallInv /\ [InstallNext]_installVars => InstallInv'
<1> SUFFICES ASSUME InstallInv, [InstallNext]_installVars PROVE InstallInv'
  OBVIOUS
<1> USE InstallAssumption DEF InstallAssumption
<1>1. ASSUME NEW p \in Procs, Import(p) PROVE InstallInv'
  <2>1. PICK environ \in Settings :
          AppIs(p, [Off EXCEPT !.stage = "imported", !.environ = environ,
                     !.captured = Effective(environ), !.cached = Effective(environ)])
    BY <1>1 DEF Import
  <2>2. Effective(environ) \in Settings
    BY DEF Effective, InstallInv, InstallTypeOK
  <2> DEFINE state == [Off EXCEPT !.stage = "imported", !.environ = environ,
                        !.captured = Effective(environ), !.cached = Effective(environ)]
  <2>3. state \in AppRecord
    BY <2>2, OffState DEF AppRecord
  <2>4. Recalled(state, dotenv) /\ state.stage = "imported"
    BY DEF Off, Recalled, Effective
  <2>5. AppIs(p, state)
    BY <2>1
  <2> HIDE DEF state
  <2>6. QED BY <1>1, <2>3, <2>4, <2>5, QuietMove DEF Import
<1>2. ASSUME NEW p \in Procs, Merge(p) PROVE InstallInv'
  <2> DEFINE state == [app[p] EXCEPT !.stage = "resolving", !.merged = configRow,
                        !.cached = "none", !.environ = IF configRow = "unset" THEN @ ELSE configRow]
  <2>1. app[p] \in AppRecord /\ app[p].stage = "imported" /\ Recalled(app[p], dotenv)
    BY <1>2 DEF Merge, Stage, InstallInv, InstallTypeOK, Remembers
  <2>2. state \in AppRecord
    BY <2>1 DEF AppRecord, InstallInv, InstallTypeOK
  <2>3. Recalled(state, dotenv) /\ state.stage = "resolving"
    BY <2>1 DEF AppRecord, Recalled
  <2>4. AppIs(p, state)
    BY <1>2 DEF Merge
  <2> HIDE DEF state
  <2>5. QED BY <1>2, <2>2, <2>3, <2>4, QuietMove DEF Merge
<1>3. ASSUME NEW p \in Procs, GetSettings(p) PROVE InstallInv'
  <2> DEFINE state == [app[p] EXCEPT !.cached = Effective(app[p].environ)]
  <2>1. app[p] \in AppRecord /\ app[p].stage # "off" /\ app[p].cached = "none"
        /\ Recalled(app[p], dotenv)
    BY <1>3 DEF GetSettings, Stage, InstallInv, InstallTypeOK, Remembers
  <2>2. Effective(app[p].environ) \in Settings
    BY <2>1 DEF Effective, AppRecord, InstallInv, InstallTypeOK
  <2>3. state \in AppRecord
    BY <2>1, <2>2 DEF AppRecord
  <2>4. state.stage = app[p].stage /\ state.id = app[p].id
    BY <2>1 DEF AppRecord
  <2>5. Recalled(state, dotenv)
    BY <2>1 DEF AppRecord, Recalled, Effective
  <2>6. AppIs(p, state)
    BY <1>3 DEF GetSettings
  <2> HIDE DEF state
  <2>7. QED BY <1>3, <2>3, <2>4, <2>5, <2>6, QuietMove DEF GetSettings
<1>4. ASSUME NEW p \in Procs, SelectId(p) PROVE InstallInv'
  <2>1. app[p] \in AppRecord /\ app[p].stage = "resolving" /\ Recalled(app[p], dotenv)
    BY <1>4 DEF SelectId, Stage, InstallInv, InstallTypeOK, Remembers
  <2>2. CASE idRow # 0 /\ AppIs(p, [app[p] EXCEPT !.stage = "up", !.id = idRow])
             /\ UNCHANGED <<generated, raced>>
    <3> DEFINE state == [app[p] EXCEPT !.stage = "up", !.id = idRow]
    <3>1. idRow \in 0..MaxIds
      BY DEF InstallInv, InstallTypeOK
    <3>2. state \in AppRecord /\ state.stage = "up" /\ state.id = idRow
      BY <2>1, <3>1 DEF AppRecord
    <3>3. generated \in Nat /\ generated' = generated
      BY <2>2 DEF InstallInv, InstallTypeOK
    <3>4. Recalled(state, dotenv)
      BY <2>1 DEF AppRecord, Recalled
    <3>5. AppIs(p, state)
      BY <2>2
    <3> HIDE DEF state
    <3>6. /\ app' \in [Procs -> AppRecord] /\ app'[p] = state
          /\ \A q \in Procs \ {p} : app'[q] = app[q]
          /\ Proper' /\ Remembers'
      BY <1>4, <3>1, <3>2, <3>3, <3>4, <3>5, OneMoves DEF SelectId
    <3>7. InstallTypeOK'
      BY <1>4, <2>2, <3>6 DEF SelectId, InstallInv, InstallTypeOK, Settings
    <3>8. Alone'
      BY <1>4, <2>2, <3>2, <3>6 DEF SelectId, InstallInv, Alone, Stage
    <3>9. QED BY <3>6, <3>7, <3>8 DEF InstallInv
  <2>3. CASE /\ idRow = 0 /\ generated < MaxIds
             /\ generated' = generated + 1
             /\ AppIs(p, [app[p] EXCEPT !.stage = "generating", !.id = generated + 1])
             /\ raced' = (raced \/ \E q \in Procs : Stage(q, "generating"))
    <3> DEFINE state == [app[p] EXCEPT !.stage = "generating", !.id = generated + 1]
    <3>1. /\ generated \in Nat /\ generated' = generated + 1
          /\ generated + 1 \in 0..MaxIds /\ generated + 1 # 0
      BY <2>3 DEF InstallInv, InstallTypeOK
    <3>2. state \in AppRecord /\ state.stage = "generating" /\ state.id = generated + 1
      BY <2>1, <3>1 DEF AppRecord
    <3>3. Recalled(state, dotenv)
      BY <2>1 DEF AppRecord, Recalled
    <3>4. AppIs(p, state)
      BY <2>3
    <3> HIDE DEF state
    <3>5. /\ app' \in [Procs -> AppRecord] /\ app'[p] = state
          /\ \A q \in Procs \ {p} : app'[q] = app[q]
          /\ Proper' /\ Remembers'
      BY <1>4, <3>1, <3>2, <3>3, <3>4, OneMoves DEF SelectId
    <3>6. InstallTypeOK'
      BY <1>4, <2>3, <3>1, <3>5 DEF SelectId, InstallInv, InstallTypeOK, Settings
    <3>7. Alone'
      BY <1>4, <2>3, <3>2, <3>5 DEF SelectId, InstallInv, Alone, Stage
    <3>8. QED BY <3>5, <3>6, <3>7 DEF InstallInv
  <2>4. QED BY <1>4, <2>2, <2>3 DEF SelectId
<1>5. ASSUME NEW p \in Procs, UpsertId(p) PROVE InstallInv'
  <2> DEFINE state == [app[p] EXCEPT !.stage = "up"]
  <2>1. /\ app[p] \in AppRecord /\ app[p].stage = "generating" /\ app[p].id \in 1..generated
        /\ Recalled(app[p], dotenv)
    BY <1>5 DEF UpsertId, Stage, InstallInv, InstallTypeOK, Remembers, Proper
  <2>2. state \in AppRecord /\ state.stage = "up" /\ state.id = app[p].id
    BY <2>1 DEF AppRecord
  <2>3. Recalled(state, dotenv)
    BY <2>1 DEF AppRecord, Recalled
  <2>4. AppIs(p, state)
    BY <1>5 DEF UpsertId
  <2> HIDE DEF state
  <2>5. generated \in Nat /\ generated' = generated
    BY <1>5 DEF UpsertId, InstallInv, InstallTypeOK
  <2>6. /\ app' \in [Procs -> AppRecord] /\ app'[p] = state
        /\ \A q \in Procs \ {p} : app'[q] = app[q]
        /\ Proper' /\ Remembers'
    BY <1>5, <2>5, <2>2, <2>3, <2>4, OneMoves DEF UpsertId
  <2>7. InstallTypeOK'
    BY <1>5, <2>1, <2>6 DEF UpsertId, InstallInv, InstallTypeOK, AppRecord, Settings
  <2>8. Alone'
    BY <1>5, <2>1, <2>2, <2>6 DEF UpsertId, InstallInv, Alone, Stage
  <2>9. QED BY <2>6, <2>7, <2>8 DEF InstallInv
<1>6. ASSUME NEW p \in Procs, Stop(p) PROVE InstallInv'
  <2>1. Recalled(Off, dotenv)
    BY OffState DEF Recalled
  <2>2. QED BY <1>6, <2>1, OffState, QuietMove DEF Stop
<1>7. CASE SetConfig \/ DeleteConfig \/ UNCHANGED installVars
  BY <1>7 DEF SetConfig, DeleteConfig, installVars, InstallInv, InstallTypeOK, Alone, Proper,
              Remembers, Stage, Settings
<1>8. QED
  BY <1>1, <1>2, <1>3, <1>4, <1>5, <1>6, <1>7 DEF InstallNext

\* The invariant holds in every reachable state.
LEMMA InstallInvHolds == InstallSpec => []InstallInv
  BY InstallInitInv, InstallStepInv, PTL DEF InstallSpec

-----------------------------------------------------------------------------
\* Types are as declared, whatever processes start, stop and write.
THEOREM InstallTypeCorrect == InstallSpec => []InstallTypeOK
<1>1. InstallInv => InstallTypeOK
  BY DEF InstallInv
<1>2. QED BY <1>1, InstallInvHolds, PTL

\* Any number of processes that are up agree with the table on the id of the installation,
\* unless two of them were generating one at a time.
THEOREM OneIdUnlessRaceHolds == InstallSpec => []OneIdUnlessRace
<1>1. InstallInv => OneIdUnlessRace
  BY DEF InstallInv, Alone, OneIdUnlessRace
<1>2. QED BY <1>1, InstallInvHolds, PTL

\* The parts of a process disagree on a setting only by a row merged after the import, and
\* never where the .env file has the setting.
THEOREM SplitOnlyByRowHolds == InstallSpec => []SplitOnlyByRow
<1>1. InstallInv => SplitOnlyByRow
  <2> SUFFICES ASSUME InstallInv, NEW p \in Procs, app[p].cached \notin {"none", app[p].captured}
               PROVE  app[p].merged = app[p].cached /\ dotenv = "unset"
    BY DEF SplitOnlyByRow
  <2>1. Recalled(app[p], dotenv)
    BY DEF InstallInv, Remembers
  <2>2. QED BY <2>1 DEF Recalled
<1>2. QED BY <1>1, InstallInvHolds, PTL
-----------------------------------------------------------------------------
(* The services side by side.                                                *)

\* A step of the services is a step of the one at work and none of the others.
LEMMA OneAtWork ==
  ASSUME [ServicesNext]_servicesVars
  PROVE  /\ [AccessNext]_accessVars /\ [RolesNext]_roleVars /\ [TokensNext]_tokenVars
         /\ [RealtimeNext]_realtimeVars /\ [CloudNext]_cloudVars /\ [InstallNext]_installVars
<1>1. CASE ServicesNext
  BY <1>1 DEF ServicesNext, Still
<1>2. CASE UNCHANGED servicesVars
  BY <1>2 DEF servicesVars
<1>3. QED BY <1>1, <1>2

\* No service writes the state of another: what each does beside the others it does alone, so
\* the theorems about each hold of the services together.
THEOREM EachAlone ==
  ServicesSpec => /\ AccessSpec /\ RolesSpec /\ TokensSpec
                  /\ RealtimeSpec /\ CloudSpec /\ InstallSpec
<1>1. ServicesInit => /\ AccessInit /\ RolesInit /\ TokensInit
                      /\ RealtimeInit /\ CloudInit /\ InstallInit
  BY DEF ServicesInit
<1>2. QED
  BY <1>1, OneAtWork, PTL
     DEF ServicesSpec, AccessSpec, RolesSpec, TokensSpec, RealtimeSpec, CloudSpec, InstallSpec

\* The services keep to their types side by side.
THEOREM ServicesTypeCorrect == ServicesSpec => []ServicesTypeOK
<1>1. ServicesSpec => [](part \in Parts)
  <2>1. ServicesInit => part \in Parts
    BY DEF ServicesInit
  <2>2. part \in Parts /\ [ServicesNext]_servicesVars => (part \in Parts)'
    BY DEF ServicesNext, servicesVars, Parts
  <2>3. QED BY <2>1, <2>2, PTL DEF ServicesSpec
<1>2. /\ part \in Parts
      /\ AccessTypeOK /\ RolesTypeOK /\ TokensTypeOK /\ RealtimeTypeOK /\ CloudTypeOK /\ InstallTypeOK
      => ServicesTypeOK
  BY DEF ServicesTypeOK
<1>3. QED
  BY <1>1, <1>2, EachAlone, AccessTypeCorrect, RolesTypeCorrect, TokensTypeCorrect,
     RealtimeTypeCorrect, CloudTypeCorrect, InstallTypeCorrect, PTL
=============================================================================
